# Verification project for `scripts/generate_scenarios.py`

This directory holds TLA+ models of the chaos-scenario generator in
`src/scripts/generate_scenarios.py`, the TLC configurations that check them, and
TLAPS proofs about them.

## 1. Inventory

The repository is one sequential Python script (537 lines). It has no threads,
no callbacks and no messages: its hard parts are the combinatorics of the
pairwise reduction, the determinism of the order it produces, and what happens
to the output directory across the loop and across invocations.

| Component | Code | State it keeps | Operations |
|---|---|---|---|
| ParameterMatrix | `FAULT_DEFINITIONS`, `SEVERITY_SLUGS`, `SEVERITY_LABELS`, `TARGET_TIERS`, `SEVERITIES`, `TIMING`, `INVARIANT_CRITERIA` (57-281) | constant tables, never mutated | read-only lookups |
| FullEnumeration | `full_combinations` (361-366) | none | `itertools.product` of the three dimension lists |
| PairwiseGreedy | `pairwise_combinations` (369-420) | `covered`, `selected`, `best_combo`, `best_new`, the scan position | while loop; scan of all combinations; break; append and mark |
| allpairspy branch | 381-385 | none | delegates to an external library when importable |
| ScenarioAssembler | `scenario_description`, `build_scenario` (286-356) | none (fresh dicts per call) | record of one combination: targets, one fault per selector, criteria windowed by the duration, name and tags |
| YAML serialiser | `_str_representer`, `_build_dumper`, `to_yaml` (425-446) | registers a representer on `yaml.Dumper` | quoting of strings that begin with `>`, `<`, `=`, `!` |
| Generator CLI | `main` (451-501) | the output directory (files persist across invocations), `written` | choose strategy; `--list` preview and return; per combination build, serialise, substitute the enclave, `makedirs`, write |
| Preview | `_print_list` (504-534) | none | recomputes name, description, category, duration for each combination |

Interactions: `main` calls one strategy; the strategy reads the dimension lists;
`main` calls `build_scenario` for every combination, which reads the tables;
`to_yaml` serialises; `main` writes `<output>/<category>/<name>.yaml`. The only
shared mutable state is the file system.

What makes each component correct:

- FullEnumeration: every combination exactly once, last dimension fastest.
- PairwiseGreedy: the result covers every pair of values of every two
  dimensions; the loop terminates; each round takes the first candidate, in
  enumeration order, with the largest gain (determinism of the output).
- ScenarioAssembler: the name is injective over the full domain (it is the
  file name); one fault per selector, each with its own copy of the severity's
  parameters; every criterion windowed at the severity's duration.
- Generator: one file per combination and no file overwritten by another
  combination of the same invocation; no partial output on a configuration
  error (spec); the preview shows the names that would be written.

The hazards (PROJECT.json "hazards") are the places where these can go wrong
and a unit test would hardly look: the proper-subset loop test (402), the
strict tie-break comparison (411), the break on an empty dimension (413), the
name built by concatenation (315), the output directory never cleaned (488),
an exception in the middle of the write loop (480), the preview recomputing the
name (509), the per-fault parameter copy (300).

## 2. Plan

Modules, in the order they are built:

1. `Combinations` (done): the dimension lists as CONSTANTS, `full_combinations`
   as the mixed-radix decoding `Combo(k)`, the pairwise requirements and the
   projections of a combination. No recursion, so it can be proved about.
2. `PairwiseGreedy` (done): the greedy loop, EXTENDS `Combinations`.
   `MCPairwiseGreedy` gives it the repository's matrix.
3. `PairwiseGreedyProofs` (done): TypeOK and CoverageComplete proved.
4. `ScenarioAssembler` (done for name, faults, YAML anchors, enclave):
   `build_scenario` over tables given as CONSTANTS. Left: criteria windows.
5. `Generator` (done): `main` with the strategy, list-only flag and enclave
   as inputs, the write loop one file per step, the output directory as a
   function path -> document that persists across invocations (`Rerun`), and
   the `KeyError` a malformed table raises in the middle of the loop.
6. `CoveringStrategy` and the refinement (done): the abstract contract of a
   pairwise strategy, implemented by `PairwiseGreedy` under the mapping
   result = selected when pc = "done".
7. `ParameterTables` (done): the repository's tables, transcribed once and
   used by both MC modules.
8. `GeneratorProofs` (done): `GenTypeOK`, `CurrentRunWins`, `NoSharedParams`,
   `PreviewShowsFileNames` and, for one invocation, `OneFilePerCombination`
   proved.

Left: the criteria windows, TIMING and labels; the liveness properties stay
with TLC.

## 3. Modules and how they map to the code

### Combinations
CONSTANTS `FaultTypes`, `TargetTiers`, `Severities` are the three lists (the
dict keys in insertion order). `Combo(k)` is the k-th element of
`itertools.product`; `Required` is the set `required`, `PairsOf(c)` the tuples
`(i, c[i], j, c[j])` added to `covered`. Dimensions are numbered 1..3 (0..2 in
Python).

### PairwiseGreedy
Variables `covered`, `selected`, `bestCombo`, `bestNew`, `k` (scan position)
and `pc` ("test", "scan", "done"). Actions:

- `StartRound`: `while covered < required` true; reset best to (None, -1).
- `ExitLoop`: the loop test is false; return.
- `ScanCombo`: one iteration of `for combo in all_combos` with `new > best_new`.
- `EndScan`: after the scan, either `break` (best is None or best_new == 0) or
  append and mark the projections covered.

`MaxRounds` (= |required|) bounds the rounds in `EndScan`'s guard; the correct
code never reaches it because each round covers at least one new pair. It
exists so that a broken marking shows up as a violation of `Termination`
instead of an infinite state space.

### ScenarioAssembler
Pure operators, no state. A name is a sequence of tokens (words and the
separators `_`, `-`): two names are equal strings exactly when their token
sequences are equal, so `str.replace('_', '-')` is `Dashed` and the f-strings
are concatenation. `Name` is the name of `build_scenario` (314-320), `ListName`
the one `_print_list` recomputes (507-509); they are two definitions because the code
computes it twice. `Faults` is one entry per selector alias with its parameter
dict; a dict is its content and its identity (`origin`): the fresh
`dict(base_params)` made for selector s (299-310). `ToYaml` models the one thing
PyYAML's output depends on here: an object met twice in a document is written
as an anchor and an alias. `SubstituteEnclave` is the `if args.enclave:`
replace (483-484), `PathOf` the `os.path.join` (486-491). Labels,
descriptions, timing, criteria and tags are left out: no property tells them
apart.

### Generator
Composes `PairwiseGreedy` (its variables and actions) with the assembler, for
any number (`MaxInvocations`) of calls of `main` over one output root.
Variables `phase`, the arguments `pairwise`, `listOnly`, `enclave`, the list
`combos`, the write position `i`, the counter `written`, the lines `printed`,
the output directory `files` and the number `invocation` of the current call.
Actions: `ChooseStrategy` (467), `GreedyStep` (one step of the greedy loop),
`GreedyReturn` (the return of `selected`), `ListOnly` (474-476 with
`_print_list`, which raises on an empty list or a missing slug),
`StartWriting` (the enclave argument), `WriteScenario` (one iteration of the
loop 479-495: `Document` is build, serialise and substitute; the file is
replaced if it exists; if `LookupsDefined` fails, i.e. `fault_def[severity]`
or the slug is missing, the call dies with phase "failed" and what was written
stays), `FinishWriting` (497-501) and `Rerun` (a new process: every variable
but `files` starts afresh, since `makedirs(exist_ok=True)` and `open("w")`
neither clear nor check the directory). The arguments are chosen
nondeterministically at the point where main first reads them. The
constant `ParamEntries` says for which severities each fault has a parameter
dict, so a malformed table can be given.

### CoveringStrategy
The contract of `pairwise_combinations` as one step: `Return` sets `result`
to any list drawn from `all_combos`, injective and covering all pairs, and
`returned` to TRUE; `Spec` adds `<>returned` (the call returns). The temporal
part is written as `<>returned` rather than as fairness because TLC cannot
evaluate ENABLED of an action that constrains `result'` by a predicate
only. `PairwiseGreedy` maps onto it by
`result <- IF pc = "done" THEN selected ELSE <<>>`,
`returned <- (pc = "done")` (`CS` in `PairwiseGreedy`); the property
`ImplementsCoveringStrategy` is `CS!Spec`.

### ParameterTables
The repository's `FAULT_DEFINITIONS`, `SEVERITY_SLUGS`, `TARGET_TIERS` and
`SEVERITIES` reduced to what the models read: key order, name tokens,
categories, slugs, selector aliases and the severities with a parameter dict.
`MCPairwiseGreedy` and `MCGenerator` extend it and pass it as the constants.

## 4. Runs

| Run | Checks | Shows |
|---|---|---|
| `pairwise_real` | TypeOK, CoverageComplete, GreedyChoice, Termination | on the repository's 11 x 8 x 3 matrix: 88 rounds, 23,410 states |
| `pairwise_empty_dimension` (violation) | CoverageComplete | an empty dimension yields a silent non-covering result |
| `pairwise_documented_count` (violation) | DocumentedPairwiseCount | the docstring's "~24" pairwise scenarios; the code returns 88 |
| `pairwise_real` (refinement) | ImplementsCoveringStrategy | the greedy loop implements `CoveringStrategy`: it returns, once, an injective covering list drawn from `all_combos` |
| `generator_real` | GenTypeOK, OneFilePerCombination, PreviewShowsFileNames, NoSharedParams | one invocation, both strategies, with and without `--list`, with no, an empty and a given `--enclave`, over the real matrix and name tables (264 files for the full strategy): no file overwritten, the preview prints the file names, no YAML anchor |
| `generator_rerun` | CurrentRunWins | three invocations over one output root on a 3 x 2 x 2 sub-matrix of the real tables: whatever earlier runs left, a finished run leaves for each of its combinations the document it produced |
| `generator_partial_config` (violation) | NoPartialOutput | a fault lacking its "severe" parameters: 9 files written, then `KeyError` |

Bounds: the repository's own matrix is checked, so there is no abstraction of
the dimension sizes for the main run. The loop is deterministic, so the run is
one behaviour; what varies is the matrix, which is a constant.

For `generator_real` the tables (`RealTokens`, `RealSlug`, `RealCategory`,
`RealAliases`, `RealParamEntries` in `ParameterTables`) are the repository's, so name collisions are
checked over all 264 combinations rather than a sample, and both strategies'
outputs are written. `Enclaves = {"", "my-enclave"}` covers the three branches
of `if args.enclave:` (None, empty, given).

`generator_rerun` uses a 3 x 2 x 2 sub-matrix (packet_loss, container_restart,
cpu_stress; validator1_bor, all_both; mild, severe) so that three invocations
of either strategy, each with or without `--list` and any enclave, stay small;
the pairwise result (6 combinations) is then a proper subset of the full one
(12), so a run can leave files that a later run does not rewrite. Three
invocations are enough for a file written by the first, overwritten by the
second and left alone by the third; `CurrentRunWins` must hold across all of
them. `NamesAssumption` (`PathsInjective`) is evaluated by TLC on the real
tables in every `MCGenerator` run.

The `break` branch of `EndScan` is reached only when a dimension is empty (with
non-empty dimensions an uncovered requirement is a projection of some
candidate, whose gain is then at least 1); it is exercised by the
`pairwise_empty_dimension` run.

Fairness: `WF_vars(Next)`. The function is a sequential loop with no blocking
call, so as long as it has not returned it takes its next step. Once it has
returned (and, in `Generator`, once the last invocation has ended) no action
is enabled; the runs say `CHECK_DEADLOCK FALSE` for that
reason only.

## 5. Findings

- Empty dimension (line 413): the code returns a non-covering list without an
  error; the spec requires a `ConfigError` for an empty dimension and that a
  coverage shortfall be surfaced.
- Usage line (line 35): "~24 scenarios" for `--pairwise`; the code returns 88,
  and 88 = 11 x 8 is a lower bound for any pairwise cover of this matrix.
- Partial output (line 300): nothing validates the tables before the loop;
  a fault lacking one severity's parameters raises `KeyError` after the
  earlier combinations are written. The spec says a missing severity entry
  is a `ConfigError` with no partial output.

The output root is never cleaned (line 488), so after a full run a
`--pairwise` run leaves the earlier run's files beside its own. Neither the
spec nor the code promises otherwise: the spec leaves file writing and the
writer's cleanup policy open. This is therefore not listed as a finding, and
no property claims that a reused root holds only the last run's files.

## 6. Proofs

`PairwiseGreedyProofs` proves, for every value of the dimension lists:

- `TypeCorrect`: `Spec => []TypeOK`. It rests on `ComboType` (the mixed-radix
  indices of `Combo(k)` stay within the lists, via `DivBound`).
- `CoverageCorrect`: under `NonEmptyDims`, `Spec => []CoverageComplete`.
  `CoverageComplete` is not inductive: a state at "done" says nothing of why
  `covered` is full. The inductive invariant `IInv` adds
  - `CoveredTracksSelected`: `covered` is the union of the projections of
    `selected`;
  - `SelectedFromDomain`: the selected combinations are in the full
    enumeration, so `covered \subseteq Required`;
  - `ScanInv`: during the scan, best is (None, -1) before the first candidate
    and afterwards a candidate whose gain is at least that of every candidate
    scanned so far;
  - `DoneInv`: at "done", `covered = Required`.
  At the end of a scan `best_new` is therefore the largest gain of all
  candidates; the break (`best_new == 0`) means every candidate's projections
  are covered (`GainZero`), and with no empty dimension every requirement is a
  projection of some candidate (`RequiredReached`, from `ComboOfIndex`: the
  position `(x-1)*|T|*|S| + (y-1)*|S| + z` holds the values at positions
  x, y, z, proved with `DivMod`). The loop exit gives `covered = Required`
  directly since `covered \subseteq Required`. IInv was first checked by TLC
  as an invariant of the real run.

- `Refinement`: under `NonEmptyDims`, `Spec => CS!SafeSpec`. The mapping
  stutters until pc becomes "done"; that step is a `Return` because `IInv`,
  strengthened with `NoRepeat` (no combination selected twice, since a
  selected combination has gain 0 afterwards, `GainPositive`), gives an
  injective covering list drawn from `ComboSet` (`CoverUnfold` unfolds the
  instance's definitions); after "done" nothing changes (`DoneIsFinal`).

`GeneratorProofs` proves, for every table and every `MaxInvocations`:

- `CurrentRunWinsCorrect`: under `PathsInjective` (no two combinations of
  `all_combos` share an output path, the spec's naming requirement),
  `GenSpec => []CurrentRunWins`. The inductive invariant `GInv` adds the
  greedy invariant `IInv` with `GreedyInDomain` and `CombosInDomain` (the
  list being written is drawn from `all_combos`, so injectivity applies),
  `PhaseInv` (the write position per phase) and `WrittenCurrent` (during
  and after the write loop the files of positions 1..i-1 hold this run's
  documents): a later write to another path of the same run cannot disturb
  them by injectivity, and `Rerun` resets `i`. The hypothesis is not a
  constant assumption the prover takes on trust: `MCGenerator` checks it on
  the repository's tables as `ASSUME NamesAssumption`.
- `NoSharedParamsCorrect`: `GenSpec => []NoSharedParams`, from
  `FilesAreDocuments` (every file is some `Document(c, e)`) and
  `DocumentPlain` (a document built by `build_scenario` has no anchor).

- `GreedyChoiceCorrect`: `Spec => GreedyChoice` for every matrix: every
  combination appended to `selected` is the first one of `all_combos` with
  the largest gain. `ScanInv` records, besides the gain bound, an index `b`
  of the best candidate with every earlier candidate strictly worse (the
  strict `>` of line 411 keeps the first maximum). At `k = Total + 1` the
  candidate is then the unique witness of the CHOOSE in `FirstBest`
  (`FirstBestChosen`). The invariant used is `CoreInv`, the part of `IInv`
  that needs no `NonEmptyDims` (`CoreStep`), so the action property holds
  with empty dimensions too.

The hypothesis `NonEmptyDims` is needed for `CoverageCorrect` and
`Refinement`: `pairwise_empty_dimension` shows coverage false without it.

`GeneratorProofs` also proves:

- `GenTypeCorrect`: `GenSpec => []GenTypeOK`, with the inductive invariant
  `TInv` (`GreedyInDomain`, `CombosInDomain`, `EarlyPosition`: the write
  position is 1 before the loop). The names are strings because the tables
  are (`DashedType`, `NameType`). The tables' types are
  `ScenarioAssembler`'s `ASSUME TablesAssumption`, and the literal tokens
  "gen" and "-" are strings by `ASSUME LiteralsAssumption`. The provers do
  not know that a string literal is in STRING, but TLC evaluates both
  assumptions on every `MCGenerator` run.
- `PreviewShowsFileNamesCorrect`: `GenSpec => []PreviewShowsFileNames`, for
  every table and any number of runs. `ListPhase` says the preview only
  happens once the run has ended. `PreviewInv` says the printed lines are the
  `ListName`s of `combos`, and `ListNameIsName` says those equal the file
  names `Name` that the write loop would use.
- `OneFilePerCombinationCorrect`: for `MaxInvocations = 1`, under
  `PathsInjective` and `DistinctDims` (no dimension lists a value twice: two
  come from dict keys and SEVERITIES is three distinct literals),
  `GenSpec => []OneFilePerCombination`. `MCGenerator`'s
  `ASSUME NamesAssumption` checks both hypotheses on the repository's tables.
  The inductive invariant `OneInv` extends `GInv` and `CoreInv` with
  - `CombosDistinct`: no combination is listed twice, from `NoRepeat` for the
    greedy list and `ComboInjective` for `full_combinations`. The mixed-radix
    decoding is injective (`MixedRadix`) when the values are distinct;
  - `WrittenCount`: `written = i - 1`;
  - `FirstRunFiles`: in the first run the output root holds exactly the
    paths of `combos[1..i-1]`.
  The count of files then equals the count of distinct paths, which is
  `written` (a bijection from `1..written`, `FS_Bijection`). The bound on
  invocations is part of what the property means: a second run into the
  same root keeps the first run's files, so the directory may hold more
  files than that run wrote.

Only model-checked: `Termination` and the liveness half of
`ImplementsCoveringStrategy`, because TLAPS does not reason about liveness or
ENABLED. The modules meant for proofs use no RECURSIVE operator. What a
recursive definition computes for every input is out of the provers' reach,
so those facts stay with TLC.

## 7. Not modelled

- The allpairspy branch: an external library, not installed, no contract on
  order.
- YAML text layout and PyYAML itself: formatting.
- Argument parsing and printing.
- `SEVERITY_LABELS`, `TIMING`, `INVARIANT_CRITERIA` and the criteria windows
  of `build_scenario`: values copied into the document; no property tells
  them apart.
- `OSError` from `makedirs` or `open` in the write loop: the same
  partial-output path as the `KeyError`, which is modelled.
- `max()` on an empty list in `_print_list` (516): modelled as the failed
  preview; only an empty dimension reaches it, and that is already a finding.
