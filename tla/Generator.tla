------------------------------ MODULE Generator ------------------------------
(***************************************************************************)
(* main() of scripts/generate_scenarios.py: one invocation of the script.  *)
(* The pairwise strategy runs the greedy loop of PairwiseGreedy (its       *)
(* variables and actions, composed here); the full strategy takes          *)
(* full_combinations().  Then either the --list preview is printed, or     *)
(* every combination is assembled, serialised and written to               *)
(* <category>/<name>.yaml, one file per step.                              *)
(*                                                                         *)
(* The command-line arguments are inputs: --pairwise is chosen at the      *)
(* start, --list and --enclave where main() first reads them (they cannot *)
(* change in between, and nothing reads them earlier).                     *)
(***************************************************************************)
EXTENDS PairwiseGreedy, ScenarioAssembler

CONSTANTS
  Enclaves,        \* values of --enclave tried, besides NoEnclave
  MaxInvocations   \* the number of runs of the script over one output root

ASSUME InvocationsAssumption == MaxInvocations \in Nat \ {0}

VARIABLES
  phase,      \* "strategy", "pairwise", "combos", "write", "finished", "failed"
  pairwise,   \* args.pairwise
  listOnly,   \* args.list_only
  enclave,    \* args.enclave
  combos,     \* the list of combinations of the chosen strategy
  i,          \* position of the write loop in combos (1-based)
  written,    \* the counter `written`
  printed,    \* the names printed by the --list preview
  files,      \* the output directory: path |-> document; it outlives a run
  invocation  \* which run of the script this is

genVars == <<phase, pairwise, listOnly, enclave, combos, i, written, printed, files,
            invocation>>
allVars == <<vars, genVars>>

GenInit ==
  /\ Init
  /\ phase = "strategy"
  /\ pairwise \in BOOLEAN
  /\ listOnly = FALSE
  /\ enclave = NoEnclave
  /\ combos = <<>>
  /\ i = 1
  /\ written = 0
  /\ printed = <<>>
  /\ files = [p \in {} |-> <<>>]
  /\ invocation = 1

(* combos = pairwise_combinations() if args.pairwise else                  *)
(* full_combinations()                                                     *)
ChooseStrategy ==
  /\ phase = "strategy"
  /\ IF pairwise
       THEN phase' = "pairwise" /\ UNCHANGED combos
       ELSE phase' = "combos" /\ combos' = FullCombinations
  /\ UNCHANGED <<vars, pairwise, listOnly, enclave, i, written, printed, files, invocation>>

(* One step of pairwise_combinations().                                    *)
GreedyStep ==
  /\ phase = "pairwise"
  /\ Next
  /\ UNCHANGED genVars

(* Mutant: the function returns best_combo instead of selected.            *)
GreedyReturnBest ==
  /\ phase = "pairwise"
  /\ pc = "done"
  /\ combos' = bestCombo
  /\ phase' = "combos"
  /\ UNCHANGED <<vars, pairwise, listOnly, enclave, i, written, printed, files, invocation>>

(* pairwise_combinations() returns `selected`.                             *)
GreedyReturn ==
  /\ phase = "pairwise"
  /\ pc = "done"
  /\ combos' = selected
  /\ phase' = "combos"
  /\ UNCHANGED <<vars, pairwise, listOnly, enclave, i, written, printed, files, invocation>>

(* `if args.list_only: _print_list(combos); return`.  _print_list looks   *)
(* up SEVERITY_SLUGS[ft][sv] for every row before it prints one (a        *)
(* KeyError), then takes max() over the rows, which raises ValueError on  *)
(* an empty list.                                                          *)
ListOnly ==
  /\ phase = "combos"
  /\ listOnly' = TRUE
  /\ IF \/ Len(combos) = 0
        \/ \E m \in 1..Len(combos) : combos[m][3] \notin DOMAIN Slug[combos[m][1]]
       THEN phase' = "failed" /\ UNCHANGED printed
       ELSE /\ printed' = [m \in 1..Len(combos) |-> ListName(combos[m])]
            /\ phase' = "finished"
  /\ UNCHANGED <<vars, pairwise, enclave, combos, i, written, files, invocation>>

(* Otherwise the write loop starts, with the --enclave argument.           *)
StartWriting ==
  /\ phase = "combos"
  /\ \E e \in {NoEnclave} \cup Enclaves : enclave' = e
  /\ phase' = "write"
  /\ UNCHANGED <<vars, pairwise, listOnly, combos, i, written, printed, files, invocation>>

(* The text written for combination c under --enclave e: build_scenario,   *)
(* to_yaml and the substitution.                                           *)
Document(c, e) == SubstituteEnclave(ToYaml(BuildScenario(c)), e)

(* Mutant: an existing file is kept (as if opened with "x" or skipped      *)
(* when it exists) instead of replaced.                                    *)
WriteScenarioKeepsExisting ==
  /\ phase = "write"
  /\ i <= Len(combos)
  /\ IF LookupsDefined(combos[i])
       THEN /\ files' = [p \in DOMAIN files \cup {PathOf(combos[i])} |->
                           IF p \in DOMAIN files THEN files[p]
                           ELSE Document(combos[i], enclave)]
            /\ i' = i + 1
            /\ written' = written + 1
            /\ UNCHANGED phase
       ELSE /\ phase' = "failed"
            /\ UNCHANGED <<files, i, written>>
  /\ UNCHANGED <<vars, pairwise, listOnly, enclave, combos, printed, invocation>>

(* One iteration of `for ft, tt, sv in combos`: build_scenario, to_yaml,   *)
(* the enclave substitution, makedirs and the write of                     *)
(* <category>/<name>.yaml (open(..., "w") replaces an existing file),      *)
(* written += 1.  A KeyError of build_scenario ends main() with the files *)
(* of the earlier iterations written.                                      *)
WriteScenario ==
  /\ phase = "write"
  /\ i <= Len(combos)
  /\ IF LookupsDefined(combos[i])
       THEN /\ files' = [p \in DOMAIN files \cup {PathOf(combos[i])} |->
                           IF p = PathOf(combos[i]) THEN Document(combos[i], enclave)
                           ELSE files[p]]
            /\ i' = i + 1
            /\ written' = written + 1
            /\ UNCHANGED phase
       ELSE /\ phase' = "failed"
            /\ UNCHANGED <<files, i, written>>
  /\ UNCHANGED <<vars, pairwise, listOnly, enclave, combos, printed, invocation>>

(* Mutant: the loop stops one combination early (range(len(combos) - 1)). *)
FinishWritingEarly ==
  /\ phase = "write"
  /\ i = Len(combos)
  /\ phase' = "finished"
  /\ UNCHANGED <<vars, pairwise, listOnly, enclave, combos, i, written, printed, files, invocation>>

(* The loop is over: the summary is printed and main() returns.            *)
FinishWriting ==
  /\ phase = "write"
  /\ i = Len(combos) + 1
  /\ phase' = "finished"
  /\ UNCHANGED <<vars, pairwise, listOnly, enclave, combos, i, written, printed, files, invocation>>

(* The script is run again with the same --output: a fresh process, so    *)
(* main() and the strategy start over with new arguments, but the files    *)
(* of the earlier runs are still in the output root (makedirs with         *)
(* exist_ok=True, nothing removed).                                        *)
Rerun ==
  /\ phase \in {"finished", "failed"}
  /\ invocation < MaxInvocations
  /\ invocation' = invocation + 1
  /\ covered' = {} /\ selected' = <<>> /\ bestCombo' = None /\ bestNew' = -1
  /\ k' = 1 /\ pc' = "test"
  /\ phase' = "strategy"
  /\ pairwise' \in BOOLEAN
  /\ listOnly' = FALSE
  /\ enclave' = NoEnclave
  /\ combos' = <<>>
  /\ i' = 1
  /\ written' = 0
  /\ printed' = <<>>
  /\ UNCHANGED files

GenNext ==
  \/ ChooseStrategy
  \/ GreedyStep
  \/ GreedyReturn
  \/ ListOnly
  \/ StartWriting
  \/ WriteScenario
  \/ FinishWriting
  \/ Rerun

(* main() is sequential and never blocks; after the last run nothing moves. *)
GenSpec == GenInit /\ [][GenNext]_allVars /\ WF_allVars(GenNext)

-----------------------------------------------------------------------------
(* The type invariant.                                                     *)
GenTypeOK ==
  /\ phase \in {"strategy", "pairwise", "combos", "write", "finished", "failed"}
  /\ pairwise \in BOOLEAN
  /\ listOnly \in BOOLEAN
  /\ enclave \in {NoEnclave} \cup Enclaves
  /\ combos \in Seq(Value \X Value \X Value)
  /\ i \in 1..(Len(combos) + 1)
  /\ written \in Nat
  /\ printed \in Seq(Seq(STRING))
  /\ DOMAIN files \subseteq STRING \X Seq(STRING)
  /\ invocation \in 1..MaxInvocations

(* No file is overwritten by another combination of the same run: when     *)
(* main() returns, the count it reports ("Generated {written}              *)
(* scenario(s)") is the number of files in the output directory, one per   *)
(* combination.  It rests on the greedy result having no duplicate and on *)
(* the name being injective over the full domain.                          *)
OneFilePerCombination ==
  phase = "finished" /\ ~listOnly =>
    /\ written = Len(combos)
    /\ Cardinality(DOMAIN files) = written

(* The --list preview prints, for every combination, the very name of the  *)
(* file a run without --list writes for it.                                *)
PreviewShowsFileNames ==
  phase = "finished" /\ listOnly =>
    \A m \in 1..Len(combos) : <<Category[combos[m][1]], printed[m]>> = PathOf(combos[m])

(* No written document carries a YAML anchor: every fault entry of a       *)
(* scenario has a parameter dict of its own (the comment at the copy in    *)
(* build_scenario).                                                        *)
NoSharedParams ==
  \A p \in DOMAIN files : \A s \in DOMAIN files[p].faults :
    files[p].faults[s].params.origin = "plain"


(* When a run that writes returns, the output root holds, for every        *)
(* combination of that run, the very document this run produced for it:   *)
(* neither a file of an earlier run (another --enclave, another strategy) *)
(* nor one of another combination of this run shadows it.                  *)
CurrentRunWins ==
  phase = "finished" /\ ~listOnly =>
    \A m \in 1..Len(combos) : files[PathOf(combos[m])] = Document(combos[m], enclave)

(* A configuration error (a fault with no parameters or no slug for a      *)
(* severity) aborts before any file is written: the spec's ConfigError,   *)
(* "no partial output".                                                    *)
NoPartialOutput ==
  phase = "failed" /\ ~listOnly => written = 0
=============================================================================
