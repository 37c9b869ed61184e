-------------------------- MODULE ScenarioAssembler --------------------------
(***************************************************************************)
(* build_scenario() and the YAML serialisation of scripts/                 *)
(* generate_scenarios.py, abstracted to what the properties tell apart:    *)
(*                                                                         *)
(*  - a name is the sequence of its tokens: words and the one-character    *)
(*    separators "_" and "-".  Two names are equal strings exactly when    *)
(*    their token sequences are equal, so str.replace('_', '-') and the    *)
(*    f-string concatenation are modelled by what they do on tokens;       *)
(*  - the parameter dict of a fault entry is its content (the fault type   *)
(*    and severity it is looked up with) and the Python object holding it *)
(*    (its origin: the table's own dict, this call's base_params, or the   *)
(*    fresh dict(base_params) made for selector s);                        *)
(*  - labels, descriptions, timing, criteria, metrics and tags are left    *)
(*    out: no property tells them apart.                                   *)
(***************************************************************************)
EXTENDS Combinations

CONSTANTS
  Tokens,        \* the token sequence of every fault type and target tier name
  Slug,          \* SEVERITY_SLUGS: Slug[ft][sv] is a token sequence
  Category,      \* FAULT_DEFINITIONS[ft]["category"]
  Aliases,       \* the aliases of TARGET_TIERS[tt]["selectors"], in order
  Placeholder,   \* the text ${ENCLAVE_NAME}
  NoEnclave,     \* --enclave not given (None)
  ParamEntries   \* ParamEntries[ft]: the severities FAULT_DEFINITIONS[ft] has a dict for

(* The tables hold strings: every fault type and tier name, every slug of  *)
(* SEVERITY_SLUGS and every category is a Python str, here a sequence of   *)
(* string tokens (a category is one token).                                *)
ASSUME TablesAssumption ==
  /\ \A x \in DOMAIN FaultTypes :
       /\ Tokens[FaultTypes[x]] \in Seq(STRING)
       /\ Category[FaultTypes[x]] \in STRING
       /\ \A sv \in DOMAIN Slug[FaultTypes[x]] : Slug[FaultTypes[x]][sv] \in Seq(STRING)
  /\ \A y \in DOMAIN TargetTiers : Tokens[TargetTiers[y]] \in Seq(STRING)

(* The literal tokens of the f-strings are strings (TLC knows this; the    *)
(* provers do not know that a string literal is in STRING).                *)
ASSUME LiteralsAssumption == {"gen", "-"} \subseteq STRING

(* Python's str.replace('_', '-') on a token sequence.                     *)
Dashed(ts) == [x \in DOMAIN ts |-> IF ts[x] = "_" THEN "-" ELSE ts[x]]

(* The dict lookups of build_scenario that depend on the table contents    *)
(* succeed: fault_def[severity] (300) and SEVERITY_SLUGS[ft][sv] (314).    *)
(* Otherwise build_scenario raises KeyError; nothing catches it.           *)
LookupsDefined(c) ==
  /\ c[3] \in ParamEntries[c[1]]
  /\ c[3] \in DOMAIN Slug[c[1]]

(* Mutant: the slug left out of the name.                                  *)
NameNoSlug(c) ==
  <<"gen", "-">> \o Dashed(Tokens[c[1]]) \o <<"-">> \o Dashed(Tokens[c[2]])

(* The scenario name of combination c = <<fault_type, target_tier,         *)
(* severity>>: gen-{fault_type}-{slug}-{target_tier}, '_' made '-'.       *)
Name(c) ==
  <<"gen", "-">> \o Dashed(Tokens[c[1]]) \o <<"-">> \o Slug[c[1]][c[3]]
    \o <<"-">> \o Dashed(Tokens[c[2]])

(* Mutant: the preview forgets to replace '_' in the target tier.          *)
ListNameRawTier(c) ==
  <<"gen", "-">> \o Dashed(Tokens[c[1]]) \o <<"-">> \o Slug[c[1]][c[3]]
    \o <<"-">> \o Tokens[c[2]]

(* The name the --list preview prints, computed by _print_list's own       *)
(* f-string.                                                               *)
ListName(c) ==
  <<"gen", "-">> \o Dashed(Tokens[c[1]]) \o <<"-">> \o Slug[c[1]][c[3]]
    \o <<"-">> \o Dashed(Tokens[c[2]])

(* Mutant: every fault entry gets base_params itself.                      *)
FaultsSharedBase(c) ==
  [s \in 1..Len(Aliases[c[2]]) |->
     [target |-> Aliases[c[2]][s],
      params |-> [value |-> <<c[1], c[3]>>, origin |-> "base_params"]]]

(* One fault entry per selector of the tier, targeting its alias, with a   *)
(* fresh copy dict(base_params) of the severity's parameters.              *)
Faults(c) ==
  [s \in 1..Len(Aliases[c[2]]) |->
     [target |-> Aliases[c[2]][s],
      params |-> [value |-> <<c[1], c[3]>>, origin |-> <<"copy", s>>]]]

(* build_scenario(ft, tt, sv), the fields the properties use.             *)
BuildScenario(c) ==
  [name     |-> Name(c),
   category |-> Category[c[1]],
   targets  |-> Aliases[c[2]],
   enclave  |-> Placeholder,
   faults   |-> Faults(c)]

(* to_yaml(): PyYAML emits an anchor/alias pair (&id001, *id001) when one  *)
(* Python object occurs twice in the document.                             *)
ToYaml(rec) ==
  [rec EXCEPT !.faults =
     [s \in DOMAIN rec.faults |->
        [rec.faults[s] EXCEPT !.params =
           [rec.faults[s].params EXCEPT !.origin =
              IF \E t \in DOMAIN rec.faults :
                    t # s /\ rec.faults[t].params.origin = rec.faults[s].params.origin
                THEN "anchored" ELSE "plain"]]]]

(* content.replace("${ENCLAVE_NAME}", enclave) when `if args.enclave:` is  *)
(* true (a given, non-empty value).                                        *)
SubstituteEnclave(doc, enclave) ==
  IF enclave \notin {NoEnclave, ""}
    THEN [doc EXCEPT !.enclave = IF doc.enclave = Placeholder THEN enclave ELSE @]
    ELSE doc

(* The path os.path.join(output, category, name + ".yaml"), the output     *)
(* root left out.                                                          *)
PathOf(c) == <<Category[c[1]], Name(c)>>

(* The spec's naming requirement: no two combinations of the full domain   *)
(* get the same output path (category and name).                           *)
PathsInjective ==
  \A c1, c2 \in ComboSet : PathOf(c1) = PathOf(c2) => c1 = c2
=============================================================================
