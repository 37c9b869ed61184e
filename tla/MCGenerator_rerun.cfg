\* Three runs of the script over one output root, each with either
\* strategy, --list or a write loop with no, an empty or a given --enclave.
CONSTANTS
  Value <- RealValue
  FaultTypes <- SubFaultTypes
  TargetTiers <- SubTargetTiers
  Severities <- SubSeverities
  Tokens <- RealTokens
  Slug <- RealSlug
  Category <- RealCategory
  Aliases <- RealAliases
  Placeholder = "${ENCLAVE_NAME}"
  NoEnclave = NoEnclave
  Enclaves = {"", "my-enclave"}
  ParamEntries <- RealParamEntries
  MaxInvocations = 3
SPECIFICATION GenSpec
INVARIANTS CurrentRunWins
\* The last run returns: its final state has no successor.
CHECK_DEADLOCK FALSE
