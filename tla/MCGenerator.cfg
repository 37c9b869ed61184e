\* One invocation of main() on the repository's tables: either strategy,
\* --list or a write loop with no, an empty or a given --enclave.
CONSTANTS
  Value <- RealValue
  FaultTypes <- RealFaultTypes
  TargetTiers <- RealTargetTiers
  Severities <- RealSeverities
  Tokens <- RealTokens
  Slug <- RealSlug
  Category <- RealCategory
  Aliases <- RealAliases
  Placeholder = "${ENCLAVE_NAME}"
  NoEnclave = NoEnclave
  Enclaves = {"", "my-enclave"}
  ParamEntries <- RealParamEntries
  MaxInvocations = 1
SPECIFICATION GenSpec
INVARIANTS GenTypeOK OneFilePerCombination PreviewShowsFileNames NoSharedParams
\* main() returns: its final state has no successor.
CHECK_DEADLOCK FALSE
