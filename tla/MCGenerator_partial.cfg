\* One run with a FAULT_DEFINITIONS entry missing a severity.
CONSTANTS
  Value <- RealValue
  FaultTypes <- SubFaultTypes
  TargetTiers <- SubTargetTiers
  Severities <- SubSeverities
  Tokens <- RealTokens
  Slug <- RealSlug
  Category <- RealCategory
  Aliases <- RealAliases
  Placeholder = "${ENCLAVE_NAME}"
  NoEnclave = NoEnclave
  Enclaves = {"my-enclave"}
  ParamEntries <- BrokenParamEntries
  MaxInvocations = 1
SPECIFICATION GenSpec
INVARIANTS NoPartialOutput
CHECK_DEADLOCK FALSE
