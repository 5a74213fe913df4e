SPECIFICATION Spec
CONSTANTS
  Symbols <- SymbolsMC
  Skipped <- SkippedMC
  Names <- NamesMC
  Builtin <- BuiltinMC
  User <- UserMC
  Definitions <- DefinitionsMC
  Samples <- SamplesMC
INVARIANTS TypeOK AcyclicIsResolved RoundTrip LongestIsKept
CHECK_DEADLOCK FALSE
