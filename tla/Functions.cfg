\* Every command line of up to four arguments; every input of up to nine bytes
\* with frames of up to four and a buffer of two; floats with three digits.
CONSTANTS
  Tokens <- Vocabulary
  MaxArgs = 4
  Blank = {"", " "}
  ConsumesValue = {"-m"}
  Passthrough = {"-h"}
  Environments <- Inherited
  Identities <- Callers
  Cuts <- CutTable
  Rules <- RuleTable
  MaxInputFrame = 4
  BufferSize = 2
  MantissaBits = 3
  Decoded <- JsonStrings
  MaxInput = 9
SPECIFICATION MCSpec
\* The functions return.
CHECK_DEADLOCK FALSE
INVARIANTS
  ArgumentsClassified
  EnvironmentOwned
  TypedFieldsProtected
  FramesExact
  KeysDistinct
