SPECIFICATION Spec
CONSTANTS
  Forms <- MCForms
  Key <- MCKey
  NameOf <- MCNameOf
  DevName <- MCDevName
  Dev <- MCDev
  Size <- MCSize
  Slashed <- MCSlashed
  Spelling <- MCSpelling
  Lexical <- MCLexical
  Relations = {"variant", "finetune", "quantized"}
  Dated = {}
  Records <- MCRecords
  Sources = 3
  Curations <- MCCurations
  NonLineage = {"acme/acme"}
  Fields <- MCFields
  Backfilled = {"params_billions"}
  DateField = "release_date"
  Values = {"v1", "v2", "v3"}
  None = "none"
INVARIANT WinnersSurvive
CHECK_DEADLOCK FALSE
