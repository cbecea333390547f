\* Power transitions as the code runs them: no serialization between contexts.
CONSTANTS
  Users = {u1}
  Parts <- MCParts
  MtdParts <- MCMtdParts
  FwPart = "apba"
  Pages <- MCPages
  Blank = Blank
  Images <- MCImages
  NoFw = NoFw
  MaxOps = 4
  Serialized = FALSE
  FlashEnableAttr = TRUE
SPECIFICATION Spec
INVARIANT NoFlashAccessWhileApbaRuns
CHECK_DEADLOCK FALSE
