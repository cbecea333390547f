\* Serialized transitions; notifications after the boot firmware callback.
CONSTANTS
  Users = {u1}
  Parts <- MCParts
  MtdParts <- MCMtdParts
  FwPart = "apba"
  Pages <- MCPages
  Blank = Blank
  Images <- MCImages
  NoFw = NoFw
  MaxOps = 4
  Serialized = TRUE
  FlashEnableAttr = TRUE
SPECIFICATION Spec
PROPERTY DeferredDisableNotStale
CHECK_DEADLOCK FALSE
