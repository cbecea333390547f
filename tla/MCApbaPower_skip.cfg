\* Serialized transitions; images differ on their first page; a write may stop after the first page.
CONSTANTS
  Users = {u1}
  Parts <- MCParts
  MtdParts <- MCMtdParts
  FwPart = "apba"
  Pages <- MCPages
  Blank = Blank
  Images <- MCDistinctImages
  NoFw = NoFw
  MaxOps = 4
  Serialized = TRUE
  FlashEnableAttr = TRUE
SPECIFICATION Spec
INVARIANT FlashSuccessMeansImage
CHECK_DEADLOCK FALSE
