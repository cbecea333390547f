\* The serialized power controller without the flash_enable attribute,
\* composed with the interrupt-reason dispatcher, the attach work, the
\* wake ISR and apbe_power writes: it still implements ApbaModes.
CONSTANTS
  Users = {u1}
  Parts <- MCParts
  MtdParts <- MCMtdParts
  FwPart = "apba"
  Pages <- MCPages
  Blank = Blank
  Images <- MCImages
  NoFw = NoFw
  MaxOps = 4
  Serialized = TRUE
  FlashEnableAttr = FALSE
  MaxInts = 2
  ApbePowerAttr = TRUE
SPECIFICATION DSpec
PROPERTY AbsSpec
\* The bounded driver stops once MaxOps and MaxInts are used up.
CHECK_DEADLOCK FALSE
