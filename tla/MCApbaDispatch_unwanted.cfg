\* The dispatcher and the wake ISR acting while the APBA is not on (no
\* apbe_power writes: the question is about interrupts).
CONSTANTS
  Users = {u1}
  Parts <- MCParts
  MtdParts <- MCMtdParts
  FwPart = "apba"
  Pages <- MCPages
  Blank = Blank
  Images <- MCImages
  NoFw = NoFw
  MaxOps = 4
  Serialized = TRUE
  FlashEnableAttr = TRUE
  MaxInts = 2
  ApbePowerAttr = FALSE
SPECIFICATION DSpec
INVARIANT InterruptsIgnoredUnlessOn
CHECK_DEADLOCK FALSE
