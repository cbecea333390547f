\* The design's serialization of power transitions, one sysfs writer, under
\* weak fairness of every context (FairSpec).
CONSTANTS
  Users = {u1}
  Parts <- MCParts
  MtdParts <- MCMtdParts
  FwPart = "apba"
  Pages <- MCPages
  Blank = Blank
  Images <- MCImages
  NoFw = NoFw
  MaxOps = 4
  Serialized = TRUE
  FlashEnableAttr = TRUE
SPECIFICATION FairSpec
INVARIANT TypeOK
INVARIANT NoFlashAccessWhileApbaRuns
INVARIANT PowerFollowsIntent
INVARIANT FlashReleasedOnReturn
PROPERTY DisableNotificationHonoured
\* A driver with no pending request has nothing to do: the bounded model stops.
CHECK_DEADLOCK FALSE
