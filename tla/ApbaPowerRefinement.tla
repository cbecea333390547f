------------------------- MODULE ApbaPowerRefinement -------------------------
(***************************************************************************)
(* ApbaPower implements ApbaModes: desired_on is the intent, the result    *)
(* of the last enable/disable sequence is ON, and the flash routing done  *)
(* by flash_start_seq / flash_end_seq is FLASHING.                          *)
(***************************************************************************)
EXTENDS ApbaPower

Abs == INSTANCE ApbaModes WITH want <- desiredOn, on <- powered, routed <- flashMode

\* Every behaviour of the driver is one of ApbaModes: the APBA is powered
\* only while desired_on and with the flash not routed (apba_enable,
\* the restore step of the flash bracket), and the flash is routed only
\* after apba_on(false) (apba_erase_partition / apba_flash_partition).
AbsSpec == Abs!Spec
=============================================================================
