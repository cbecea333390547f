------------------------ MODULE ApbaRefinementProofs ------------------------
(***************************************************************************)
(* Proof that the serialized driver without the flash_enable attribute    *)
(* implements the abstract controller ApbaModes (property AbsSpec of the  *)
(* run dispatch_serial).  The mapping is the identity on desired_on,      *)
(* power and flash routing; the work is to show that the enable           *)
(* sequence never runs with the flash routed, which needs one fact        *)
(* beyond IInv: the flash is routed only while some thread is inside      *)
(* the flash bracket.                                                     *)
(***************************************************************************)
EXTENDS ApbaPowerProofs, ApbaPowerRefinement

\* Labels of a thread that has routed the flash and not yet released it.
FlashHolders == RoutedPCs \cup {"PFlashOff"}

\* flash_start_seq ran and flash_end_seq did not: some thread is between
\* apba_flash_on(true) and apba_flash_on(false) of a partition operation.
FlashHeld == flashMode => \E b \in Actors : pc[b] \in FlashHolders

RInv == IInv /\ FlashHeld

USE PartsAssumption, PagesAssumption, ImagesAssumption, MaxOpsAssumption,
    SerializedAssumption, FlashEnableAttrAssumption, ActorsAssumption

\* A step that moves only thread a, keeps a holder of the flash a holder and
\* leaves the routing alone keeps FlashHeld.
LEMMA KeepHeld ==
  ASSUME TypeOK, FlashHeld, NEW a \in Actors, NEW l,
         pc' = [pc EXCEPT ![a] = l], flashMode' = flashMode,
         pc[a] \in FlashHolders => l \in FlashHolders
  PROVE  FlashHeld'
<1> SUFFICES ASSUME flashMode' PROVE \E b \in Actors : pc'[b] \in FlashHolders
  BY DEF FlashHeld
<1>1. PICK b \in Actors : pc[b] \in FlashHolders
  BY DEF FlashHeld
<1>2. CASE b = a
  BY <1>1, <1>2 DEF TypeOK
<1>3. CASE b # a
  BY <1>1, <1>3 DEF TypeOK
<1>4. QED
  BY <1>2, <1>3

\* A busy thread outside the flash bracket is, by OneBusy, the only busy
\* thread, so nobody holds the flash and it is not routed.
LEMMA NotRouted ==
  ASSUME RInv, NEW a \in Actors, pc[a] # "Idle", pc[a] \notin FlashHolders
  PROVE  ~flashMode
<1> SUFFICES ASSUME flashMode PROVE FALSE
  OBVIOUS
<1>1. PICK b \in Actors : pc[b] \in FlashHolders
  BY DEF RInv, FlashHeld
<1>2. b # a
  BY <1>1
<1>3. pc[b] = "Idle"
  BY <1>2 DEF RInv, IInv, OneBusy
<1>4. QED
  BY <1>1, <1>3 DEF FlashHolders, RoutedPCs

-----------------------------------------------------------------------------
(* FlashHeld is kept.                                                      *)

\* A step of a thread that does not touch the flash routing.
LEMMA StepHeldSame ==
  ASSUME TypeOK, FlashHeld, NEW a \in Actors,
         \/ EnClk(a) \/ EnOn(a) \/ DisCheck(a) \/ DisAct(a) \/ DisOff(a)
         \/ POff(a) \/ PCheck(a) \/ PRestore(a) \/ Ret(a)
  PROVE  FlashHeld'
<1>1. pc[a] \notin FlashHolders
  BY DEF EnClk, EnOn, DisCheck, DisAct, DisOff, POff, PCheck, PRestore, Ret,
         FlashHolders, RoutedPCs
<1>2. flashMode' = flashMode
  BY DEF EnClk, EnOn, DisCheck, DisAct, DisOff, POff, PCheck, PRestore, Ret, Hw
<1>3. \E l : pc' = [pc EXCEPT ![a] = l]
  BY DEF EnClk, EnOn, DisCheck, DisAct, DisOff, POff, PCheck, PRestore, Ret, Goto
<1>4. QED
  BY <1>1, <1>2, <1>3, KeepHeld

\* A step inside the flash bracket that neither routes nor releases the flash.
LEMMA StepHeldInside ==
  ASSUME TypeOK, FlashHeld, NEW a \in Actors,
         PLookup(a) \/ PCompare(a) \/ PErase(a) \/ PWrite(a)
  PROVE  FlashHeld'
<1>1. flashMode' = flashMode
  BY DEF PLookup, PCompare, PErase, PWrite, Hw
<1>2. CASE PLookup(a)
  BY <1>1, <1>2, KeepHeld DEF PLookup, Goto, FlashHolders, RoutedPCs
<1>3. CASE PCompare(a)
  BY <1>1, <1>3, KeepHeld DEF PCompare, Goto, FlashHolders, RoutedPCs
<1>4. CASE PErase(a)
  BY <1>1, <1>4, KeepHeld DEF PErase, Goto, FlashHolders, RoutedPCs
<1>5. CASE PWrite(a)
  BY <1>1, <1>5, KeepHeld DEF PWrite, Goto, FlashHolders, RoutedPCs
<1>6. QED
  BY <1>2, <1>3, <1>4, <1>5

\* apba_flash_on(true) leaves its thread at PLookup, a holder; apba_flash_on
\* (false) clears the routing.
LEMMA StepHeldFlash ==
  ASSUME TypeOK, NEW a \in Actors, PFlashOn(a) \/ PFlashOff(a)
  PROVE  FlashHeld'
<1>1. CASE PFlashOn(a)
  <2>1. pc'[a] = "PLookup"
    BY <1>1 DEF PFlashOn, Goto, TypeOK
  <2>2. QED
    BY <2>1 DEF FlashHeld, FlashHolders, RoutedPCs
<1>2. CASE PFlashOff(a)
  BY <1>2 DEF PFlashOff, FlashOnFalse, FlashHeld
<1>3. QED
  BY <1>1, <1>2

\* Any step of a thread inside a call keeps FlashHeld.
LEMMA StepHeld ==
  ASSUME TypeOK, FlashHeld, NEW a \in Actors, Step(a)
  PROVE  FlashHeld'
BY StepHeldSame, StepHeldInside, StepHeldFlash DEF Step

\* A thread entering a call was idle, so it held nothing, and the entry
\* leaves the routing alone.
LEMMA StartHeld ==
  ASSUME TypeOK, FlashHeld, NEW a \in Actors, NEW k, NEW p, NEW i, NEW l,
         Start(a, k, p, i, l), flashMode' = flashMode
  PROVE  FlashHeld'
BY KeepHeld DEF Start, Goto, FlashHolders, RoutedPCs

\* Every step but a flash_enable write keeps FlashHeld.
LEMMA NextHeld ==
  ASSUME TypeOK, FlashHeld, ~FlashEnableAttr, [Next]_vars
  PROVE  FlashHeld'
<1>1. CASE \E u \in Users :
             \/ ApbaEnableStore(u) \/ ErasePartitionStore(u)
             \/ FlashPartitionStore(u) \/ FlashEnableStore(u)
  <2>1. PICK u \in Users :
             \/ ApbaEnableStore(u) \/ ErasePartitionStore(u)
             \/ FlashPartitionStore(u) \/ FlashEnableStore(u)
    BY <1>1
  <2>2. u \in Actors
    BY DEF Actors
  <2>3. ~FlashEnableStore(u)
    BY DEF FlashEnableStore
  <2>4. flashMode' = flashMode
    BY <2>1, <2>3 DEF ApbaEnableStore, ErasePartitionStore, FlashPartitionStore, Hw
  <2>5. \E k, p, i, l : Start(u, k, p, i, l)
    BY <2>1, <2>3 DEF ApbaEnableStore, ErasePartitionStore, FlashPartitionStore
  <2>6. QED
    BY <2>2, <2>4, <2>5, StartHeld
<1>2. CASE SlaveNotifyEnabled \/ DisableWorkRun \/ FirmwareCallback
  <2>1. flashMode' = flashMode
    BY <1>2 DEF SlaveNotifyEnabled, DisableWorkRun, FirmwareCallback, Hw
  <2>2. \E a \in Actors : \E k, p, i, l : Start(a, k, p, i, l)
    BY <1>2, ContextsAreActors DEF SlaveNotifyEnabled, DisableWorkRun, FirmwareCallback
  <2>3. QED
    BY <2>1, <2>2, StartHeld
<1>3. CASE SlaveNotifyDisabled \/ ApbaUartRegister
  BY <1>3 DEF SlaveNotifyDisabled, ApbaUartRegister, Hw, FlashHeld
<1>4. CASE \E a \in Actors : Step(a)
  BY <1>4, StepHeld
<1>5. CASE UNCHANGED vars
  BY <1>5 DEF vars, FlashHeld
<1>6. QED
  BY <1>1, <1>2, <1>3, <1>4, <1>5 DEF Next

-----------------------------------------------------------------------------
(* Every step maps to a step of ApbaModes or leaves its variables alone.  *)

\* The steps that do not touch desired_on, power or routing.
LEMMA StepAbsStutter ==
  ASSUME NEW a \in Actors,
         \/ DisCheck(a) \/ PLookup(a) \/ PCompare(a) \/ PErase(a) \/ PWrite(a)
         \/ PCheck(a) \/ Ret(a)
  PROVE  UNCHANGED Abs!vars
BY DEF DisCheck, PLookup, PCompare, PErase, PWrite, PCheck, Ret, Hw, Abs!vars

\* apba_on(ctrl, true), in apba_enable and in the bracket's restore step,
\* is ApbaModes' PowerUp: desired_on is set and the flash is not routed.
LEMMA StepAbsPowerUp ==
  ASSUME RInv, NEW a \in Actors, EnOn(a) \/ PRestore(a)
  PROVE  Abs!PowerUp
<1>1. ActorOK(pc[a], job[a], powered, desiredOn, flashMode)
  BY CurOK DEF RInv
<1>2. pc[a] \in {"EnOn", "PRestore"}
  BY DEF EnOn, PRestore
<1>3. desiredOn
  BY <1>1, <1>2 DEF ActorOK
<1>4. ~flashMode
  BY <1>2, NotRouted DEF FlashHolders, RoutedPCs
<1>5. powered' = TRUE /\ UNCHANGED <<desiredOn, flashMode>>
  BY DEF EnOn, PRestore, ApbaOnTrue
<1>6. QED
  BY <1>3, <1>4, <1>5 DEF Abs!PowerUp

\* apba_on(ctrl, false), in apba_disable and before a partition operation.
LEMMA StepAbsPowerDown ==
  ASSUME NEW a \in Actors, DisOff(a) \/ POff(a)
  PROVE  Abs!PowerDown
BY DEF DisOff, POff, ApbaOnFalse, Abs!PowerDown

\* apba_flash_on(ctrl, true) of a partition operation happens with the
\* APBA down: ApbaModes' Route.
LEMMA StepAbsRoute ==
  ASSUME RInv, NEW a \in Actors, PFlashOn(a)
  PROVE  Abs!Route
<1>1. ActorOK(pc[a], job[a], powered, desiredOn, flashMode)
  BY CurOK DEF RInv
<1>2. ~powered
  BY <1>1 DEF PFlashOn, ActorOK, FlashPCs
<1>3. QED
  BY <1>2 DEF PFlashOn, FlashOnTrue, Abs!Route

\* Any step of a thread inside a call.
LEMMA StepAbs ==
  ASSUME RInv, NEW a \in Actors, Step(a)
  PROVE  [Abs!Next]_Abs!vars
<1>1. CASE EnClk(a)
  BY <1>1 DEF EnClk, Abs!Next, Abs!Enable, Abs!vars
<1>2. CASE DisAct(a)
  BY <1>2 DEF DisAct, Abs!Next, Abs!Disable
<1>3. CASE PFlashOff(a)
  BY <1>3 DEF PFlashOff, FlashOnFalse, Abs!Next, Abs!Unroute
<1>4. CASE EnOn(a) \/ PRestore(a)
  BY <1>4, StepAbsPowerUp DEF Abs!Next
<1>5. CASE DisOff(a) \/ POff(a)
  BY <1>5, StepAbsPowerDown DEF Abs!Next
<1>6. CASE PFlashOn(a)
  BY <1>6, StepAbsRoute DEF Abs!Next
<1>7. CASE \/ DisCheck(a) \/ PLookup(a) \/ PCompare(a) \/ PErase(a) \/ PWrite(a)
           \/ PCheck(a) \/ Ret(a)
  BY <1>7, StepAbsStutter
<1>8. QED
  BY <1>1, <1>2, <1>3, <1>4, <1>5, <1>6, <1>7 DEF Step

\* Every step but a flash_enable write is a step of ApbaModes or a stutter.
LEMMA NextAbs ==
  ASSUME RInv, ~FlashEnableAttr, [Next]_vars
  PROVE  [Abs!Next]_Abs!vars
<1>1. CASE \E u \in Users :
             \/ ApbaEnableStore(u) \/ ErasePartitionStore(u)
             \/ FlashPartitionStore(u) \/ FlashEnableStore(u)
  BY <1>1 DEF FlashEnableStore, ApbaEnableStore, ErasePartitionStore,
              FlashPartitionStore, Hw, Abs!vars
<1>2. CASE \/ SlaveNotifyEnabled \/ DisableWorkRun \/ FirmwareCallback
           \/ SlaveNotifyDisabled \/ ApbaUartRegister
  BY <1>2 DEF SlaveNotifyEnabled, DisableWorkRun, FirmwareCallback,
              SlaveNotifyDisabled, ApbaUartRegister, Hw, Abs!vars
<1>3. CASE \E a \in Actors : Step(a)
  BY <1>3, StepAbs
<1>4. CASE UNCHANGED vars
  BY <1>4 DEF vars, Abs!vars
<1>5. QED
  BY <1>1, <1>2, <1>3, <1>4 DEF Next

-----------------------------------------------------------------------------

\* RInv holds initially and is kept by every step of the serialized driver
\* without flash_enable writes.
LEMMA RInvariance == Serialized /\ ~FlashEnableAttr /\ Spec => []RInv
<1>1. SUFFICES ASSUME Serialized, ~FlashEnableAttr PROVE Spec => []RInv
  OBVIOUS
<1>2. Init => RInv
  BY InitIInv DEF Init, RInv, FlashHeld
<1>3. RInv /\ [Next]_vars => RInv'
  BY <1>1, NextIInv, NextHeld DEF RInv, IInv
<1>4. QED
  BY <1>2, <1>3, PTL DEF Spec

\* With power transitions serialized and no flash_enable writes, the driver
\* implements the abstract controller: apba_enable, apba_disable and the
\* flash bracket of apba_erase_partition / apba_flash_partition never power
\* the APBA with the flash routed, nor route the flash with the APBA up.
THEOREM Refinement == Serialized /\ ~FlashEnableAttr /\ Spec => AbsSpec
<1>1. SUFFICES ASSUME Serialized, ~FlashEnableAttr PROVE Spec => AbsSpec
  OBVIOUS
<1>2. Init => Abs!Init
  BY DEF Init, Abs!Init
<1>3. RInv /\ [Next]_vars => [Abs!Next]_Abs!vars
  BY <1>1, NextAbs
<1>4. QED
  BY <1>1, <1>2, <1>3, RInvariance, PTL DEF Spec, AbsSpec, Abs!Spec

=============================================================================
