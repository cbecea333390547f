-------------------------- MODULE ApbaReleaseProofs --------------------------
(***************************************************************************)
(* Proof that apba_erase_partition, apba_flash_partition and the          *)
(* no-firmware branch of apba_firmware_callback return with the SPI flash  *)
(* released: flash mode off and the flash child device depopulated.  Like *)
(* the other power proofs it assumes serialized power transitions.        *)
(***************************************************************************)
EXTENDS ApbaPowerProofs

\* The calls that run the flash bracket, and the labels of apba_enable /
\* apba_disable and of the bracket's tail after apba_flash_on(false).
PartKinds == {"flash", "erase", "nofw"}
PowerPCs == {"EnClk", "EnOn", "DisCheck", "DisAct", "DisOff"}
TailPCs == {"PCheck", "PRestore", "Ret"}

\* What a thread at label l with call kind k needs of the flash state fm,
\* pop: enable / disable calls are never bracket calls, and a bracket call
\* past apba_flash_on(false) finds the flash released.
RecOK(l, k, fm, pop) ==
  /\ l \in PowerPCs => k \in {"enable", "disable"}
  /\ l \in TailPCs /\ k \in PartKinds => ~fm /\ ~pop

\* The strengthening of FlashReleasedOnReturn: every thread's record holds.
Released ==
  \A a \in Actors : RecOK(pc[a], job[a].kind, flashMode, populated)

FInv == IInv /\ Released

-----------------------------------------------------------------------------

\* Released holds when only thread a may be away from Idle and a's record
\* holds in the next state.
LEMMA ReleasedFrame ==
  ASSUME TypeOK, NEW a \in Actors, NEW l \in PCs,
         \A b \in Actors \ {a} : pc[b] = "Idle",
         pc' = [pc EXCEPT ![a] = l],
         RecOK(l, job'[a].kind, flashMode', populated')
  PROVE  Released'
<1>1. \A b \in Actors \ {a} : pc'[b] = "Idle"
  BY DEF TypeOK
<1>2. ASSUME NEW b \in Actors \ {a}
      PROVE  RecOK(pc'[b], job'[b].kind, flashMode', populated')
  BY <1>1 DEF RecOK, PowerPCs, TailPCs
<1>3. pc'[a] = l
  BY DEF TypeOK
<1>4. QED
  BY <1>2, <1>3 DEF Released

\* The record of the thread about to step.
LEMMA CurRec ==
  ASSUME Released, NEW a \in Actors
  PROVE  RecOK(pc[a], job[a].kind, flashMode, populated)
BY DEF Released

\* Every other thread is idle while a thread is inside a call.
LEMMA OthersIdle ==
  ASSUME IInv, NEW a \in Actors, pc[a] # "Idle"
  PROVE  \A b \in Actors \ {a} : pc[b] = "Idle"
BY DEF IInv, OneBusy

-----------------------------------------------------------------------------
(* Steps of a thread inside a call.                                        *)

\* apba_enable and apba_disable: the call kind stays enable / disable, and
\* they never reach the bracket's tail except at Ret with that kind.
LEMMA PowerStepReleased ==
  ASSUME FInv, NEW a \in Actors,
         EnClk(a) \/ EnOn(a) \/ DisCheck(a) \/ DisAct(a) \/ DisOff(a)
  PROVE  Released'
<1>1. pc[a] \in PowerPCs /\ TypeOK
  BY DEF EnClk, EnOn, DisCheck, DisAct, DisOff, PowerPCs, FInv, IInv
<1>2. job[a].kind \in {"enable", "disable"}
  BY <1>1, CurRec DEF FInv, RecOK
<1>3. job'[a].kind = job[a].kind
  <2>1. CASE EnClk(a)
    <3>1. CASE UNCHANGED job
      BY <3>1
    <3>2. CASE SetErr(a, "eclk")
      BY <1>1, <3>2, SetErrType DEF Errs
    <3>3. QED
      BY <2>1, <3>1, <3>2 DEF EnClk
  <2>2. CASE EnOn(a) \/ DisCheck(a) \/ DisAct(a) \/ DisOff(a)
    BY <2>2 DEF EnOn, DisCheck, DisAct, DisOff
  <2>3. QED
    BY <2>1, <2>2
<1>4. PICK l \in {"EnOn", "Ret", "DisAct", "DisOff"} : pc' = [pc EXCEPT ![a] = l]
  BY DEF EnClk, EnOn, DisCheck, DisAct, DisOff, Goto
<1>5. RecOK(l, job'[a].kind, flashMode', populated')
  BY <1>2, <1>3 DEF RecOK, PartKinds, TailPCs, PowerPCs
<1>6. pc[a] # "Idle" /\ l \in PCs
  BY <1>1 DEF PowerPCs, PCs
<1>7. \A b \in Actors \ {a} : pc[b] = "Idle"
  BY <1>6, OthersIdle DEF FInv
<1>8. QED
  BY <1>1, <1>4, <1>5, <1>6, <1>7, ReleasedFrame

\* The bracket before apba_flash_on(false) never reaches its tail.
LEMMA HeadStepReleased ==
  ASSUME FInv, NEW a \in Actors,
         POff(a) \/ PFlashOn(a) \/ PLookup(a) \/ PCompare(a) \/ PErase(a) \/ PWrite(a)
  PROVE  Released'
<1>1. pc[a] # "Idle" /\ TypeOK
  BY DEF POff, PFlashOn, PLookup, PCompare, PErase, PWrite, FInv, IInv
<1>2. PICK l \in {"PFlashOn", "PLookup", "PCompare", "PErase", "PWrite", "PFlashOff"} :
        pc' = [pc EXCEPT ![a] = l]
  BY DEF POff, PFlashOn, PLookup, PCompare, PErase, PWrite, Goto
<1>3. RecOK(l, job'[a].kind, flashMode', populated')
  BY DEF RecOK, TailPCs, PowerPCs
<1>4. QED
  BY <1>1, <1>2, <1>3, OthersIdle, ReleasedFrame DEF FInv, PCs

\* apba_flash_on(false): flash mode off and flash_dev_populated cleared.
LEMMA PFlashOffReleased ==
  ASSUME FInv, NEW a \in Actors, PFlashOff(a)
  PROVE  Released'
<1>1. pc[a] # "Idle" /\ TypeOK
  BY DEF PFlashOff, FInv, IInv
<1>2. RecOK("PCheck", job'[a].kind, flashMode', populated')
  BY DEF PFlashOff, FlashOnFalse, RecOK, PowerPCs
<1>3. QED
  BY <1>1, <1>2, OthersIdle, ReleasedFrame DEF PFlashOff, Goto, FInv, PCs

\* The desired_on check and the power restore leave flash mode alone.
LEMMA TailStepReleased ==
  ASSUME FInv, NEW a \in Actors, PCheck(a) \/ PRestore(a)
  PROVE  Released'
<1>1. pc[a] \in TailPCs /\ TypeOK
  BY DEF PCheck, PRestore, TailPCs, FInv, IInv
<1>2. RecOK(pc[a], job[a].kind, flashMode, populated)
  BY CurRec DEF FInv
<1>3. UNCHANGED <<job, flashMode, populated>>
  BY DEF PCheck, PRestore, Hw
<1>4. PICK l \in {"PRestore", "Ret"} : pc' = [pc EXCEPT ![a] = l]
  BY DEF PCheck, PRestore, Goto
<1>5. RecOK(l, job'[a].kind, flashMode', populated')
  BY <1>1, <1>2, <1>3 DEF RecOK, TailPCs, PowerPCs
<1>6. QED
  BY <1>1, <1>4, <1>5, OthersIdle, ReleasedFrame DEF FInv, TailPCs, PCs

\* The return leaves the thread idle.
LEMMA RetReleased ==
  ASSUME FInv, NEW a \in Actors, Ret(a)
  PROVE  Released'
<1>1. pc[a] # "Idle" /\ TypeOK
  BY DEF Ret, FInv, IInv
<1>2. RecOK("Idle", job'[a].kind, flashMode', populated')
  BY DEF RecOK, PowerPCs, TailPCs
<1>3. QED
  BY <1>1, <1>2, OthersIdle, ReleasedFrame DEF Ret, Goto, FInv, PCs

\* Any step of a thread inside a call keeps every record.
LEMMA StepReleased ==
  ASSUME FInv, NEW a \in Actors, Step(a)
  PROVE  Released'
BY PowerStepReleased, HeadStepReleased, PFlashOffReleased, TailStepReleased,
   RetReleased DEF Step

-----------------------------------------------------------------------------
(* Entry points and the other steps.                                       *)

\* A thread entering a call, every other thread idle: apba_enable enters
\* with kind enable, apba_disable with kind disable, and neither entry
\* label is in the bracket's tail.
LEMMA EnterReleased ==
  ASSUME FInv, Serialized, NEW a \in Actors, NEW k, NEW p, NEW i,
         NEW l \in {"EnClk", "DisCheck", "POff", "PFlashOff"},
         l \in PowerPCs => k \in {"enable", "disable"},
         Start(a, k, p, i, l)
  PROVE  Released'
<1>1. TypeOK /\ \A b \in Actors \ {a} : pc[b] = "Idle"
  BY DEF Start, Quiet, FInv, IInv
<1>2. job'[a].kind = k
  BY <1>1 DEF Start, TypeOK
<1>3. RecOK(l, job'[a].kind, flashMode', populated')
  BY <1>2 DEF RecOK, TailPCs
<1>4. QED
  BY <1>1, <1>3, ReleasedFrame DEF Start, Goto, PCs

\* The stores that enter a call.
LEMMA StoresReleased ==
  ASSUME FInv, Serialized, NEW u \in Users,
         ApbaEnableStore(u) \/ ErasePartitionStore(u) \/ FlashPartitionStore(u)
  PROVE  Released'
<1>1. u \in Actors
  BY DEF Actors
<1>2. CASE ApbaEnableStore(u)
  <2>1. CASE Start(u, "enable", FwPart, NoFw, "EnClk")
    BY <1>1, <2>1, EnterReleased DEF PowerPCs
  <2>2. CASE Start(u, "disable", FwPart, NoFw, "DisCheck")
    BY <1>1, <2>2, EnterReleased DEF PowerPCs
  <2>3. QED
    BY <1>2, <2>1, <2>2 DEF ApbaEnableStore
<1>3. CASE ErasePartitionStore(u)
  <2>1. PICK p \in Parts : Start(u, "erase", p, NoFw, "POff")
    BY <1>3 DEF ErasePartitionStore
  <2>2. QED
    BY <1>1, <2>1, EnterReleased DEF PowerPCs
<1>4. CASE FlashPartitionStore(u)
  <2>1. PICK p \in Parts, i \in Images : Start(u, "flash", p, i, "POff")
    BY <1>4 DEF FlashPartitionStore
  <2>2. QED
    BY <1>1, <2>1, EnterReleased DEF PowerPCs
<1>5. QED
  BY <1>2, <1>3, <1>4

\* The notifier, the disable work and the firmware callback enter calls.
LEMMA ContextsReleased ==
  ASSUME FInv, Serialized, SlaveNotifyEnabled \/ DisableWorkRun \/ FirmwareCallback
  PROVE  Released'
<1>1. CASE SlaveNotifyEnabled
  BY <1>1, ContextsAreActors, EnterReleased DEF SlaveNotifyEnabled, PowerPCs
<1>2. CASE DisableWorkRun
  BY <1>2, ContextsAreActors, EnterReleased DEF DisableWorkRun, PowerPCs
<1>3. CASE FirmwareCallback
  <2>1. PICK i \in Images \cup {NoFw} :
          IF i = NoFw THEN Start(FwLoader, "nofw", FwPart, i, "PFlashOff")
                      ELSE Start(FwLoader, "flash", FwPart, i, "POff")
    BY <1>3 DEF FirmwareCallback
  <2>2. CASE i = NoFw
    BY <2>1, <2>2, ContextsAreActors, EnterReleased DEF PowerPCs
  <2>3. CASE i # NoFw
    BY <2>1, <2>3, ContextsAreActors, EnterReleased DEF PowerPCs
  <2>4. QED
    BY <2>2, <2>3
<1>4. QED
  BY <1>1, <1>2, <1>3

\* flash_enable_store runs with every thread idle, so no record is at a
\* label that constrains the flash.
LEMMA FlashEnableStoreReleased ==
  ASSUME FInv, Serialized, NEW u \in Users, FlashEnableStore(u)
  PROVE  Released'
<1>1. u \in Actors
  BY DEF Actors
<1>2. \A b \in Actors : pc'[b] = "Idle"
  BY <1>1 DEF FlashEnableStore, Quiet
<1>3. QED
  BY <1>2 DEF Released, RecOK, PowerPCs, TailPCs

\* Steps that leave threads, records and the flash alone.
LEMMA FrameReleased ==
  ASSUME Released, SlaveNotifyDisabled \/ ApbaUartRegister \/ UNCHANGED vars
  PROVE  Released'
<1>1. UNCHANGED <<pc, job, flashMode, populated>>
  BY DEF SlaveNotifyDisabled, ApbaUartRegister, Hw, vars
<1>2. QED
  BY <1>1 DEF Released

\* Every step of the driver, under serialized transitions, keeps FInv.
LEMMA NextFInv ==
  ASSUME FInv, Serialized, [Next]_vars
  PROVE  FInv'
<1>1. IInv'
  BY NextIInv DEF FInv
<1>2. Released'
  <2>1. CASE \E u \in Users :
               \/ ApbaEnableStore(u) \/ ErasePartitionStore(u)
               \/ FlashPartitionStore(u) \/ FlashEnableStore(u)
    BY <2>1, StoresReleased, FlashEnableStoreReleased
  <2>2. CASE SlaveNotifyEnabled \/ DisableWorkRun \/ FirmwareCallback
    BY <2>2, ContextsReleased
  <2>3. CASE SlaveNotifyDisabled \/ ApbaUartRegister \/ UNCHANGED vars
    BY <2>3, FrameReleased DEF FInv
  <2>4. CASE \E a \in Actors : Step(a)
    BY <2>4, StepReleased
  <2>5. QED
    BY <2>1, <2>2, <2>3, <2>4 DEF Next
<1>3. QED
  BY <1>1, <1>2 DEF FInv

\* The probe state: every thread idle.
LEMMA InitFInv == Init => FInv
<1> SUFFICES ASSUME Init PROVE FInv
  OBVIOUS
<1>1. IInv
  BY InitIInv
<1>2. Released
  BY DEF Init, Released, RecOK, PowerPCs, TailPCs
<1>3. QED
  BY <1>1, <1>2 DEF FInv

\* Under serialized power transitions, apba_erase_partition,
\* apba_flash_partition and the no-firmware branch of the firmware callback
\* return with flash mode off and the flash child device depopulated,
\* whether the lookup, the erase or the write failed, and whether or not
\* desired_on was set on the way out.
THEOREM FlashReleased == Serialized /\ Spec => []FlashReleasedOnReturn
<1>1. SUFFICES ASSUME Serialized PROVE Spec => []FlashReleasedOnReturn
  OBVIOUS
<1>2. FInv => FlashReleasedOnReturn
  BY DEF FInv, Released, RecOK, TailPCs, PartKinds, FlashReleasedOnReturn
<1>3. QED
  BY <1>1, <1>2, InitFInv, NextFInv, PTL DEF Spec

=============================================================================
