--------------------------- MODULE ApbaPowerProofs ---------------------------
(***************************************************************************)
(* Proofs about ApbaPower under the design's serialization of power        *)
(* transitions (Serialized): the type invariant, the exclusion of flash    *)
(* access from normal operation, and that power follows desired_on once   *)
(* every call has returned.  Without Serialized all three fail (see the   *)
(* run power_concurrent and README), so every theorem assumes it.          *)
(***************************************************************************)
EXTENDS ApbaPower, TLAPS

\* Labels of the partition pipeline between powering down and releasing
\* the flash, and those at which the flash is routed to the host.
FlashPCs == {"PFlashOn", "PLookup", "PCompare", "PErase", "PWrite"}
RoutedPCs == {"PLookup", "PCompare", "PErase", "PWrite"}
AccessPCs == {"PCompare", "PErase", "PWrite"}

\* At most one context is inside a call.
OneBusy ==
  \A a, b \in Actors : a # b /\ pc[a] # "Idle" => pc[b] = "Idle"

\* The clock is held whenever desired_on is set.
ClockInv == desiredOn => clk >= 1

\* What holds of one thread at label pcb with call record jb, given the
\* power, the intent and the flash routing: its arguments, and power and
\* intent along the call.  Stated over explicit values so that the same
\* lemmas serve the current and the next state.
ActorOK(pcb, jb, pw, des, fm) ==
  /\ pcb \in {"POff"} \cup FlashPCs => jb.kind \in {"flash", "erase"}
  /\ pcb \in {"PCompare", "PWrite"} => jb.kind = "flash"
  /\ pcb \in {"POff"} \cup FlashPCs /\ jb.kind = "flash" => jb.img \in Images
  /\ pcb \in AccessPCs => jb.part \in MtdParts
  /\ pcb \in {"EnClk", "DisCheck", "POff", "Ret"} => pw = des
  /\ pcb \in {"EnOn", "PRestore"} => des
  /\ pcb = "DisAct" => des /\ pw
  /\ pcb = "DisOff" => ~des
  /\ pcb \in FlashPCs => ~pw
  /\ pcb \in {"PFlashOff", "PCheck"} => ~pw \/ (jb.kind = "nofw" /\ pw = des)
  /\ pcb \in RoutedPCs => fm

AllActorsOK ==
  \A b \in Actors : ActorOK(pc[b], job[b], powered, desiredOn, flashMode)

IInv ==
  /\ TypeOK
  /\ OneBusy
  /\ ClockInv
  /\ Quiescent => powered = desiredOn
  /\ AllActorsOK

-----------------------------------------------------------------------------
USE PartsAssumption, PagesAssumption, ImagesAssumption, MaxOpsAssumption,
    SerializedAssumption, ActorsAssumption

\* The named contexts are threads of the model.
LEMMA ContextsAreActors ==
  {Notifier, DisableWork, FwLoader} \subseteq Actors
BY DEF Actors

\* An idle thread constrains nothing.
LEMMA IdleOK ==
  ASSUME NEW jb, NEW pw, NEW des, NEW fm
  PROVE  ActorOK("Idle", jb, pw, des, fm)
BY DEF ActorOK, FlashPCs, AccessPCs, RoutedPCs

\* Every image, and the erased content, is a partition content.
LEMMA ImagesAreContents ==
  Images \cup {Erased} \subseteq Contents
<1>1. ASSUME NEW i \in Images PROVE i \in Contents
  <2>1. i \in [first: Pages, rest: Pages]
    BY ImagesAssumption
  <2>2. QED
    BY <2>1 DEF Contents
<1>2. Erased \in Contents
  BY DEF Erased, Contents
<1>3. QED
  BY <1>1, <1>2

\* A fresh call record is a call record.
LEMMA NoJobIsJob == NoJob \in Jobs
BY DEF NoJob, Jobs, Kinds, Errs

\* The probe state (APBA off, no clock vote, every context idle) satisfies the invariant.
LEMMA InitIInv == Init => IInv
<1> SUFFICES ASSUME Init PROVE IInv
  OBVIOUS
<1>1. pc \in [Actors -> PCs] /\ job \in [Actors -> Jobs]
  BY NoJobIsJob DEF Init, PCs
<1>2. content \in [MtdParts -> Contents]
  BY ImagesAreContents DEF Init
<1>3. TypeOK
  <2>1. clk \in Nat /\ ops \in 0..MaxOps
    BY DEF Init
  <2>2. lastNotify \in {"none", "enabled", "disabled"}
    BY DEF Init
  <2>3. /\ desiredOn \in BOOLEAN /\ powered \in BOOLEAN /\ uartReg \in BOOLEAN
        /\ uartOpen \in BOOLEAN /\ flashMode \in BOOLEAN /\ populated \in BOOLEAN
        /\ apbeOn \in BOOLEAN /\ attached \in BOOLEAN /\ dworkPending \in BOOLEAN
        /\ det \in BOOLEAN
    BY DEF Init
  <2>4. QED
    BY <1>1, <1>2, <2>1, <2>2, <2>3, Zenon DEF TypeOK
<1>4. AllActorsOK
  BY IdleOK DEF Init, AllActorsOK
<1>5. QED
  BY <1>3, <1>4 DEF Init, IInv, OneBusy, ClockInv, Quiescent

\* A step of a thread that is inside a call: by OneBusy every other thread
\* is idle and stays so, hence only the stepping thread's record matters.
LEMMA StepFrame ==
  ASSUME IInv, NEW a \in Actors, pc[a] # "Idle", NEW l \in PCs,
         pc' = [pc EXCEPT ![a] = l],
         ActorOK(l, job'[a], powered', desiredOn', flashMode'),
         l = "Idle" => powered' = desiredOn'
  PROVE  /\ OneBusy'
         /\ Quiescent' => powered' = desiredOn'
         /\ AllActorsOK'
<1>1. \A b \in Actors \ {a} : pc'[b] = "Idle"
  BY DEF IInv, OneBusy, TypeOK
<1>2. OneBusy'
  BY <1>1 DEF OneBusy
<1>3. Quiescent' => powered' = desiredOn'
  BY DEF Quiescent, IInv, TypeOK
<1>4. AllActorsOK'
  BY <1>1, IdleOK DEF AllActorsOK, IInv, TypeOK
<1>5. QED
  BY <1>2, <1>3, <1>4

\* A thread enters a call while, by Quiet, every other thread is idle.
LEMMA StartFrame ==
  ASSUME IInv, Serialized, NEW a \in Actors, pc[a] = "Idle", Quiet(a),
         NEW l \in PCs \ {"Idle"},
         pc' = [pc EXCEPT ![a] = l],
         ActorOK(l, job'[a], powered', desiredOn', flashMode')
  PROVE  /\ powered = desiredOn
         /\ OneBusy'
         /\ Quiescent' => powered' = desiredOn'
         /\ AllActorsOK'
<1>1. \A b \in Actors \ {a} : pc[b] = "Idle" /\ pc'[b] = "Idle"
  BY DEF Quiet, IInv, TypeOK
<1>2. powered = desiredOn
  BY <1>1 DEF IInv, Quiescent
<1>3. OneBusy'
  BY <1>1 DEF OneBusy
<1>4. ~Quiescent'
  BY DEF Quiescent, IInv, TypeOK
<1>5. AllActorsOK'
  BY <1>1, IdleOK DEF AllActorsOK, IInv, TypeOK
<1>6. QED
  BY <1>2, <1>3, <1>4, <1>5

\* The invariant's record of the thread about to step.
LEMMA CurOK ==
  ASSUME IInv, NEW a \in Actors
  PROVE  ActorOK(pc[a], job[a], powered, desiredOn, flashMode)
BY DEF IInv, AllActorsOK

\* Assembling IInv' after a step of a busy thread.
LEMMA StepAssemble ==
  ASSUME IInv, NEW a \in Actors, pc[a] # "Idle", NEW l \in PCs,
         pc' = [pc EXCEPT ![a] = l],
         TypeOK', ClockInv',
         ActorOK(l, job'[a], powered', desiredOn', flashMode'),
         l = "Idle" => powered' = desiredOn'
  PROVE  IInv'
<1>1. /\ OneBusy'
      /\ Quiescent' => powered' = desiredOn'
      /\ AllActorsOK'
  BY StepFrame
<1>2. QED
  BY <1>1 DEF IInv

\* Assembling IInv' after a thread enters a call.
LEMMA StartAssemble ==
  ASSUME IInv, Serialized, NEW a \in Actors, pc[a] = "Idle", Quiet(a),
         NEW l \in PCs \ {"Idle"},
         pc' = [pc EXCEPT ![a] = l],
         TypeOK', ClockInv',
         ActorOK(l, job'[a], powered', desiredOn', flashMode')
  PROVE  IInv'
<1>1. /\ OneBusy'
      /\ Quiescent' => powered' = desiredOn'
      /\ AllActorsOK'
  BY StartFrame
<1>2. QED
  BY <1>1 DEF IInv

\* Every thread idle: the quiet precondition under Serialized.
LEMMA QuietAgree ==
  ASSUME IInv, Serialized, NEW a \in Actors, pc[a] = "Idle", Quiet(a)
  PROVE  powered = desiredOn /\ Quiescent
<1>1. Quiescent
  BY DEF Quiet, Quiescent
<1>2. QED
  BY <1>1 DEF IInv

\* Setting the err local keeps the call record well typed and its arguments.
LEMMA SetErrType ==
  ASSUME TypeOK, NEW a \in Actors, NEW e \in Errs, SetErr(a, e)
  PROVE  /\ job' \in [Actors -> Jobs]
         /\ job'[a].kind = job[a].kind
         /\ job'[a].part = job[a].part
         /\ job'[a].img = job[a].img
BY DEF TypeOK, SetErr, Jobs

-----------------------------------------------------------------------------
(* apba_enable and apba_disable.                                           *)

\* apba_enable's clk_prepare_enable, succeeding (desired_on = 1) or failing, keeps the invariant.
LEMMA EnClkIInv ==
  ASSUME IInv, NEW a \in Actors, EnClk(a)
  PROVE  IInv'
<1>1. ActorOK("EnClk", job[a], powered, desiredOn, flashMode) /\ TypeOK
  BY CurOK DEF EnClk, IInv
<1>2. UNCHANGED <<powered, uartOpen, flashMode, populated, content, apbeOn, attached,
                  uartReg, dworkPending, det, lastNotify, ops>>
  BY DEF EnClk, Env
<1>3. CASE clk' = clk + 1 /\ desiredOn' = TRUE /\ Goto(a, "EnOn") /\ UNCHANGED job
  <2>1. TypeOK'
    <3>1. pc' \in [Actors -> PCs]
      BY <1>1, <1>3 DEF TypeOK, Goto, PCs
    <3>2. QED
      BY <1>1, <1>2, <1>3, <3>1 DEF TypeOK
  <2>2. ClockInv'
    BY <1>1, <1>3 DEF TypeOK, ClockInv
  <2>3. ActorOK("EnOn", job'[a], powered', desiredOn', flashMode')
    BY <1>3 DEF ActorOK, FlashPCs, RoutedPCs, AccessPCs
  <2>4. QED
    BY <2>1, <2>2, <2>3, <1>3, StepAssemble DEF Goto, PCs, EnClk
<1>4. CASE Goto(a, "Ret") /\ SetErr(a, "eclk") /\ UNCHANGED <<clk, desiredOn>>
  <2>1. job' \in [Actors -> Jobs]
    BY <1>1, <1>4, SetErrType DEF Errs
  <2>2. TypeOK'
    <3>1. pc' \in [Actors -> PCs]
      BY <1>1, <1>4 DEF TypeOK, Goto, PCs
    <3>2. QED
      BY <1>1, <1>2, <1>4, <2>1, <3>1 DEF TypeOK
  <2>3. ClockInv'
    BY <1>4 DEF IInv, ClockInv
  <2>4. ActorOK("Ret", job'[a], powered', desiredOn', flashMode')
    BY <1>1, <1>2, <1>4 DEF ActorOK, FlashPCs, RoutedPCs, AccessPCs
  <2>5. QED
    BY <2>2, <2>3, <2>4, <1>4, StepAssemble DEF Goto, PCs, EnClk
<1>5. QED
  BY <1>3, <1>4 DEF EnClk

\* apba_enable's apba_on(ctrl, true) brings power into line with desired_on.
LEMMA EnOnIInv ==
  ASSUME IInv, NEW a \in Actors, EnOn(a)
  PROVE  IInv'
<1>1. ActorOK("EnOn", job[a], powered, desiredOn, flashMode) /\ TypeOK
  BY CurOK DEF EnOn, IInv
<1>2. TypeOK'
  <2>1. pc' \in [Actors -> PCs]
    BY <1>1 DEF EnOn, Goto, TypeOK, PCs
  <2>2. QED
    BY <1>1, <2>1 DEF EnOn, ApbaOnTrue, Env, TypeOK
<1>3. ClockInv'
  BY DEF EnOn, IInv, ClockInv
<1>4. ActorOK("Ret", job'[a], powered', desiredOn', flashMode')
  BY <1>1 DEF EnOn, ApbaOnTrue, ActorOK, FlashPCs, RoutedPCs, AccessPCs
<1>5. QED
  BY <1>2, <1>3, <1>4, StepAssemble DEF EnOn, Goto, PCs

\* apba_disable's early return on !desired_on keeps the invariant either way.
LEMMA DisCheckIInv ==
  ASSUME IInv, NEW a \in Actors, DisCheck(a)
  PROVE  IInv'
<1>1. ActorOK("DisCheck", job[a], powered, desiredOn, flashMode) /\ TypeOK
  BY CurOK DEF DisCheck, IInv
<1>2. TypeOK'
  <2>1. pc' \in [Actors -> PCs]
    BY <1>1 DEF DisCheck, Goto, TypeOK, PCs
  <2>2. QED
    BY <1>1, <2>1 DEF DisCheck, Hw, Env, TypeOK
<1>3. ClockInv'
  BY DEF DisCheck, Hw, IInv, ClockInv
<1>4. CASE desiredOn
  <2>1. ActorOK("DisAct", job'[a], powered', desiredOn', flashMode')
    BY <1>1, <1>4 DEF DisCheck, Hw, ActorOK, FlashPCs, RoutedPCs, AccessPCs
  <2>2. QED
    BY <1>2, <1>3, <1>4, <2>1, StepAssemble DEF DisCheck, Goto, PCs
<1>5. CASE ~desiredOn
  <2>1. ActorOK("Ret", job'[a], powered', desiredOn', flashMode')
    BY <1>1, <1>5 DEF DisCheck, Hw, ActorOK, FlashPCs, RoutedPCs, AccessPCs
  <2>2. QED
    BY <1>2, <1>3, <1>5, <2>1, StepAssemble DEF DisCheck, Goto, PCs
<1>6. QED
  BY <1>4, <1>5

\* apba_disable's slave power-off, desired_on = 0, mod_attach and clk_disable_unprepare:
\* the clock count cannot underflow because desired_on was set.
LEMMA DisActIInv ==
  ASSUME IInv, NEW a \in Actors, DisAct(a)
  PROVE  IInv'
<1>1. ActorOK("DisAct", job[a], powered, desiredOn, flashMode) /\ TypeOK /\ ClockInv
  BY CurOK DEF DisAct, IInv
<1>2. clk >= 1
  BY <1>1 DEF ActorOK, ClockInv
<1>3. clk' \in Nat
  BY <1>1, <1>2 DEF DisAct, TypeOK
<1>7. TypeOK'
  <2>1. pc' \in [Actors -> PCs]
    BY <1>1, <1>3 DEF DisAct, Goto, TypeOK, PCs
  <2>2. QED
    BY <1>1, <1>3, <2>1 DEF DisAct, Env, TypeOK
<1>4. ClockInv'
  BY DEF DisAct, ClockInv
<1>5. ActorOK("DisOff", job'[a], powered', desiredOn', flashMode')
  BY DEF DisAct, ActorOK, FlashPCs, RoutedPCs, AccessPCs
<1>6. QED
  BY <1>7, <1>4, <1>5, StepAssemble DEF DisAct, Goto, PCs

\* apba_disable's apba_on(ctrl, false) brings power into line with desired_on = 0.
LEMMA DisOffIInv ==
  ASSUME IInv, NEW a \in Actors, DisOff(a)
  PROVE  IInv'
<1>1. ActorOK("DisOff", job[a], powered, desiredOn, flashMode) /\ TypeOK
  BY CurOK DEF DisOff, IInv
<1>2. TypeOK'
  <2>1. pc' \in [Actors -> PCs]
    BY <1>1 DEF DisOff, Goto, TypeOK, PCs
  <2>2. QED
    BY <1>1, <2>1 DEF DisOff, ApbaOnFalse, Env, TypeOK
<1>3. ClockInv'
  BY DEF DisOff, IInv, ClockInv
<1>4. ActorOK("Ret", job'[a], powered', desiredOn', flashMode')
  BY <1>1 DEF DisOff, ApbaOnFalse, TypeOK, ActorOK, FlashPCs, RoutedPCs, AccessPCs
<1>5. QED
  BY <1>2, <1>3, <1>4, StepAssemble DEF DisOff, Goto, PCs

-----------------------------------------------------------------------------
(* The partition pipeline.                                                 *)

\* A failed erase that blanked the first page leaves a partition content.
LEMMA HalfErased ==
  ASSUME NEW c \in Contents
  PROVE  [c EXCEPT !.first = Blank] \in Contents
BY DEF Contents

\* What a whole or a partial write leaves is a partition content.
LEMMA WrittenContents ==
  ASSUME NEW i \in Images
  PROVE  /\ i \in Contents
         /\ [first |-> i.first, rest |-> Blank] \in Contents
<1>1. i \in [first: Pages, rest: Pages]
  BY ImagesAssumption
<1>2. QED
  BY <1>1 DEF Contents

\* The partition operations start by powering the APBA down.
LEMMA POffIInv ==
  ASSUME IInv, NEW a \in Actors, POff(a)
  PROVE  IInv'
<1>1. ActorOK("POff", job[a], powered, desiredOn, flashMode) /\ TypeOK
  BY CurOK DEF POff, IInv
<1>2. TypeOK'
  <2>1. pc' \in [Actors -> PCs]
    BY <1>1 DEF POff, Goto, TypeOK, PCs
  <2>2. QED
    BY <1>1, <2>1 DEF POff, ApbaOnFalse, Env, TypeOK
<1>3. ClockInv'
  BY DEF POff, IInv, ClockInv
<1>4. ActorOK("PFlashOn", job'[a], powered', desiredOn', flashMode')
  BY <1>1 DEF POff, ApbaOnFalse, ActorOK, FlashPCs, RoutedPCs, AccessPCs
<1>5. QED
  BY <1>2, <1>3, <1>4, StepAssemble DEF POff, Goto, PCs

\* apba_flash_on(ctrl, true) routes the flash to the host while the APBA is off.
LEMMA PFlashOnIInv ==
  ASSUME IInv, NEW a \in Actors, PFlashOn(a)
  PROVE  IInv'
<1>1. ActorOK("PFlashOn", job[a], powered, desiredOn, flashMode) /\ TypeOK
  BY CurOK DEF PFlashOn, IInv
<1>2. TypeOK'
  <2>1. pc' \in [Actors -> PCs]
    BY <1>1 DEF PFlashOn, Goto, TypeOK, PCs
  <2>2. QED
    BY <1>1, <2>1 DEF PFlashOn, FlashOnTrue, Env, TypeOK
<1>3. ClockInv'
  BY DEF PFlashOn, IInv, ClockInv
<1>4. ActorOK("PLookup", job'[a], powered', desiredOn', flashMode')
  BY <1>1 DEF PFlashOn, FlashOnTrue, ActorOK, FlashPCs, RoutedPCs, AccessPCs
<1>5. QED
  BY <1>2, <1>3, <1>4, StepAssemble DEF PFlashOn, Goto, PCs

\* apba_init_mtd_module finds the partition (compare or erase next) or fails with -ENODEV.
LEMMA PLookupIInv ==
  ASSUME IInv, NEW a \in Actors, PLookup(a)
  PROVE  IInv'
<1>1. ActorOK("PLookup", job[a], powered, desiredOn, flashMode) /\ TypeOK
  BY CurOK DEF PLookup, IInv
<1>2. ClockInv'
  BY DEF PLookup, Hw, IInv, ClockInv
<1>3. CASE populated /\ job[a].part \in MtdParts
  <2> DEFINE l == IF job[a].kind = "flash" THEN "PCompare" ELSE "PErase"
  <2>1. pc' = [pc EXCEPT ![a] = l] /\ UNCHANGED <<job, Hw, Env>>
    BY <1>3 DEF PLookup, Goto
  <2>2. TypeOK'
    <3>1. pc' \in [Actors -> PCs]
      BY <1>1, <2>1 DEF TypeOK, PCs
    <3>2. QED
      BY <1>1, <2>1, <3>1 DEF Hw, Env, TypeOK
  <2>3. ActorOK(l, job'[a], powered', desiredOn', flashMode')
    BY <1>1, <1>3, <2>1 DEF Hw, ActorOK, FlashPCs, RoutedPCs, AccessPCs
  <2>4. QED
    BY <1>2, <2>1, <2>2, <2>3, StepAssemble DEF PLookup, PCs
<1>4. CASE ~(populated /\ job[a].part \in MtdParts)
  <2>1. Goto(a, "PFlashOff") /\ SetErr(a, "enodev") /\ UNCHANGED <<Hw, Env>>
    BY <1>4 DEF PLookup
  <2>2. job' \in [Actors -> Jobs] /\ job'[a].kind = job[a].kind
    BY <1>1, <2>1, SetErrType DEF Errs
  <2>3. TypeOK'
    <3>1. pc' \in [Actors -> PCs]
      BY <1>1, <2>1, <2>2 DEF Goto, TypeOK, PCs
    <3>2. QED
      BY <1>1, <2>1, <2>2, <3>1 DEF Hw, Env, TypeOK
  <2>4. ActorOK("PFlashOff", job'[a], powered', desiredOn', flashMode')
    BY <1>1, <2>1 DEF Hw, ActorOK, FlashPCs, RoutedPCs, AccessPCs
  <2>5. QED
    BY <1>2, <2>1, <2>3, <2>4, StepAssemble DEF PLookup, Goto, PCs
<1>5. QED
  BY <1>3, <1>4

\* apba_compare_partition skips to the flash release or goes on to erase.
LEMMA PCompareIInv ==
  ASSUME IInv, NEW a \in Actors, PCompare(a)
  PROVE  IInv'
<1>1. ActorOK("PCompare", job[a], powered, desiredOn, flashMode) /\ TypeOK
  BY CurOK DEF PCompare, IInv
<1>2. TypeOK' /\ ClockInv'
  BY <1>1 DEF PCompare, Goto, Hw, Env, TypeOK, PCs, IInv, ClockInv
<1>3. CASE Goto(a, "PFlashOff")
  <2>1. ActorOK("PFlashOff", job'[a], powered', desiredOn', flashMode')
    BY <1>1 DEF PCompare, Hw, ActorOK, FlashPCs, RoutedPCs, AccessPCs
  <2>2. QED
    BY <1>2, <1>3, <2>1, StepAssemble DEF PCompare, Goto, PCs
<1>4. CASE Goto(a, "PErase")
  <2>1. ActorOK("PErase", job'[a], powered', desiredOn', flashMode')
    BY <1>1 DEF PCompare, Hw, ActorOK, FlashPCs, RoutedPCs, AccessPCs
  <2>2. QED
    BY <1>2, <1>4, <2>1, StepAssemble DEF PCompare, Goto, PCs
<1>5. QED
  BY <1>3, <1>4 DEF PCompare

\* apba_mtd_erase, whole or failing half way, leaves partition contents well formed.
LEMMA PEraseIInv ==
  ASSUME IInv, NEW a \in Actors, PErase(a)
  PROVE  IInv'
<1>1. ActorOK("PErase", job[a], powered, desiredOn, flashMode) /\ TypeOK
  BY CurOK DEF PErase, IInv
<1> DEFINE p == job[a].part
<1>2. p \in MtdParts /\ content[p] \in Contents
  BY <1>1 DEF ActorOK, AccessPCs, TypeOK
<1>3. ClockInv'
  BY DEF PErase, Env, IInv, ClockInv
<1>4. UNCHANGED <<desiredOn, clk, powered, uartOpen, flashMode, populated, apbeOn,
                  attached, uartReg, dworkPending, det, lastNotify, ops>>
  BY DEF PErase, Env
<1>5. CASE /\ content' = [content EXCEPT ![p] = Erased]
           /\ Goto(a, IF job[a].kind = "flash" THEN "PWrite" ELSE "PFlashOff")
           /\ UNCHANGED job
  <2> DEFINE l == IF job[a].kind = "flash" THEN "PWrite" ELSE "PFlashOff"
  <2>1. content' \in [MtdParts -> Contents]
    BY <1>1, <1>2, <1>5, ImagesAreContents DEF TypeOK
  <2>2. TypeOK'
    <3>1. pc' \in [Actors -> PCs]
      BY <1>1, <1>4, <1>5, <2>1 DEF Goto, TypeOK, PCs
    <3>2. QED
      BY <1>1, <1>4, <1>5, <2>1, <3>1 DEF TypeOK
  <2>3. ActorOK(l, job'[a], powered', desiredOn', flashMode')
    BY <1>1, <1>4, <1>5 DEF ActorOK, FlashPCs, RoutedPCs, AccessPCs
  <2>4. QED
    BY <1>3, <1>5, <2>2, <2>3, StepAssemble DEF PErase, Goto, PCs
<1>6. CASE /\ content' \in {[content EXCEPT ![p] = c] :
                              c \in {content[p], [content[p] EXCEPT !.first = Blank]}}
           /\ Goto(a, "PFlashOff")
           /\ SetErr(a, "eio")
  <2>1. content' \in [MtdParts -> Contents]
    <3>1. PICK c \in {content[p], [content[p] EXCEPT !.first = Blank]} :
                content' = [content EXCEPT ![p] = c]
      BY <1>6
    <3>2. c \in Contents
      <4>1. [content[p] EXCEPT !.first = Blank] \in Contents
        BY <1>2, HalfErased
      <4>2. QED
        BY <1>2, <3>1, <4>1, Zenon
    <3>3. QED
      BY <1>1, <1>2, <3>1, <3>2 DEF TypeOK
  <2>2. job' \in [Actors -> Jobs]
    BY <1>1, <1>6, SetErrType DEF Errs
  <2>3. TypeOK'
    <3>1. pc' \in [Actors -> PCs]
      BY <1>1, <1>6 DEF Goto, TypeOK, PCs
    <3>2. QED
      BY <1>1, <1>4, <2>1, <2>2, <3>1 DEF TypeOK
  <2>4. ActorOK("PFlashOff", job'[a], powered', desiredOn', flashMode')
    BY <1>1, <1>4 DEF ActorOK, FlashPCs, RoutedPCs, AccessPCs
  <2>5. QED
    BY <1>3, <1>6, <2>3, <2>4, StepAssemble DEF PErase, Goto, PCs
<1>7. QED
  BY <1>5, <1>6 DEF PErase

\* The mtd write, whole or stopping after the first page, leaves contents well formed.
LEMMA PWriteIInv ==
  ASSUME IInv, NEW a \in Actors, PWrite(a)
  PROVE  IInv'
<1>1. ActorOK("PWrite", job[a], powered, desiredOn, flashMode) /\ TypeOK
  BY CurOK DEF PWrite, IInv
<1> DEFINE p == job[a].part
<1>2. p \in MtdParts /\ job[a].img \in Images
  BY <1>1 DEF ActorOK, AccessPCs, FlashPCs
<1>3. ClockInv'
  BY DEF PWrite, Env, IInv, ClockInv
<1>4. UNCHANGED <<desiredOn, clk, powered, uartOpen, flashMode, populated, apbeOn,
                  attached, uartReg, dworkPending, det, lastNotify, ops>>
  BY DEF PWrite, Env
<1>5. /\ job[a].img \in Contents
      /\ [first |-> job[a].img.first, rest |-> Blank] \in Contents
  BY <1>2, WrittenContents
<1>6. content' \in [MtdParts -> Contents]
  BY <1>1, <1>2, <1>5 DEF PWrite, TypeOK
<1>7. job' \in [Actors -> Jobs]
  <2>1. CASE UNCHANGED job
    BY <1>1, <2>1 DEF TypeOK
  <2>2. CASE SetErr(a, "eio")
    BY <1>1, <2>2, SetErrType DEF Errs
  <2>3. QED
    BY <2>1, <2>2 DEF PWrite
<1>8. TypeOK'
  <2>1. pc' \in [Actors -> PCs]
    BY <1>1, <1>4, <1>6, <1>7 DEF PWrite, Goto, TypeOK, PCs
  <2>2. QED
    BY <1>1, <1>4, <1>6, <1>7, <2>1 DEF PWrite, TypeOK
<1>9. ActorOK("PFlashOff", job'[a], powered', desiredOn', flashMode')
  BY <1>1, <1>4 DEF ActorOK, FlashPCs, RoutedPCs, AccessPCs
<1>10. QED
  BY <1>3, <1>8, <1>9, StepAssemble DEF PWrite, Goto, PCs

\* apba_flash_on(ctrl, false) releases the flash without touching power.
LEMMA PFlashOffIInv ==
  ASSUME IInv, NEW a \in Actors, PFlashOff(a)
  PROVE  IInv'
<1>1. ActorOK("PFlashOff", job[a], powered, desiredOn, flashMode) /\ TypeOK
  BY CurOK DEF PFlashOff, IInv
<1>2. TypeOK'
  <2>1. pc' \in [Actors -> PCs]
    BY <1>1 DEF PFlashOff, Goto, TypeOK, PCs
  <2>2. QED
    BY <1>1, <2>1 DEF PFlashOff, FlashOnFalse, Env, TypeOK
<1>3. ClockInv'
  BY DEF PFlashOff, IInv, ClockInv
<1>4. ActorOK("PCheck", job'[a], powered', desiredOn', flashMode')
  BY <1>1 DEF PFlashOff, FlashOnFalse, ActorOK, FlashPCs, RoutedPCs, AccessPCs
<1>5. QED
  BY <1>2, <1>3, <1>4, StepAssemble DEF PFlashOff, Goto, PCs

\* The read of desired_on after flashing picks a restore that agrees with it.
LEMMA PCheckIInv ==
  ASSUME IInv, NEW a \in Actors, PCheck(a)
  PROVE  IInv'
<1>1. ActorOK("PCheck", job[a], powered, desiredOn, flashMode) /\ TypeOK
  BY CurOK DEF PCheck, IInv
<1>2. TypeOK' /\ ClockInv'
  BY <1>1 DEF PCheck, Goto, Hw, Env, TypeOK, PCs, IInv, ClockInv
<1>3. CASE desiredOn
  <2>1. ActorOK("PRestore", job'[a], powered', desiredOn', flashMode')
    BY <1>3 DEF PCheck, Hw, ActorOK, FlashPCs, RoutedPCs, AccessPCs
  <2>2. QED
    BY <1>2, <1>3, <2>1, StepAssemble DEF PCheck, Goto, PCs
<1>4. CASE ~desiredOn
  <2>1. powered = desiredOn
    BY <1>1, <1>4 DEF ActorOK, TypeOK
  <2>2. ActorOK("Ret", job'[a], powered', desiredOn', flashMode')
    BY <2>1 DEF PCheck, Hw, ActorOK, FlashPCs, RoutedPCs, AccessPCs
  <2>3. QED
    BY <1>2, <1>4, <2>2, StepAssemble DEF PCheck, Goto, PCs
<1>5. QED
  BY <1>3, <1>4

\* The flash bracket's apba_on(ctrl, true) restores power when desired_on is set.
LEMMA PRestoreIInv ==
  ASSUME IInv, NEW a \in Actors, PRestore(a)
  PROVE  IInv'
<1>1. ActorOK("PRestore", job[a], powered, desiredOn, flashMode) /\ TypeOK
  BY CurOK DEF PRestore, IInv
<1>2. TypeOK'
  <2>1. pc' \in [Actors -> PCs]
    BY <1>1 DEF PRestore, Goto, TypeOK, PCs
  <2>2. QED
    BY <1>1, <2>1 DEF PRestore, ApbaOnTrue, Env, TypeOK
<1>3. ClockInv'
  BY DEF PRestore, IInv, ClockInv
<1>4. ActorOK("Ret", job'[a], powered', desiredOn', flashMode')
  BY <1>1 DEF PRestore, ApbaOnTrue, TypeOK, ActorOK, FlashPCs, RoutedPCs, AccessPCs
<1>5. QED
  BY <1>2, <1>3, <1>4, StepAssemble DEF PRestore, Goto, PCs

\* Returning from a call leaves power in agreement with desired_on.
LEMMA RetIInv ==
  ASSUME IInv, NEW a \in Actors, Ret(a)
  PROVE  IInv'
<1>1. ActorOK("Ret", job[a], powered, desiredOn, flashMode) /\ TypeOK
  BY CurOK DEF Ret, IInv
<1>2. TypeOK'
  <2>1. pc' \in [Actors -> PCs]
    BY <1>1, NoJobIsJob DEF Ret, Goto, TypeOK, PCs
  <2>2. QED
    BY <1>1, NoJobIsJob, <2>1 DEF Ret, Hw, TypeOK
<1>3. ClockInv'
  BY DEF Ret, Hw, IInv, ClockInv
<1>4. ActorOK("Idle", job'[a], powered', desiredOn', flashMode')
  BY IdleOK
<1>5. powered' = desiredOn'
  BY <1>1 DEF Ret, Hw, ActorOK
<1>6. QED
  BY <1>2, <1>3, <1>4, <1>5, StepAssemble DEF Ret, Goto, PCs

-----------------------------------------------------------------------------
(* Entry points.                                                           *)

\* A thread entering a call with well-typed arguments, the hardware left
\* alone: its record holds when power agrees with intent, which it does
\* because every other thread is idle.
LEMMA EnterIInv ==
  ASSUME IInv, Serialized, NEW a \in Actors, NEW k \in Kinds, NEW p \in Parts,
         NEW i \in Images \cup {NoFw}, NEW l \in PCs \ {"Idle"},
         Start(a, k, p, i, l), UNCHANGED Hw,
         uartReg' = uartReg, det' = det, dworkPending' \in BOOLEAN,
         lastNotify' \in {"none", "enabled", "disabled"}, ops' \in 0..MaxOps,
         powered = desiredOn =>
           ActorOK(l, [kind |-> k, part |-> p, img |-> i, err |-> "ok"],
                   powered, desiredOn, flashMode)
  PROVE  IInv'
<1> DEFINE rec == [kind |-> k, part |-> p, img |-> i, err |-> "ok"]
<1>1. powered = desiredOn
  BY QuietAgree DEF Start
<1>2. rec \in Jobs /\ job'[a] = rec
  BY DEF Start, Jobs, Errs, IInv, TypeOK
<1>3. TypeOK'
  BY <1>2 DEF Start, Goto, Hw, IInv, TypeOK
<1>4. ClockInv'
  BY DEF Hw, IInv, ClockInv
<1>5. ActorOK(l, job'[a], powered', desiredOn', flashMode')
  BY <1>1, <1>2 DEF Hw
<1>6. QED
  BY <1>3, <1>4, <1>5, StartAssemble DEF Start, Goto

\* apba_enable_store enters apba_enable or apba_disable.
LEMMA ApbaEnableStoreIInv ==
  ASSUME IInv, Serialized, NEW u \in Users, ApbaEnableStore(u)
  PROVE  IInv'
<1>1. u \in Actors /\ ops' \in 0..MaxOps
  BY DEF ApbaEnableStore, Actors, IInv, TypeOK
<1>2. UNCHANGED <<Hw, uartReg, det>> /\ dworkPending' \in BOOLEAN
      /\ lastNotify' \in {"none", "enabled", "disabled"}
  BY DEF ApbaEnableStore, IInv, TypeOK
<1>3. CASE Start(u, "enable", FwPart, NoFw, "EnClk")
  BY <1>1, <1>2, <1>3, EnterIInv DEF Kinds, PCs, ActorOK, FlashPCs, RoutedPCs, AccessPCs
<1>4. CASE Start(u, "disable", FwPart, NoFw, "DisCheck")
  BY <1>1, <1>2, <1>4, EnterIInv DEF Kinds, PCs, ActorOK, FlashPCs, RoutedPCs, AccessPCs
<1>5. QED
  BY <1>3, <1>4 DEF ApbaEnableStore

\* erase_partition_store enters apba_erase_partition for any named partition.
LEMMA ErasePartitionStoreIInv ==
  ASSUME IInv, Serialized, NEW u \in Users, ErasePartitionStore(u)
  PROVE  IInv'
<1>1. u \in Actors /\ ops' \in 0..MaxOps
  BY DEF ErasePartitionStore, Actors, IInv, TypeOK
<1>2. UNCHANGED <<Hw, uartReg, det>> /\ dworkPending' \in BOOLEAN
      /\ lastNotify' \in {"none", "enabled", "disabled"}
  BY DEF ErasePartitionStore, IInv, TypeOK
<1>3. PICK p \in Parts : Start(u, "erase", p, NoFw, "POff")
  BY DEF ErasePartitionStore
<1>4. QED
  BY <1>1, <1>2, <1>3, EnterIInv DEF Kinds, PCs, ActorOK, FlashPCs, RoutedPCs, AccessPCs

\* flash_partition_store enters apba_flash_partition with a loaded image.
LEMMA FlashPartitionStoreIInv ==
  ASSUME IInv, Serialized, NEW u \in Users, FlashPartitionStore(u)
  PROVE  IInv'
<1>1. u \in Actors /\ ops' \in 0..MaxOps
  BY DEF FlashPartitionStore, Actors, IInv, TypeOK
<1>2. UNCHANGED <<Hw, uartReg, det>> /\ dworkPending' \in BOOLEAN
      /\ lastNotify' \in {"none", "enabled", "disabled"}
  BY DEF FlashPartitionStore, IInv, TypeOK
<1>3. PICK p \in Parts, i \in Images : Start(u, "flash", p, i, "POff")
  BY DEF FlashPartitionStore
<1>4. QED
  BY <1>1, <1>2, <1>3, EnterIInv DEF Kinds, PCs, ActorOK, FlashPCs, RoutedPCs, AccessPCs

\* apba_slave_notify(ENABLED) enters apba_enable in the notifying context.
LEMMA SlaveNotifyEnabledIInv ==
  ASSUME IInv, Serialized, SlaveNotifyEnabled
  PROVE  IInv'
<1>1. Notifier \in Actors /\ ops' \in 0..MaxOps
  BY ContextsAreActors DEF SlaveNotifyEnabled, IInv, TypeOK
<1>2. UNCHANGED <<Hw, uartReg, det>> /\ dworkPending' \in BOOLEAN
      /\ lastNotify' \in {"none", "enabled", "disabled"}
  BY DEF SlaveNotifyEnabled, IInv, TypeOK
<1>3. QED
  BY <1>1, <1>2, EnterIInv
  DEF SlaveNotifyEnabled, Kinds, PCs, ActorOK, FlashPCs, RoutedPCs, AccessPCs

\* apba_disable_work_func enters apba_disable.
LEMMA DisableWorkRunIInv ==
  ASSUME IInv, Serialized, DisableWorkRun
  PROVE  IInv'
<1>1. DisableWork \in Actors /\ ops' \in 0..MaxOps
  BY ContextsAreActors DEF DisableWorkRun, Env, IInv, TypeOK
<1>2. UNCHANGED <<Hw, uartReg, det>> /\ dworkPending' \in BOOLEAN
      /\ lastNotify' \in {"none", "enabled", "disabled"}
  BY DEF DisableWorkRun, IInv, TypeOK
<1>3. QED
  BY <1>1, <1>2, EnterIInv
  DEF DisableWorkRun, Kinds, PCs, ActorOK, FlashPCs, RoutedPCs, AccessPCs

\* apba_firmware_callback enters the flash bracket, with or without an image.
LEMMA FirmwareCallbackIInv ==
  ASSUME IInv, Serialized, FirmwareCallback
  PROVE  IInv'
<1>1. FwLoader \in Actors /\ ops' \in 0..MaxOps
  BY ContextsAreActors DEF FirmwareCallback, Env, IInv, TypeOK
<1>2. UNCHANGED <<Hw, uartReg, det>> /\ dworkPending' \in BOOLEAN
      /\ lastNotify' \in {"none", "enabled", "disabled"}
  BY DEF FirmwareCallback, Env, IInv, TypeOK
<1>3. PICK i \in Images \cup {NoFw} :
        IF i = NoFw THEN Start(FwLoader, "nofw", FwPart, i, "PFlashOff")
                    ELSE Start(FwLoader, "flash", FwPart, i, "POff")
  BY DEF FirmwareCallback
<1>4. CASE i = NoFw
  BY <1>1, <1>2, <1>3, <1>4, EnterIInv
  DEF Kinds, PCs, ActorOK, FlashPCs, RoutedPCs, AccessPCs
<1>5. CASE i # NoFw
  BY <1>1, <1>2, <1>3, <1>5, EnterIInv
  DEF Kinds, PCs, ActorOK, FlashPCs, RoutedPCs, AccessPCs
<1>6. QED
  BY <1>4, <1>5

\* flash_enable_store switches flash mode with every other thread idle.
LEMMA FlashEnableStoreIInv ==
  ASSUME IInv, Serialized, NEW u \in Users, FlashEnableStore(u)
  PROVE  IInv'
<1>1. u \in Actors
  BY DEF Actors
<1>2. powered = desiredOn /\ Quiescent
  BY <1>1, QuietAgree DEF FlashEnableStore
<1>3. flashMode' \in BOOLEAN /\ populated' \in BOOLEAN
  BY DEF FlashEnableStore, FlashOnTrue, FlashOnFalse, IInv, TypeOK
<1>4. TypeOK'
  BY <1>3 DEF FlashEnableStore, IInv, TypeOK
<1>5. AllActorsOK'
  BY <1>2, IdleOK DEF FlashEnableStore, Quiescent, AllActorsOK
<1>6. QED
  BY <1>2, <1>4, <1>5 DEF FlashEnableStore, IInv, OneBusy, ClockInv, Quiescent

\* Steps that leave every thread, its record, power and intent alone.
LEMMA FrameIInv ==
  ASSUME IInv, SlaveNotifyDisabled \/ ApbaUartRegister
  PROVE  IInv'
<1>1. UNCHANGED <<pc, job, Hw, det>>
  BY DEF SlaveNotifyDisabled, ApbaUartRegister
<1>2. TypeOK'
  <2>1. CASE SlaveNotifyDisabled
    BY <1>1, <2>1 DEF SlaveNotifyDisabled, Hw, IInv, TypeOK
  <2>2. CASE ApbaUartRegister
    BY <1>1, <2>2 DEF ApbaUartRegister, Hw, IInv, TypeOK
  <2>3. QED
    BY <2>1, <2>2
<1>3. QED
  BY <1>1, <1>2 DEF Hw, IInv, OneBusy, ClockInv, Quiescent, AllActorsOK

\* Any step of a thread inside a call.
LEMMA StepIInv ==
  ASSUME IInv, NEW a \in Actors, Step(a)
  PROVE  IInv'
BY EnClkIInv, EnOnIInv, DisCheckIInv, DisActIInv, DisOffIInv, POffIInv,
   PFlashOnIInv, PLookupIInv, PCompareIInv, PEraseIInv, PWriteIInv,
   PFlashOffIInv, PCheckIInv, PRestoreIInv, RetIInv DEF Step

\* Every step of the driver, under serialized transitions, keeps the invariant.
LEMMA NextIInv ==
  ASSUME IInv, Serialized, [Next]_vars
  PROVE  IInv'
<1>1. CASE \E u \in Users :
             \/ ApbaEnableStore(u) \/ ErasePartitionStore(u)
             \/ FlashPartitionStore(u) \/ FlashEnableStore(u)
  BY <1>1, ApbaEnableStoreIInv, ErasePartitionStoreIInv,
     FlashPartitionStoreIInv, FlashEnableStoreIInv
<1>2. CASE SlaveNotifyEnabled \/ DisableWorkRun \/ FirmwareCallback
  BY <1>2, SlaveNotifyEnabledIInv, DisableWorkRunIInv, FirmwareCallbackIInv
<1>3. CASE SlaveNotifyDisabled \/ ApbaUartRegister
  BY <1>3, FrameIInv
<1>4. CASE \E a \in Actors : Step(a)
  BY <1>4, StepIInv
<1>5. CASE UNCHANGED vars
  <2>1. TypeOK'
    BY <1>5 DEF vars, IInv, TypeOK
  <2>2. OneBusy' /\ ClockInv' /\ (Quiescent => powered = desiredOn)'
    BY <1>5 DEF vars, IInv, OneBusy, ClockInv, Quiescent
  <2>3. AllActorsOK'
    BY <1>5 DEF vars, IInv, AllActorsOK
  <2>4. QED
    BY <2>1, <2>2, <2>3 DEF IInv
<1>6. QED
  BY <1>1, <1>2, <1>3, <1>4, <1>5 DEF Next

-----------------------------------------------------------------------------
(* The theorems.                                                           *)

\* Under serialized power transitions (the design's assumption that only one
\* of apba_enable, apba_disable and the flash bracket runs at a time), every
\* reachable state satisfies the inductive invariant.
THEOREM Invariance == Serialized /\ Spec => []IInv
<1>1. SUFFICES ASSUME Serialized PROVE Spec => []IInv
  OBVIOUS
<1>2. QED
  BY <1>1, InitIInv, NextIInv, PTL DEF Spec

\* Type correctness of the driver state: in particular the mclk enable count
\* never underflows, because apba_disable drops the clock only after its
\* desired_on check, which implies a prior apba_enable's clk_prepare_enable.
THEOREM TypeCorrect == Serialized /\ Spec => []TypeOK
BY Invariance, PTL DEF IInv

\* While apba_erase_partition / apba_flash_partition reads, erases or writes
\* the SPI flash, the APBA is powered down and the flash routed to the host.
THEOREM FlashExclusion == Serialized /\ Spec => []NoFlashAccessWhileApbaRuns
<1>1. IInv => NoFlashAccessWhileApbaRuns
  BY DEF IInv, AllActorsOK, ActorOK, FlashPCs, RoutedPCs, AccessPCs,
         NoFlashAccessWhileApbaRuns
<1>2. QED
  BY <1>1, Invariance, PTL

\* Whenever no call is in flight, the APBA is powered exactly when
\* desired_on is set: apba_enable, apba_disable and the flash bracket's
\* restore (if desired_on apba_on(true)) each return in agreement.
THEOREM PowerIntent == Serialized /\ Spec => []PowerFollowsIntent
<1>1. IInv => PowerFollowsIntent
  BY DEF IInv, PowerFollowsIntent
<1>2. QED
  BY <1>1, Invariance, PTL

=============================================================================
