------------------------------ MODULE ApbaPower ------------------------------
(***************************************************************************)
(* The power/flash controller of the APBA control driver (src/apba.c):    *)
(* apba_enable / apba_disable, the flash-mode bracket apba_flash_on, the    *)
(* partition pipeline apba_erase_partition / apba_flash_partition, and the *)
(* contexts that call them: sysfs writers, the slave-state notification    *)
(* apba_slave_notify, the one-second deferred disable work and the boot    *)
(* firmware callback.  Nothing in the driver locks this state; each caller *)
(* is a thread (an Actor) whose program counter walks through the steps of *)
(* the function it runs.  A step is one call that changes shared state or  *)
(* one read of shared state whose result is acted on later.                *)
(*                                                                         *)
(* The GPIO sequences are abstracted to their effect: enable_seq and       *)
(* disable_seq leave the APBA powered or not (powered), flash_start_seq    *)
(* and flash_end_seq route the SPI flash to the host or not (flashMode).   *)
(* A flash page is a model value; a partition's content is its first page *)
(* and the rest, the unit the driver's compare heuristic distinguishes.    *)
(***************************************************************************)
EXTENDS Naturals

CONSTANTS
  Users,       \* sysfs writer threads
  Parts,       \* partition names a writer may name
  MtdParts,    \* partitions of the APBA SPI flash (MTD devices)
  FwPart,      \* APBA_FIRMWARE_PARTITION, flashed by the boot callback
  Pages,       \* page contents a firmware image may have
  Blank,       \* content of an erased page
  Images,      \* firmware images: [first: Pages, rest: Pages]
  NoFw,        \* request_firmware found no file
  MaxOps,      \* bound on operations started by writers and notifications
  Serialized,  \* TRUE: a transition starts only when no other is in flight
  FlashEnableAttr \* TRUE: writers also use the flash_enable attribute

ASSUME PartsAssumption == MtdParts \subseteq Parts /\ FwPart \in Parts
ASSUME PagesAssumption == Blank \notin Pages
ASSUME ImagesAssumption == Images \subseteq [first: Pages, rest: Pages] /\ NoFw \notin Images
ASSUME MaxOpsAssumption == MaxOps \in Nat
ASSUME SerializedAssumption == Serialized \in BOOLEAN
ASSUME FlashEnableAttrAssumption == FlashEnableAttr \in BOOLEAN

\* The non-sysfs execution contexts.
Notifier == "slave_notify"
DisableWork == "apba_disable_work"
FwLoader == "apba_firmware_callback"

ASSUME ActorsAssumption == {Notifier, DisableWork, FwLoader} \cap Users = {}

Actors == Users \cup {Notifier, DisableWork, FwLoader}

Erased == [first |-> Blank, rest |-> Blank]
Contents == [first: Pages \cup {Blank}, rest: Pages \cup {Blank}]

PCs == {"Idle", "EnClk", "EnOn", "DisCheck", "DisAct", "DisOff",
        "POff", "PFlashOn", "PLookup", "PCompare", "PErase", "PWrite",
        "PFlashOff", "PCheck", "PRestore", "Ret"}
Kinds == {"none", "enable", "disable", "flash", "erase", "nofw"}
Errs == {"ok", "enodev", "eio", "eclk"}
Jobs == [kind: Kinds, part: Parts, img: Images \cup {NoFw}, err: Errs]
NoJob == [kind |-> "none", part |-> FwPart, img |-> NoFw, err |-> "ok"]

VARIABLES
  pc,           \* [Actors -> PCs]: where each thread is
  job,          \* [Actors -> Jobs]: the arguments and err local of its call
  desiredOn,    \* ctrl->desired_on
  clk,          \* enable count of ctrl->mclk
  powered,      \* enable_seq applied more recently than disable_seq
  uartReg,      \* ctrl->mods_uart registered (apba_uart_register)
  uartOpen,     \* mods_uart_open without a later mods_uart_close
  flashMode,    \* flash_start_seq applied, SPI flash registered, pinctrl active
  populated,    \* ctrl->flash_dev_populated
  content,      \* [MtdParts -> Contents]: what each partition holds
  apbeOn,       \* APBE power as last commanded by mods_slave_ctrl_power
  attached,     \* mod_attach state of the transport
  dworkPending, \* apba_disable_work scheduled and not yet run
  det,          \* muc_enable_det called: mod detection (and notification) live
  lastNotify,   \* ghost: the last slave state notified
  ops           \* operations started so far (bounded by MaxOps)

vars == <<pc, job, desiredOn, clk, powered, uartReg, uartOpen, flashMode,
          populated, content, apbeOn, attached, dworkPending, det, lastNotify, ops>>

TypeOK ==
  /\ pc \in [Actors -> PCs]
  /\ job \in [Actors -> Jobs]
  /\ desiredOn \in BOOLEAN
  /\ clk \in Nat
  /\ powered \in BOOLEAN
  /\ uartReg \in BOOLEAN
  /\ uartOpen \in BOOLEAN
  /\ flashMode \in BOOLEAN
  /\ populated \in BOOLEAN
  /\ content \in [MtdParts -> Contents]
  /\ apbeOn \in BOOLEAN
  /\ attached \in BOOLEAN
  /\ dworkPending \in BOOLEAN
  /\ det \in BOOLEAN
  /\ lastNotify \in {"none", "enabled", "disabled"}
  /\ ops \in 0..MaxOps

(***************************************************************************)
(* apba_ctrl_probe leaves the APBA off (apba_on(ctrl, false)) with the     *)
(* default pinctrl state, no clock vote and no transport registered.       *)
(***************************************************************************)
Init ==
  /\ pc = [a \in Actors |-> "Idle"]
  /\ job = [a \in Actors |-> NoJob]
  /\ desiredOn = FALSE
  /\ clk = 0
  /\ powered = FALSE
  /\ uartReg = FALSE
  /\ uartOpen = FALSE
  /\ flashMode = FALSE
  /\ populated = FALSE
  /\ content \in [MtdParts -> Images \cup {Erased}]
  /\ apbeOn = FALSE
  /\ attached = FALSE
  /\ dworkPending = FALSE
  /\ det = FALSE
  /\ lastNotify = "none"
  /\ ops = 0

-----------------------------------------------------------------------------
(* Helpers: the effect of the driver's internal calls.                     *)

Goto(a, l) == pc' = [pc EXCEPT ![a] = l]
SetErr(a, e) == job' = [job EXCEPT ![a].err = e]

\* apba_on(ctrl, true): open the transport (if registered), run enable_seq.
ApbaOnTrue ==
  /\ powered' = TRUE
  /\ uartOpen' = (uartOpen \/ uartReg)

\* apba_on(ctrl, false): run disable_seq, close the transport (if registered).
ApbaOnFalse ==
  /\ powered' = FALSE
  /\ uartOpen' = (uartOpen /\ ~uartReg)

\* apba_flash_on(ctrl, true): pinctrl active, flash_start_seq, register the
\* SPI flash, populate the flash child device (which may fail).
FlashOnTrue ==
  /\ flashMode' = TRUE
  /\ populated' \in {populated, TRUE}

\* Mutant: flash_dev_populated is not cleared after of_platform_depopulate.
FlashOnFalseKeepPopulated ==
  /\ flashMode' = FALSE
  /\ populated' = populated

\* apba_flash_on(ctrl, false): depopulate, flash_end_seq, deregister, pinctrl default.
FlashOnFalse ==
  /\ flashMode' = FALSE
  /\ populated' = FALSE

\* The design's serialization: with Serialized, a transition starts only
\* when every other context is idle.
Quiet(a) == Serialized => \A b \in Actors \ {a} : pc[b] = "Idle"

\* Thread a enters a function at label l with the given arguments.
Start(a, k, p, i, l) ==
  /\ pc[a] = "Idle"
  /\ Quiet(a)
  /\ Goto(a, l)
  /\ job' = [job EXCEPT ![a] = [kind |-> k, part |-> p, img |-> i, err |-> "ok"]]

Hw == <<desiredOn, clk, powered, uartOpen, flashMode, populated, content, apbeOn, attached>>
Env == <<uartReg, dworkPending, det, lastNotify, ops>>

-----------------------------------------------------------------------------
(* Entry points.                                                           *)

\* apba_enable_store with val = 1 or 0: calls apba_enable() / apba_disable().
ApbaEnableStore(u) ==
  /\ ops < MaxOps
  /\ \E v \in BOOLEAN :
       IF v THEN Start(u, "enable", FwPart, NoFw, "EnClk")
            ELSE Start(u, "disable", FwPart, NoFw, "DisCheck")
  /\ ops' = ops + 1
  /\ UNCHANGED <<Hw, uartReg, dworkPending, det, lastNotify>>

\* erase_partition_store: a name of Parts, then apba_erase_partition.
ErasePartitionStore(u) ==
  /\ ops < MaxOps
  /\ \E p \in Parts : Start(u, "erase", p, NoFw, "POff")
  /\ ops' = ops + 1
  /\ UNCHANGED <<Hw, uartReg, dworkPending, det, lastNotify>>

\* flash_partition_store: request_firmware (.ffff, then .bin) found image i;
\* when it finds none the store returns before touching any state.
FlashPartitionStore(u) ==
  /\ ops < MaxOps
  /\ \E p \in Parts, i \in Images : Start(u, "flash", p, i, "POff")
  /\ ops' = ops + 1
  /\ UNCHANGED <<Hw, uartReg, dworkPending, det, lastNotify>>

\* flash_enable_store: apba_flash_on(g_ctrl, val) in one go, power untouched.
FlashEnableStore(u) ==
  /\ FlashEnableAttr
  /\ ops < MaxOps
  /\ pc[u] = "Idle"
  /\ Quiet(u)
  /\ \E v \in BOOLEAN : IF v THEN FlashOnTrue ELSE FlashOnFalse
  /\ ops' = ops + 1
  /\ UNCHANGED <<pc, job, desiredOn, clk, powered, uartOpen, content, apbeOn,
                 attached, uartReg, dworkPending, det, lastNotify>>

\* apba_slave_notify for the APBE with SLAVE_STATE_ENABLED: apba_enable()
\* in the notifying context.  Notifications start once detection is live.
SlaveNotifyEnabled ==
  /\ det
  /\ ops < MaxOps
  /\ Start(Notifier, "enable", FwPart, NoFw, "EnClk")
  /\ lastNotify' = "enabled"
  /\ ops' = ops + 1
  /\ UNCHANGED <<Hw, uartReg, dworkPending, det>>

\* apba_slave_notify with SLAVE_STATE_DISABLED: schedule_delayed_work of the
\* disable work (a no-op when it is already pending).
SlaveNotifyDisabled ==
  /\ det
  /\ ops < MaxOps
  /\ pc[Notifier] = "Idle"
  /\ dworkPending' = TRUE
  /\ lastNotify' = "disabled"
  /\ ops' = ops + 1
  /\ UNCHANGED <<pc, job, Hw, uartReg, det>>

\* Mutant: the deferred work runs but returns without calling apba_disable.
DisableWorkRunSkipped ==
  /\ dworkPending
  /\ Start(DisableWork, "disable", FwPart, NoFw, "Ret")
  /\ dworkPending' = FALSE
  /\ UNCHANGED <<Hw, uartReg, det, lastNotify, ops>>

\* apba_disable_work_func runs (any time after it was scheduled): apba_disable().
DisableWorkRun ==
  /\ dworkPending
  /\ Start(DisableWork, "disable", FwPart, NoFw, "DisCheck")
  /\ dworkPending' = FALSE
  /\ UNCHANGED <<Hw, uartReg, det, lastNotify, ops>>

\* apba_firmware_callback, once after probe: without firmware it leaves
\* flash mode and restores power; with it, apba_flash_partition(FwPart).
FirmwareCallback ==
  /\ ~det
  /\ \E i \in Images \cup {NoFw} :
       IF i = NoFw THEN Start(FwLoader, "nofw", FwPart, i, "PFlashOff")
                   ELSE Start(FwLoader, "flash", FwPart, i, "POff")
  /\ UNCHANGED <<Hw, Env>>

\* apba_uart_register: the transport hands its handle to the controller.
ApbaUartRegister ==
  /\ ~uartReg
  /\ uartReg' = TRUE
  /\ UNCHANGED <<pc, job, Hw, dworkPending, det, lastNotify, ops>>

-----------------------------------------------------------------------------
(* apba_enable: clk_prepare_enable (may fail), desired_on = 1, apba_on(true) *)

EnClk(a) ==
  /\ pc[a] = "EnClk"
  /\ \/ /\ clk' = clk + 1
        /\ desiredOn' = TRUE
        /\ Goto(a, "EnOn")
        /\ UNCHANGED job
     \/ /\ Goto(a, "Ret")
        /\ SetErr(a, "eclk")
        /\ UNCHANGED <<clk, desiredOn>>
  /\ UNCHANGED <<powered, uartOpen, flashMode, populated, content, apbeOn, attached, Env>>

EnOn(a) ==
  /\ pc[a] = "EnOn"
  /\ ApbaOnTrue
  /\ Goto(a, "Ret")
  /\ UNCHANGED <<job, desiredOn, clk, flashMode, populated, content, apbeOn, attached, Env>>

(* apba_disable: return unless desired_on; slave power off, desired_on = 0, *)
(* mod_attach(0), clk_disable_unprepare, apba_on(false).                    *)

\* Mutant: apba_disable without its early return on !desired_on.
DisCheckNoGuard(a) ==
  /\ pc[a] = "DisCheck"
  /\ Goto(a, "DisAct")
  /\ UNCHANGED <<job, Hw, Env>>

DisCheck(a) ==
  /\ pc[a] = "DisCheck"
  /\ Goto(a, IF desiredOn THEN "DisAct" ELSE "Ret")
  /\ UNCHANGED <<job, Hw, Env>>

DisAct(a) ==
  /\ pc[a] = "DisAct"
  /\ apbeOn' = FALSE
  /\ desiredOn' = FALSE
  /\ attached' = (attached /\ ~uartReg)
  /\ clk' = clk - 1
  /\ Goto(a, "DisOff")
  /\ UNCHANGED <<job, powered, uartOpen, flashMode, populated, content, Env>>

DisOff(a) ==
  /\ pc[a] = "DisOff"
  /\ ApbaOnFalse
  /\ Goto(a, "Ret")
  /\ UNCHANGED <<job, desiredOn, clk, flashMode, populated, content, apbeOn, attached, Env>>

-----------------------------------------------------------------------------
(* apba_erase_partition / apba_flash_partition, and the no-firmware branch  *)
(* of apba_firmware_callback, which enters at PFlashOff.                   *)

\* Mutant: the partition operation does not power the APBA down first.
POffSkipped(a) ==
  /\ pc[a] = "POff"
  /\ Goto(a, "PFlashOn")
  /\ UNCHANGED <<job, Hw, Env>>

POff(a) ==
  /\ pc[a] = "POff"
  /\ ApbaOnFalse
  /\ Goto(a, "PFlashOn")
  /\ UNCHANGED <<job, desiredOn, clk, flashMode, populated, content, apbeOn, attached, Env>>

PFlashOn(a) ==
  /\ pc[a] = "PFlashOn"
  /\ FlashOnTrue
  /\ Goto(a, "PLookup")
  /\ UNCHANGED <<job, desiredOn, clk, powered, uartOpen, content, apbeOn, attached, Env>>

\* apba_init_mtd_module: the partition's MTD device exists only while the
\* flash child device is populated; otherwise -ENODEV.
PLookup(a) ==
  /\ pc[a] = "PLookup"
  /\ IF populated /\ job[a].part \in MtdParts
       THEN /\ Goto(a, IF job[a].kind = "flash" THEN "PCompare" ELSE "PErase")
            /\ UNCHANGED job
       ELSE /\ Goto(a, "PFlashOff")
            /\ SetErr(a, "enodev")
  /\ UNCHANGED <<Hw, Env>>

\* apba_compare_partition: equal first page skips the flash with err = 0;
\* a failed allocation, read or short read counts as different.
PCompare(a) ==
  /\ pc[a] = "PCompare"
  /\ \/ /\ content[job[a].part].first = job[a].img.first
        /\ Goto(a, "PFlashOff")
     \/ Goto(a, "PErase")
  /\ UNCHANGED <<job, Hw, Env>>

\* apba_mtd_erase of the whole partition; a failure may leave it half erased.
PErase(a) ==
  /\ pc[a] = "PErase"
  /\ LET p == job[a].part IN
       \/ /\ content' = [content EXCEPT ![p] = Erased]
          /\ Goto(a, IF job[a].kind = "flash" THEN "PWrite" ELSE "PFlashOff")
          /\ UNCHANGED job
       \/ /\ content' \in {[content EXCEPT ![p] = c] :
                              c \in {content[p], [content[p] EXCEPT !.first = Blank]}}
          /\ Goto(a, "PFlashOff")
          /\ SetErr(a, "eio")
  /\ UNCHANGED <<desiredOn, clk, powered, uartOpen, flashMode, populated, apbeOn, attached, Env>>

\* mtd _write of the image at offset 0; a failure may stop after the first page.
PWrite(a) ==
  /\ pc[a] = "PWrite"
  /\ LET p == job[a].part IN
       \/ /\ content' = [content EXCEPT ![p] = job[a].img]
          /\ UNCHANGED job
       \/ /\ content' = [content EXCEPT ![p] = [first |-> job[a].img.first, rest |-> Blank]]
          /\ SetErr(a, "eio")
  /\ Goto(a, "PFlashOff")
  /\ UNCHANGED <<desiredOn, clk, powered, uartOpen, flashMode, populated, apbeOn, attached, Env>>

PFlashOff(a) ==
  /\ pc[a] = "PFlashOff"
  /\ FlashOnFalse
  /\ Goto(a, "PCheck")
  /\ UNCHANGED <<job, desiredOn, clk, powered, uartOpen, content, apbeOn, attached, Env>>

\* Mutant: the bracket never restores power after flashing.
PCheckNoRestore(a) ==
  /\ pc[a] = "PCheck"
  /\ Goto(a, "Ret")
  /\ UNCHANGED <<job, Hw, Env>>

\* if (ctrl->desired_on) apba_on(ctrl, true): the read and the call are apart.
PCheck(a) ==
  /\ pc[a] = "PCheck"
  /\ Goto(a, IF desiredOn THEN "PRestore" ELSE "Ret")
  /\ UNCHANGED <<job, Hw, Env>>

PRestore(a) ==
  /\ pc[a] = "PRestore"
  /\ ApbaOnTrue
  /\ Goto(a, "Ret")
  /\ UNCHANGED <<job, desiredOn, clk, flashMode, populated, content, apbeOn, attached, Env>>

\* The function returns; the firmware callback then calls muc_enable_det().
Ret(a) ==
  /\ pc[a] = "Ret"
  /\ Goto(a, "Idle")
  /\ job' = [job EXCEPT ![a] = NoJob]
  /\ det' = (det \/ a = FwLoader)
  /\ UNCHANGED <<Hw, uartReg, dworkPending, lastNotify, ops>>

-----------------------------------------------------------------------------

Step(a) ==
  \/ EnClk(a) \/ EnOn(a) \/ DisCheck(a) \/ DisAct(a) \/ DisOff(a)
  \/ POff(a) \/ PFlashOn(a) \/ PLookup(a) \/ PCompare(a) \/ PErase(a)
  \/ PWrite(a) \/ PFlashOff(a) \/ PCheck(a) \/ PRestore(a) \/ Ret(a)

Next ==
  \/ \E u \in Users :
       \/ ApbaEnableStore(u) \/ ErasePartitionStore(u)
       \/ FlashPartitionStore(u) \/ FlashEnableStore(u)
  \/ SlaveNotifyEnabled \/ SlaveNotifyDisabled \/ DisableWorkRun
  \/ FirmwareCallback \/ ApbaUartRegister
  \/ \E a \in Actors : Step(a)

Spec == Init /\ [][Next]_vars

\* The kernel runs every runnable thread (msleep and the pinctrl/GPIO calls
\* return) and runs a scheduled delayed work item once its delay expired:
\* weak fairness on each context's steps and on the disable work.  Nothing
\* forces a user, the MuC or the firmware loader to call in.
FairSpec ==
  /\ Spec
  /\ \A a \in Actors : WF_vars(Step(a))
  /\ WF_vars(DisableWorkRun)

-----------------------------------------------------------------------------
(* Properties.                                                             *)

Quiescent == \A a \in Actors : pc[a] = "Idle"

\* Flashing excludes normal operation: while a partition operation reads,
\* erases or writes the SPI flash, the APBA is powered down and the flash is
\* routed to the host (apba_erase_partition / apba_flash_partition bracket).
NoFlashAccessWhileApbaRuns ==
  \A a \in Actors :
    pc[a] \in {"PCompare", "PErase", "PWrite"} => ~powered /\ flashMode

\* Whenever no call is in flight the APBA's power equals the desired_on
\* intent: apba_enable, apba_disable and the flash bracket's restore step
\* (if desired_on apba_on(true)) all end in agreement.
PowerFollowsIntent ==
  Quiescent => powered = desiredOn

\* When a partition operation returns, the flash interface is released:
\* flash_end_seq ran and the flash child device is depopulated.
FlashReleasedOnReturn ==
  \A a \in Actors :
    pc[a] = "Ret" /\ job[a].kind \in {"flash", "erase", "nofw"}
      => ~flashMode /\ ~populated

\* A flash_partition that reports success leaves the partition holding the
\* image (the compare-and-skip heuristic assumes partitions are written whole).
FlashSuccessMeansImage ==
  \A a \in Actors :
    pc[a] = "Ret" /\ job[a].kind = "flash" /\ job[a].err = "ok"
      => content[job[a].part] = job[a].img

\* The deferred disable (scheduled by a SLAVE_STATE_DISABLED notification)
\* never powers the APBE and the APBA down after the APBE was notified
\* ENABLED again: apba_disable_work_func's apba_disable passes its
\* desired_on check and acts only while the last notification is DISABLED.
DeferredDisableNotStale ==
  [][DisAct(DisableWork) => lastNotify = "disabled"]_vars

\* Liveness of the SLAVE_STATE_DISABLED path: once apba_disable_work is
\* scheduled, the APBA is eventually seen powered down (the work's
\* apba_disable, or an earlier one, took effect).
DisableNotificationHonoured ==
  dworkPending ~> ~powered


=============================================================================
