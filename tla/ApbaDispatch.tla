----------------------------- MODULE ApbaDispatch -----------------------------
(***************************************************************************)
(* The interrupt-reason dispatcher and the wake interrupt of src/apba.c,   *)
(* composed with the power controller ApbaPower: the INT_REASON branch of  *)
(* apba_handle_message and apba_action_on_int_reason, run by the UART      *)
(* receive context; the APBE attach work items queued by                  *)
(* apba_notify_abpe_attach and run by the system workqueue in no set      *)
(* order; apba_isr; and apbe_power_store, the sysfs write that powers    *)
(* the APBE directly.  Every ApbaPower step leaves the new state alone.    *)
(***************************************************************************)
EXTENDS ApbaPower

CONSTANTS
  MaxInts,       \* bound on INT_REASON messages and wake interrupts
  ApbePowerAttr  \* whether user space writes the apbe_power attribute

ASSUME MaxIntsAssumption == MaxInts \in Nat
ASSUME ApbePowerAttrAssumption == ApbePowerAttr \in BOOLEAN

VARIABLES
  rxPc,      \* the receive context: "Idle" or sleeping inside APBE_RESET
  attachQ,   \* [{0, 1} -> Nat]: queued apbe_attach_work items per present value
  ints,      \* INT_REASON messages and wake interrupts so far
  woke       \* the last wake was forwarded to a transport that was open

dvars == <<vars, rxPc, attachQ, ints, woke>>
PowerVars == vars

DTypeOK ==
  /\ TypeOK
  /\ rxPc \in {"Idle", "ResetOn"}
  /\ attachQ \in [{0, 1} -> Nat]
  /\ ints \in 0..MaxInts
  /\ woke \in BOOLEAN

DInit ==
  /\ Init
  /\ rxPc = "Idle"
  /\ attachQ = [p \in {0, 1} |-> 0]
  /\ ints = 0
  /\ woke = TRUE

\* The APBA sends INT_REASON only over an open transport, and
\* apba_action_on_int_reason returns at once until apba_slave_notify has
\* recorded the master interface.
IntReason ==
  /\ rxPc = "Idle" /\ ints < MaxInts
  /\ uartOpen
  /\ lastNotify # "none"
  /\ ints' = ints + 1

\* apba_notify_abpe_attach: kzalloc (may fail) and schedule_work.
NotifyAttach(p) ==
  attachQ' \in {attachQ, [attachQ EXCEPT ![p] = @ + 1]}

\* APBA_INT_APBE_ON: mods_slave_ctrl_power(POWER_ON).
IntApbeOn ==
  /\ IntReason
  /\ apbeOn' = TRUE
  /\ UNCHANGED <<pc, job, desiredOn, clk, powered, uartReg, uartOpen, flashMode,
                 populated, content, attached, Env, rxPc, attachQ, woke>>

\* APBA_INT_APBE_RESET: POWER_OFF, then msleep(APBE_RESET_DELAY) ...
IntApbeReset ==
  /\ IntReason
  /\ apbeOn' = FALSE
  /\ rxPc' = "ResetOn"
  /\ UNCHANGED <<pc, job, desiredOn, clk, powered, uartReg, uartOpen, flashMode,
                 populated, content, attached, Env, attachQ, woke>>

\* ... then POWER_ON, whatever happened in the 250 ms.
ResetOn ==
  /\ rxPc = "ResetOn"
  /\ apbeOn' = TRUE
  /\ rxPc' = "Idle"
  /\ UNCHANGED <<pc, job, desiredOn, clk, powered, uartReg, uartOpen, flashMode,
                 populated, content, attached, Env, attachQ, ints, woke>>

\* APBA_INT_APBE_CONNECTED: apba_notify_abpe_attach(1).
IntConnected ==
  /\ IntReason
  /\ NotifyAttach(1)
  /\ UNCHANGED <<PowerVars, rxPc, woke>>

\* APBA_INT_APBE_DISCONNECTED: POWER_OFF, apba_notify_abpe_attach(0).
IntDisconnected ==
  /\ IntReason
  /\ apbeOn' = FALSE
  /\ NotifyAttach(0)
  /\ UNCHANGED <<pc, job, desiredOn, clk, powered, uartReg, uartOpen, flashMode,
                 populated, content, attached, Env, rxPc, woke>>

\* apba_apbe_attach_work_func for a queued item: mod_attach(present) if a
\* transport is registered, then kfree.
AttachWork(p) ==
  /\ attachQ[p] > 0
  /\ attachQ' = [attachQ EXCEPT ![p] = @ - 1]
  /\ attached' = IF uartReg THEN p = 1 ELSE attached
  /\ UNCHANGED <<pc, job, desiredOn, clk, powered, uartReg, uartOpen, flashMode,
                 populated, content, apbeOn, Env, rxPc, ints, woke>>

\* apba_isr: the wake GPIO fired; unless desired_on is 0 or no transport is
\* registered, mods_uart_pm_handle_wake_interrupt.
Isr ==
  /\ ints < MaxInts
  /\ desiredOn /\ uartReg
  /\ ints' = ints + 1
  /\ woke' = uartOpen
  /\ UNCHANGED <<PowerVars, rxPc, attachQ>>

\* apbe_power_store: a write of 0 or 1 sends POWER_OFF or POWER_ON for the
\* APBE as soon as apba_slave_notify has recorded the master interface; it
\* takes no lock and does not look at the receive context.
ApbePowerStore ==
  /\ ApbePowerAttr
  /\ lastNotify # "none"
  /\ \E v \in BOOLEAN : apbeOn' = v
  /\ UNCHANGED <<pc, job, desiredOn, clk, powered, uartReg, uartOpen, flashMode,
                 populated, content, attached, Env, rxPc, attachQ, ints, woke>>

DNext ==
  \/ Next /\ UNCHANGED <<rxPc, attachQ, ints, woke>>
  \/ IntApbeOn \/ IntApbeReset \/ ResetOn \/ IntConnected \/ IntDisconnected
  \/ \E p \in {0, 1} : AttachWork(p)
  \/ Isr
  \/ ApbePowerStore

DSpec == DInit /\ [][DNext]_dvars

-----------------------------------------------------------------------------
(* Properties.                                                             *)

\* Interrupts are ignored unless the APBA is on (spec.md section 5): the
\* APBE is powered and the transport attached only while desired_on is
\* set, so no APBE_ON, APBE_RESET or CONNECTED work item acts after
\* apba_disable; and a wake apba_isr forwards finds the transport open.
InterruptsIgnoredUnlessOn ==
  /\ apbeOn \/ attached => desiredOn
  /\ woke

=============================================================================
