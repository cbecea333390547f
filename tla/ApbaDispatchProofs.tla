------------------------- MODULE ApbaDispatchProofs -------------------------
(***************************************************************************)
(* Proofs about the interrupt-reason dispatcher composed with the power    *)
(* controller: under serialized power transitions the composed state      *)
(* stays well typed (no attach work item runs that was not queued); and,  *)
(* without the flash_enable attribute, the composition, apbe_power writes *)
(* included, still implements the abstract controller ApbaModes.          *)
(***************************************************************************)
EXTENDS ApbaDispatch, ApbaRefinementProofs

USE MaxIntsAssumption

-----------------------------------------------------------------------------
(* Type correctness of the composition.                                    *)

\* The dispatcher's own state is well typed.
DispatchOK ==
  /\ rxPc \in {"Idle", "ResetOn"}
  /\ attachQ \in [{0, 1} -> Nat]
  /\ ints \in 0..MaxInts
  /\ woke \in BOOLEAN

DInv == IInv /\ DispatchOK

\* A dispatcher step changes at most the APBE power and the attach state of
\* the power controller's variables, to Booleans: IInv does not care.
LEMMA ApbeFrame ==
  ASSUME IInv, apbeOn' \in BOOLEAN, attached' \in BOOLEAN,
         UNCHANGED <<pc, job, desiredOn, clk, powered, uartReg, uartOpen,
                     flashMode, populated, content, dworkPending, det,
                     lastNotify, ops>>
  PROVE  IInv'
<1>1. TypeOK'
  BY DEF IInv, TypeOK
<1>2. QED
  BY <1>1 DEF IInv, OneBusy, ClockInv, Quiescent, AllActorsOK, ActorOK

\* apba_notify_abpe_attach queues at most one more item.
LEMMA NotifyAttachOK ==
  ASSUME attachQ \in [{0, 1} -> Nat], NEW p \in {0, 1}, NotifyAttach(p)
  PROVE  attachQ' \in [{0, 1} -> Nat]
BY DEF NotifyAttach

\* Every step of the composition, with serialized power transitions, keeps DInv.
LEMMA DNextDInv ==
  ASSUME DInv, Serialized, [DNext]_dvars
  PROVE  DInv'
<1>1. CASE Next /\ UNCHANGED <<rxPc, attachQ, ints, woke>>
  BY <1>1, NextIInv DEF DInv, DispatchOK
<1>2. CASE IntApbeOn \/ IntApbeReset \/ ResetOn
  <2>1. IInv'
    <3>1. CASE IntApbeOn
      BY <3>1, ApbeFrame DEF DInv, IntApbeOn, Env, IInv, TypeOK
    <3>2. CASE IntApbeReset
      BY <3>2, ApbeFrame DEF DInv, IntApbeReset, Env, IInv, TypeOK
    <3>3. CASE ResetOn
      BY <3>3, ApbeFrame DEF DInv, ResetOn, Env, IInv, TypeOK
    <3>4. QED
      BY <1>2, <3>1, <3>2, <3>3
  <2>2. DispatchOK'
    BY <1>2 DEF DInv, DispatchOK, IntApbeOn, IntApbeReset, ResetOn, IntReason
  <2>3. QED
    BY <2>1, <2>2 DEF DInv
<1>3. CASE IntConnected \/ IntDisconnected
  <2>1. IInv'
    <3>1. CASE IntConnected
      <4>1. UNCHANGED vars
        BY <3>1 DEF IntConnected, PowerVars
      <4>2. QED
        BY <4>1, ApbeFrame DEF DInv, vars, IInv, TypeOK
    <3>2. CASE IntDisconnected
      BY <3>2, ApbeFrame DEF DInv, IntDisconnected, Env, IInv, TypeOK
    <3>3. QED
      BY <1>3, <3>1, <3>2
  <2>2. attachQ' \in [{0, 1} -> Nat]
    BY <1>3, NotifyAttachOK DEF DInv, DispatchOK, IntConnected, IntDisconnected
  <2>3. DispatchOK'
    BY <1>3, <2>2 DEF DInv, DispatchOK, IntConnected, IntDisconnected, IntReason
  <2>4. QED
    BY <2>1, <2>3 DEF DInv
<1>4. CASE \E p \in {0, 1} : AttachWork(p)
  <2>1. PICK p \in {0, 1} : AttachWork(p)
    BY <1>4
  <2>2. IInv'
    BY <2>1, ApbeFrame DEF DInv, AttachWork, Env, IInv, TypeOK
  <2>3. DispatchOK'
    BY <2>1 DEF DInv, DispatchOK, AttachWork
  <2>4. QED
    BY <2>2, <2>3 DEF DInv
<1>5. CASE Isr
  <2>1. UNCHANGED vars
    BY <1>5 DEF Isr, PowerVars
  <2>2. IInv'
    BY <2>1, ApbeFrame DEF DInv, vars, IInv, TypeOK
  <2>3. DispatchOK'
    BY <1>5 DEF Isr, DInv, DispatchOK, IInv, TypeOK
  <2>4. QED
    BY <2>2, <2>3 DEF DInv
<1>6. CASE ApbePowerStore
  <2>1. IInv'
    BY <1>6, ApbeFrame DEF DInv, ApbePowerStore, Env, IInv, TypeOK
  <2>2. DispatchOK'
    BY <1>6 DEF DInv, DispatchOK, ApbePowerStore
  <2>3. QED
    BY <2>1, <2>2 DEF DInv
<1>7. CASE UNCHANGED dvars
  <2>1. UNCHANGED vars
    BY <1>7 DEF dvars, vars
  <2>2. IInv'
    BY <2>1, ApbeFrame DEF DInv, vars, IInv, TypeOK
  <2>3. DispatchOK'
    BY <1>7 DEF dvars, DInv, DispatchOK
  <2>4. QED
    BY <2>2, <2>3 DEF DInv
<1>8. QED
  BY <1>1, <1>2, <1>3, <1>4, <1>5, <1>6, <1>7 DEF DNext

\* The probe state of the composition.
LEMMA DInitDInv == DInit => DInv
BY InitIInv DEF DInit, DInv, DispatchOK

\* Under serialized power transitions the composed driver state is well
\* typed: in particular apba_apbe_attach_work_func only runs for an item
\* apba_notify_abpe_attach queued, and the mclk count never underflows
\* while interrupt reasons and attach work interleave with power calls.
THEOREM DTypeCorrect == Serialized /\ DSpec => []DTypeOK
<1>1. SUFFICES ASSUME Serialized PROVE DSpec => []DTypeOK
  OBVIOUS
<1>2. DInv => DTypeOK
  BY DEF DInv, IInv, DispatchOK, DTypeOK
<1>3. QED
  BY <1>1, <1>2, DInitDInv, DNextDInv, PTL DEF DSpec

-----------------------------------------------------------------------------
(* The composition implements ApbaModes.                                   *)

\* The dispatcher's steps leave desired_on, the APBA's power and the flash
\* routing alone: apba_action_on_int_reason powers only the APBE, the
\* attach work only (de)attaches the transport, apba_isr only forwards,
\* apbe_power_store powers only the APBE.
LEMMA DispatchStutters ==
  ASSUME [DNext]_dvars, ~(Next /\ UNCHANGED <<rxPc, attachQ, ints, woke>>)
  PROVE  UNCHANGED <<pc, desiredOn, powered, flashMode>>
<1>1. CASE UNCHANGED dvars
  BY <1>1 DEF dvars, vars
<1>2. CASE IntApbeOn \/ IntApbeReset \/ ResetOn \/ IntDisconnected
           \/ ApbePowerStore
  BY <1>2 DEF IntApbeOn, IntApbeReset, ResetOn, IntDisconnected,
              ApbePowerStore
<1>3. CASE IntConnected \/ Isr \/ \E p \in {0, 1} : AttachWork(p)
  BY <1>3 DEF IntConnected, Isr, AttachWork, PowerVars, vars
<1>4. QED
  BY <1>1, <1>2, <1>3 DEF DNext

\* DInv and FlashHeld hold in every state of the serialized composition
\* without flash_enable writes.
LEMMA DNextRInv ==
  ASSUME DInv, FlashHeld, Serialized, ~FlashEnableAttr, [DNext]_dvars
  PROVE  DInv' /\ FlashHeld'
<1>1. DInv'
  BY DNextDInv
<1>2. FlashHeld'
  <2>1. CASE Next /\ UNCHANGED <<rxPc, attachQ, ints, woke>>
    BY <2>1, NextHeld DEF DInv, IInv
  <2>2. CASE ~(Next /\ UNCHANGED <<rxPc, attachQ, ints, woke>>)
    BY <2>2, DispatchStutters DEF FlashHeld
  <2>3. QED
    BY <2>1, <2>2
<1>3. QED
  BY <1>1, <1>2

\* Every step of the composition maps to a step of ApbaModes or a stutter.
LEMMA DNextAbs ==
  ASSUME DInv, FlashHeld, ~FlashEnableAttr, [DNext]_dvars
  PROVE  [Abs!Next]_Abs!vars
<1>1. CASE Next /\ UNCHANGED <<rxPc, attachQ, ints, woke>>
  BY <1>1, NextAbs DEF DInv, RInv
<1>2. CASE ~(Next /\ UNCHANGED <<rxPc, attachQ, ints, woke>>)
  BY <1>2, DispatchStutters DEF Abs!vars
<1>3. QED
  BY <1>1, <1>2

\* With power transitions serialized and no flash_enable writes, the power
\* controller still implements ApbaModes when INT_REASON messages, APBE
\* attach work and wake interrupts interleave with it: none of them
\* touches desired_on, the APBA's power or the flash routing.
THEOREM DRefinement == Serialized /\ ~FlashEnableAttr /\ DSpec => AbsSpec
<1>1. SUFFICES ASSUME Serialized, ~FlashEnableAttr PROVE DSpec => AbsSpec
  OBVIOUS
<1>2. DInit => DInv /\ FlashHeld
  BY DInitDInv DEF DInit, Init, FlashHeld
<1>3. DInit => Abs!Init
  BY DEF DInit, Init, Abs!Init
<1>4. DInv /\ FlashHeld /\ [DNext]_dvars => (DInv /\ FlashHeld)'
  BY <1>1, DNextRInv
<1>5. DInv /\ FlashHeld /\ [DNext]_dvars => [Abs!Next]_Abs!vars
  BY <1>1, DNextAbs
<1>6. QED
  BY <1>2, <1>3, <1>4, <1>5, PTL DEF DSpec, AbsSpec, Abs!Spec

=============================================================================
