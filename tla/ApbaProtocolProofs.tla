------------------------- MODULE ApbaProtocolProofs -------------------------
(***************************************************************************)
(* Proofs about the request/acknowledge protocol of ApbaProtocol, for any *)
(* number of callers, modes, rates and queued frames, lossy or not:       *)
(* apba_baud_store never leaves the transmit path locked behind it, and   *)
(* the host only ever switches its UART to the rate the APBA is at.       *)
(***************************************************************************)
EXTENDS ApbaProtocol, SequenceTheorems, TLAPS

USE ProtocolAssumption

\* A frame whose value fits its type: MODE_REQUEST/RESPONSE carries a
\* mode, BAUD_REQUEST/ACK a rate.
WellFormed(m) ==
  /\ m.type = "mode" => m.val \in Modes
  /\ m.type = "baud" => m.val \in Bauds

WFFrames == {m \in Frames : WellFormed(m)}

Labels == {"Idle", "ModeWait", "BaudSend", "BaudLock", "BaudWait", "LogWait"}

\* The value a call in flight writes fits the call.
ArgsOK ==
  \A u \in Users :
    /\ pc[u] \in {"BaudSend", "BaudLock", "BaudWait"} => arg[u] \in Bauds
    /\ pc[u] = "ModeWait" => arg[u] \in Modes

\* The transmit path is locked only while some apba_baud_store waits for
\* its BAUD_ACK (the lock is taken just before the wait and released on
\* both of its outcomes).
LockHeld == txLocked => \E u \in Users : pc[u] = "BaudWait"

PInv ==
  /\ TypeOK
  /\ ArgsOK
  /\ toApba \in Seq(WFFrames) /\ toHost \in Seq(WFFrames)
  /\ LockHeld

-----------------------------------------------------------------------------
(* Frames.                                                                 *)

\* Appending a well-formed frame keeps a queue of well-formed frames.
LEMMA AppendWF ==
  ASSUME NEW q \in Seq(WFFrames), NEW m \in WFFrames
  PROVE  Append(q, m) \in Seq(WFFrames)
BY AppendProperties

\* Dropping the oldest frame keeps a queue of well-formed frames, and the
\* oldest frame is well formed.
LEMMA TailWF ==
  ASSUME NEW q \in Seq(WFFrames), q # << >>
  PROVE  Tail(q) \in Seq(WFFrames) /\ Head(q) \in WFFrames
BY HeadTailProperties

\* A queue of well-formed frames is a queue of frames.
LEMMA WFSeq ==
  ASSUME NEW q \in Seq(WFFrames)
  PROVE  q \in Seq(Frames)
<1>1. WFFrames \subseteq Frames
  BY DEF WFFrames
<1>2. QED
  BY <1>1, SeqDef

\* The frame mods_uart_apba_send queues.
LEMMA SendWF ==
  ASSUME PInv, NEW t \in Kinds, NEW v \in Modes \cup Bauds \cup {NoArg},
         t = "mode" => v \in Modes, t = "baud" => v \in Bauds,
         Send(t, v)
  PROVE  toApba' \in Seq(WFFrames)
<1>1. [type |-> t, val |-> v, acc |-> FALSE, rate |-> hostBaud] \in WFFrames
  BY DEF PInv, TypeOK, WFFrames, Frames, WellFormed
<1>2. QED
  BY <1>1, AppendWF DEF Send, PInv

\* A caller's step away from a label other than BaudWait, with the lock
\* left alone, keeps LockHeld: the waiting caller is someone else.
LEMMA LockFrame ==
  ASSUME PInv, NEW u \in Users, pc[u] # "BaudWait", NEW l \in Labels,
         pc' = [pc EXCEPT ![u] = l], txLocked' = txLocked
  PROVE  LockHeld'
<1>1. SUFFICES ASSUME txLocked PROVE \E w \in Users : pc'[w] = "BaudWait"
  BY DEF LockHeld
<1>2. PICK w \in Users : pc[w] = "BaudWait"
  BY <1>1 DEF PInv, LockHeld
<1>3. w # u /\ pc'[w] = "BaudWait"
  BY <1>2 DEF PInv, TypeOK
<1>4. QED
  BY <1>3

-----------------------------------------------------------------------------
(* The sysfs calls.                                                        *)

\* apba_mode_store: sends MODE_REQUEST with a mode, or returns at once.
LEMMA ModeStorePInv ==
  ASSUME PInv, NEW u \in Users, ModeStore(u)
  PROVE  PInv'
<1>1. CASE \E v \in Modes : Send("mode", v) /\ arg' = [arg EXCEPT ![u] = v]
                            /\ Goto(u, "ModeWait")
  <2>1. PICK v \in Modes : Send("mode", v) /\ arg' = [arg EXCEPT ![u] = v]
                           /\ Goto(u, "ModeWait")
    BY <1>1
  <2>2. toApba' \in Seq(WFFrames)
    BY <2>1, SendWF DEF Kinds
  <2>3. TypeOK' /\ ArgsOK'
    BY <2>1, <2>2, WFSeq DEF ModeStore, Goto, PInv, TypeOK, ArgsOK, host, apba, Kinds
  <2>4. LockHeld'
    BY <2>1, LockFrame DEF ModeStore, Goto, Labels, host
  <2>5. QED
    BY <2>2, <2>3, <2>4 DEF ModeStore, PInv
<1>2. CASE UNCHANGED <<pc, arg, toApba>>
  BY <1>2 DEF ModeStore, PInv, TypeOK, ArgsOK, LockHeld, host, apba
<1>3. QED
  BY <1>1, <1>2 DEF ModeStore

\* The mode wait ends, acknowledged or timed out.
LEMMA ModeWaitPInv ==
  ASSUME PInv, NEW u \in Users, ModeAcked(u) \/ ModeTimeout(u)
  PROVE  PInv'
<1>1. pc[u] = "ModeWait" /\ arg[u] \in Modes
  BY DEF ModeAcked, ModeTimeout, PInv, ArgsOK
<1>2. TypeOK' /\ ArgsOK'
  BY <1>1 DEF ModeAcked, ModeTimeout, Take, Goto, PInv, TypeOK, ArgsOK, host, apba, Kinds
<1>3. LockHeld'
  BY <1>1, LockFrame DEF ModeAcked, ModeTimeout, Goto, Labels, host
<1>4. QED
  BY <1>2, <1>3 DEF ModeAcked, ModeTimeout, PInv

\* apba_baud_store takes a rate.
LEMMA BaudStorePInv ==
  ASSUME PInv, NEW u \in Users, BaudStore(u)
  PROVE  PInv'
<1>1. pc[u] = "Idle" /\ arg' \in [Users -> Modes \cup Bauds \cup {NoArg}]
      /\ arg'[u] \in Bauds
  BY DEF BaudStore, PInv, TypeOK
<1>2. TypeOK' /\ ArgsOK'
  BY <1>1 DEF BaudStore, Goto, PInv, TypeOK, ArgsOK, host, apba, Kinds
<1>3. LockHeld'
  BY <1>1, LockFrame DEF BaudStore, Goto, Labels, host
<1>4. QED
  BY <1>2, <1>3 DEF BaudStore, PInv

\* It sends BAUD_REQUEST, or returns -EIO.
LEMMA BaudSendPInv ==
  ASSUME PInv, NEW u \in Users, BaudSend(u)
  PROVE  PInv'
<1>1. pc[u] = "BaudSend" /\ arg[u] \in Bauds
  BY DEF BaudSend, PInv, ArgsOK
<1>2. toApba' \in Seq(WFFrames)
  <2>1. CASE Send("baud", arg[u]) /\ Goto(u, "BaudLock")
    BY <1>1, <2>1, SendWF DEF Kinds
  <2>2. CASE Goto(u, "Idle") /\ UNCHANGED toApba
    BY <2>2 DEF PInv
  <2>3. QED
    BY <2>1, <2>2 DEF BaudSend
<1>3. TypeOK' /\ ArgsOK'
  BY <1>1, <1>2, WFSeq DEF BaudSend, Goto, PInv, TypeOK, ArgsOK, host, apba, Kinds
<1>4. LockHeld'
  BY <1>1, LockFrame DEF BaudSend, Goto, Labels, host
<1>5. QED
  BY <1>2, <1>3, <1>4 DEF BaudSend, PInv

\* It locks the transmit path and starts waiting.
LEMMA BaudLockPInv ==
  ASSUME PInv, NEW u \in Users, BaudLock(u)
  PROVE  PInv'
<1>1. TypeOK' /\ ArgsOK'
  BY DEF BaudLock, Goto, PInv, TypeOK, ArgsOK, apba, Kinds
<1>2. pc'[u] = "BaudWait"
  BY DEF BaudLock, Goto, PInv, TypeOK
<1>3. QED
  BY <1>1, <1>2 DEF BaudLock, PInv, LockHeld

\* The baud wait ends, acknowledged or timed out: both unlock.
LEMMA BaudWaitPInv ==
  ASSUME PInv, NEW u \in Users, BaudAcked(u) \/ BaudTimeout(u)
  PROVE  PInv'
<1>1. TypeOK' /\ ArgsOK'
  <2>1. CASE BaudAcked(u)
    <3>1. done' \in [Kinds -> Nat]
      BY <2>1 DEF BaudAcked, Take, PInv, TypeOK, Kinds
    <3>2. TypeOK'
      BY <2>1, <3>1 DEF BaudAcked, Goto, PInv, TypeOK, apba
    <3>3. ArgsOK'
      BY <2>1 DEF BaudAcked, Goto, PInv, TypeOK, ArgsOK
    <3>4. QED
      BY <3>2, <3>3
  <2>2. CASE BaudTimeout(u)
    BY <2>2 DEF BaudTimeout, Goto, PInv, TypeOK, ArgsOK, apba, host
  <2>3. QED
    BY <2>1, <2>2
<1>2. ~txLocked'
  BY DEF BaudAcked, BaudTimeout
<1>3. QED
  BY <1>1, <1>2 DEF BaudAcked, BaudTimeout, PInv, LockHeld

\* apba_log_show sends LOG_REQUEST, or returns 0 bytes.
LEMMA LogShowPInv ==
  ASSUME PInv, NEW u \in Users, LogShow(u)
  PROVE  PInv'
<1>1. pc[u] = "Idle"
  BY DEF LogShow
<1>2. toApba' \in Seq(WFFrames)
  <2>1. CASE Send("log", NoArg) /\ Goto(u, "LogWait")
    BY <2>1, SendWF DEF Kinds, NoArg
  <2>2. CASE UNCHANGED <<pc, toApba>>
    BY <2>2 DEF PInv
  <2>3. QED
    BY <2>1, <2>2 DEF LogShow
<1>3. TypeOK' /\ ArgsOK'
  BY <1>1, <1>2, WFSeq DEF LogShow, Goto, PInv, TypeOK, ArgsOK, host, apba, Kinds
<1>4. LockHeld'
  <2>1. CASE Send("log", NoArg) /\ Goto(u, "LogWait")
    BY <1>1, <2>1, LockFrame DEF LogShow, Goto, Labels, host
  <2>2. CASE UNCHANGED <<pc, toApba>>
    BY <2>2 DEF LogShow, PInv, LockHeld, host
  <2>3. QED
    BY <2>1, <2>2 DEF LogShow
<1>5. QED
  BY <1>2, <1>3, <1>4 DEF LogShow, PInv

\* The log wait ends, with or without the completion.
LEMMA LogDonePInv ==
  ASSUME PInv, NEW u \in Users, LogDone(u)
  PROVE  PInv'
<1>1. pc[u] = "LogWait"
  BY DEF LogDone
<1>2. TypeOK' /\ ArgsOK'
  BY <1>1 DEF LogDone, Take, Goto, PInv, TypeOK, ArgsOK, host, apba, Kinds
<1>3. LockHeld'
  BY <1>1, LockFrame DEF LogDone, Goto, Labels, host
<1>4. QED
  BY <1>2, <1>3 DEF LogDone, PInv

-----------------------------------------------------------------------------
(* The APBA, the receive path and the wire.                                *)

\* The answers the APBA queues are well formed: it echoes the value of a
\* well-formed request.
LEMMA ReplyWF ==
  ASSUME PInv, NEW t \in Kinds, NEW v \in Modes \cup Bauds \cup {NoArg},
         NEW acc \in BOOLEAN,
         t = "mode" => v \in Modes, t = "baud" => v \in Bauds,
         Reply(t, v, acc)
  PROVE  toHost' \in Seq(WFFrames)
<1>1. [type |-> t, val |-> v, acc |-> acc, rate |-> apbaBaud] \in WFFrames
  BY DEF PInv, TypeOK, WFFrames, Frames, WellFormed
<1>2. QED
  BY <1>1, AppendWF DEF Reply, PInv

\* The APBA takes the oldest frame and, if it heard it, answers and applies it.
LEMMA ApbaRecvPInv ==
  ASSUME PInv, ApbaRecv
  PROVE  PInv'
<1>. DEFINE m == Head(toApba)
<1>1. m \in WFFrames /\ toApba' \in Seq(WFFrames)
  BY TailWF DEF ApbaRecv, PInv
<1>2. m.type \in Kinds /\ m.val \in Modes \cup Bauds \cup {NoArg}
      /\ (m.type = "mode" => m.val \in Modes) /\ (m.type = "baud" => m.val \in Bauds)
  BY <1>1 DEF WFFrames, Frames, WellFormed
<1>3. toHost' \in Seq(WFFrames) /\ apbaMode' \in Modes /\ apbaBaud' \in Bauds
  <2>1. CASE m.rate # apbaBaud
    BY <2>1 DEF ApbaRecv, PInv, TypeOK, apba
  <2>2. CASE m.rate = apbaBaud /\ m.type = "mode"
    <3>1. Reply("mode", m.val, FALSE) /\ apbaMode' = m.val /\ apbaBaud' = apbaBaud
      BY <2>2 DEF ApbaRecv
    <3>2. QED
      BY <1>2, <2>2, <3>1, ReplyWF DEF PInv, TypeOK, Kinds
  <2>3. CASE m.rate = apbaBaud /\ m.type = "log"
    <3>1. Reply("log", NoArg, FALSE) /\ UNCHANGED apba
      BY <2>3 DEF ApbaRecv
    <3>2. QED
      BY <2>3, <3>1, ReplyWF DEF PInv, TypeOK, Kinds, apba
  <2>4. CASE m.rate = apbaBaud /\ m.type = "baud"
    <3>1. PICK acc \in BOOLEAN : /\ Reply("baud", m.val, acc)
                                 /\ apbaBaud' = IF acc THEN m.val ELSE apbaBaud
                                 /\ UNCHANGED apbaMode
      BY <2>4 DEF ApbaRecv
    <3>2. QED
      BY <1>2, <2>4, <3>1, ReplyWF DEF PInv, TypeOK, Kinds
  <2>5. QED
    BY <1>2, <2>1, <2>2, <2>3, <2>4 DEF Kinds
<1>4. QED
  BY <1>1, <1>3, WFSeq DEF ApbaRecv, PInv, TypeOK, ArgsOK, LockHeld, host

\* apba_handle_message takes the oldest answer and, if it heard it,
\* completes the waiter of its type (a BAUD_ACK also sets the rate).
LEMMA HostRecvPInv ==
  ASSUME PInv, HostRecv
  PROVE  PInv'
<1>. DEFINE m == Head(toHost)
<1>1. m \in WFFrames /\ toHost' \in Seq(WFFrames)
  BY TailWF DEF HostRecv, PInv
<1>2. m.type \in Kinds /\ (m.type = "baud" => m.val \in Bauds)
  BY <1>1 DEF WFFrames, Frames, WellFormed
<1>3. done' \in [Kinds -> Nat] /\ hostBaud' \in Bauds
  <2>1. CASE m.rate # hostBaud
    BY <2>1 DEF HostRecv, PInv, TypeOK
  <2>2. CASE m.rate = hostBaud /\ m.type = "baud"
    BY <1>2, <2>2 DEF HostRecv, HandleBaudAck, Complete, PInv, TypeOK
  <2>3. CASE m.rate = hostBaud /\ m.type # "baud"
    BY <1>2, <2>3 DEF HostRecv, Complete, PInv, TypeOK
  <2>4. QED
    BY <2>1, <2>2, <2>3
<1>4. QED
  BY <1>1, <1>3, WFSeq DEF HostRecv, PInv, TypeOK, ArgsOK, LockHeld, apba

\* The UART loses the oldest frame of one direction.
LEMMA LosePInv ==
  ASSUME PInv, Lose
  PROVE  PInv'
<1>1. toApba' \in Seq(WFFrames) /\ toHost' \in Seq(WFFrames)
  BY TailWF DEF Lose, PInv
<1>2. QED
  BY <1>1, WFSeq DEF Lose, PInv, TypeOK, ArgsOK, LockHeld, host, apba

-----------------------------------------------------------------------------
(* The invariant.                                                          *)

\* Every step keeps PInv.
LEMMA NextPInv ==
  ASSUME PInv, [Next]_vars
  PROVE  PInv'
<1>1. CASE \E u \in Users : ModeStore(u) \/ BaudStore(u) \/ LogShow(u) \/ Step(u)
  <2>1. PICK u \in Users : ModeStore(u) \/ BaudStore(u) \/ LogShow(u) \/ Step(u)
    BY <1>1
  <2>2. QED
    BY <2>1, ModeStorePInv, BaudStorePInv, LogShowPInv, ModeWaitPInv,
       BaudSendPInv, BaudLockPInv, BaudWaitPInv, LogDonePInv DEF Step
<1>2. CASE UNCHANGED vars
  BY <1>2 DEF vars, PInv, TypeOK, ArgsOK, LockHeld
<1>3. QED
  BY <1>1, <1>2, ApbaRecvPInv, HostRecvPInv, LosePInv DEF Next

\* The probe state satisfies PInv.
LEMMA InitPInv == Init => PInv
<1>1. SUFFICES ASSUME Init PROVE PInv
  OBVIOUS
<1>2. << >> \in Seq(WFFrames) /\ << >> \in Seq(Frames)
  BY EmptySeq
<1>3. TypeOK
  <2>1. pc \in [Users -> Labels] /\ arg \in [Users -> Modes \cup Bauds \cup {NoArg}]
    BY <1>1 DEF Init, Labels
  <2>2. done \in [Kinds -> Nat]
    BY <1>1 DEF Init
  <2>3. writes \in 0..MaxWrites
    BY <1>1 DEF Init
  <2>4. QED
    BY <1>1, <1>2, <2>1, <2>2, <2>3 DEF Init, TypeOK, Labels
<1>4. ArgsOK /\ LockHeld
  BY <1>1 DEF Init, ArgsOK, LockHeld
<1>5. QED
  BY <1>1, <1>2, <1>3, <1>4 DEF Init, PInv

\* apba_baud_store releases mods_uart_lock_tx on both of its outcomes: once
\* no sysfs call is in flight the transmit path is unlocked, so no later
\* request is refused for ever.
THEOREM TxUnlocked == Spec => []TxUnlockedAtRest
<1>1. PInv => TxUnlockedAtRest
  BY DEF PInv, LockHeld, TxUnlockedAtRest, Quiescent
<1>2. QED
  BY <1>1, InitPInv, NextPInv, PTL DEF Spec

-----------------------------------------------------------------------------
(* Rate switches.  A BAUD_ACK that makes the host switch is a real switch: *)
(* accepted, heard, and naming a rate the host is not at.  Three facts     *)
(* make the host switch only to the APBA's rate: such an ack carries the   *)
(* rate the APBA is at and is the newest frame towards the host; while     *)
(* the APBA is ahead it hears nothing queued towards it; and frames at the *)
(* host's rate are the newest towards the APBA.                            *)

RealSwitch(m, hb) == m.type = "baud" /\ m.acc /\ m.rate = hb /\ m.val # hb

\* Towards the host q, with the host at hb and the APBA at ab.
AckOK(q, hb, ab) ==
  \A i \in 1..Len(q) : RealSwitch(q[i], hb) => q[i].val = ab /\ i = Len(q)

\* Towards the APBA q.
DeafOK(q, hb, ab) == ab # hb => \A i \in 1..Len(q) : q[i].rate # ab

LastOK(q, hb) ==
  \A i, j \in 1..Len(q) : i < j /\ q[i].rate = hb => q[j].rate = hb

AckCarriesApbaRate == AckOK(toHost, hostBaud, apbaBaud)
ApbaAheadDeaf == DeafOK(toApba, hostBaud, apbaBaud)
CurrentRateLast == LastOK(toApba, hostBaud)

SInv == AckCarriesApbaRate /\ ApbaAheadDeaf /\ CurrentRateLast

\* Dropping the oldest frame keeps each of the three facts.
LEMMA TailOK ==
  ASSUME NEW S, NEW q \in Seq(S), q # << >>, NEW hb, NEW ab
  PROVE  /\ AckOK(q, hb, ab) => AckOK(Tail(q), hb, ab)
         /\ DeafOK(q, hb, ab) => DeafOK(Tail(q), hb, ab)
         /\ LastOK(q, hb) => LastOK(Tail(q), hb)
<1>1. Len(Tail(q)) = Len(q) - 1 /\ Len(q) \in Nat \ {0}
      /\ \A i \in 1..Len(Tail(q)) : Tail(q)[i] = q[i + 1]
  BY HeadTailProperties
<1>2. AckOK(q, hb, ab) => AckOK(Tail(q), hb, ab)
  <2>1. SUFFICES ASSUME AckOK(q, hb, ab), NEW i \in 1..Len(Tail(q)),
                        RealSwitch(Tail(q)[i], hb)
                 PROVE  Tail(q)[i].val = ab /\ i = Len(Tail(q))
    BY DEF AckOK
  <2>2. RealSwitch(q[i + 1], hb) /\ i + 1 \in 1..Len(q)
    BY <1>1, <2>1
  <2>3. q[i + 1].val = ab /\ i + 1 = Len(q)
    BY <2>1, <2>2 DEF AckOK
  <2>4. i \in Nat /\ Tail(q)[i] = q[i + 1]
    BY <1>1, <2>1
  <2>5. i = Len(q) - 1
    BY <2>3, <2>4
  <2>7. i = Len(Tail(q))
    BY <1>1, <2>5
  <2>6. QED
    BY <2>3, <2>4, <2>7
<1>3. DeafOK(q, hb, ab) => DeafOK(Tail(q), hb, ab)
  BY <1>1 DEF DeafOK
<1>4. LastOK(q, hb) => LastOK(Tail(q), hb)
  BY <1>1 DEF LastOK
<1>5. QED
  BY <1>2, <1>3, <1>4

\* mods_uart_apba_send queues at the host's rate: behind any frame at that
\* rate, and never at the rate of an APBA that is ahead.
LEMMA SendOK ==
  ASSUME NEW S, NEW q \in Seq(S), NEW hb, NEW ab, NEW f \in S, f.rate = hb,
         DeafOK(q, hb, ab), LastOK(q, hb)
  PROVE  DeafOK(Append(q, f), hb, ab) /\ LastOK(Append(q, f), hb)
<1>1. Len(Append(q, f)) = Len(q) + 1 /\ Append(q, f)[Len(q) + 1] = f
      /\ \A i \in 1..Len(q) : Append(q, f)[i] = q[i]
  BY AppendProperties
<1>2. QED
  BY <1>1 DEF DeafOK, LastOK

\* A step that queues a request keeps SInv.
LEMMA SendSInv ==
  ASSUME PInv, SInv, NEW t \in Kinds, NEW v \in Modes \cup Bauds \cup {NoArg},
         Send(t, v), UNCHANGED <<hostBaud, apbaBaud, toHost>>
  PROVE  SInv'
<1> DEFINE f == [type |-> t, val |-> v, acc |-> FALSE, rate |-> hostBaud]
<1>1. toApba' = Append(toApba, f) /\ f \in Frames /\ toApba \in Seq(Frames)
  BY DEF Send, PInv, TypeOK, Frames
<1>2. DeafOK(toApba', hostBaud, apbaBaud) /\ LastOK(toApba', hostBaud)
  BY <1>1, SendOK DEF SInv, ApbaAheadDeaf, CurrentRateLast
<1>3. QED
  BY <1>2 DEF SInv, AckCarriesApbaRate, ApbaAheadDeaf, CurrentRateLast

\* The APBA hears a frame only while it is at the host's rate; then every
\* frame towards it is at that rate and no ack towards the host is a real
\* switch, so the answer it queues last is the only one that can be, and
\* carries the rate it moves to.
LEMMA HeardOK ==
  ASSUME NEW S, NEW qa \in Seq(S), qa # << >>, NEW qh \in Seq(S),
         NEW hb, NEW ab, NEW ab2, NEW r \in S,
         Head(qa).rate = ab, r.rate = ab,
         AckOK(qh, hb, ab), DeafOK(qa, hb, ab), LastOK(qa, hb),
         RealSwitch(r, hb) => r.val = ab2
  PROVE  /\ AckOK(Append(qh, r), hb, ab2)
         /\ DeafOK(Tail(qa), hb, ab2) /\ LastOK(Tail(qa), hb)
<1>1. Len(qa) \in Nat \ {0} /\ Head(qa) = qa[1]
  BY EmptySeq, LenProperties
<1>2. ab = hb
  BY <1>1 DEF DeafOK
<1>3. \A j \in 1..Len(qa) : qa[j].rate = hb
  BY <1>1, <1>2 DEF LastOK
<1>4. \A i \in 1..Len(qh) : ~RealSwitch(qh[i], hb)
  BY <1>2 DEF AckOK, RealSwitch
<1>5. AckOK(Append(qh, r), hb, ab2)
  <2>1. Len(Append(qh, r)) = Len(qh) + 1 /\ Append(qh, r)[Len(qh) + 1] = r
        /\ \A i \in 1..Len(qh) : Append(qh, r)[i] = qh[i]
    BY AppendProperties
  <2>2. QED
    BY <1>4, <2>1 DEF AckOK
<1>6. DeafOK(Tail(qa), hb, ab2)
  <2>1. \A i \in 1..Len(Tail(qa)) : Tail(qa)[i] = qa[i + 1]
        /\ Len(Tail(qa)) = Len(qa) - 1
    BY HeadTailProperties
  <2>2. QED
    BY <1>1, <1>3, <2>1 DEF DeafOK
<1>7. QED
  BY <1>5, <1>6, TailOK

\* A real switch at the head of the host's queue is the last frame there,
\* names the APBA's rate, and the APBA, ahead until then, heard nothing
\* queued towards it: after the switch all three facts hold vacuously.
LEMMA SwitchOK ==
  ASSUME NEW S, NEW qh \in Seq(S), qh # << >>, NEW qa \in Seq(S),
         NEW hb, NEW ab, RealSwitch(Head(qh), hb),
         AckOK(qh, hb, ab), DeafOK(qa, hb, ab)
  PROVE  /\ Head(qh).val = ab
         /\ AckOK(Tail(qh), ab, ab) /\ DeafOK(qa, ab, ab) /\ LastOK(qa, ab)
<1>1. Len(qh) \in Nat \ {0} /\ Head(qh) = qh[1]
  BY EmptySeq, LenProperties
<1>2. Head(qh).val = ab /\ Len(qh) = 1
  <2>1. RealSwitch(qh[1], hb) /\ 1 \in 1..Len(qh)
    BY <1>1
  <2>2. qh[1].val = ab /\ 1 = Len(qh)
    BY <2>1 DEF AckOK
  <2>3. QED
    BY <1>1, <2>2
<1>3. Len(Tail(qh)) = 0
  <2>1. Len(Tail(qh)) = Len(qh) - 1
    BY HeadTailProperties
  <2>2. QED
    BY <1>2, <2>1
<1>4. AckOK(Tail(qh), ab, ab)
  <2>1. SUFFICES ASSUME NEW i \in 1..Len(Tail(qh)) PROVE FALSE
    BY DEF AckOK
  <2>2. i \in 1..0
    BY <1>3, <2>1
  <2>3. QED
    BY <2>2
<1>5. ab # hb
  BY <1>2 DEF RealSwitch
<1>6. LastOK(qa, ab)
  BY <1>5 DEF DeafOK, LastOK
<1>7. QED
  BY <1>2, <1>4, <1>6 DEF DeafOK

\* A sysfs call's step leaves both rates and the queue towards the host
\* alone, and at most queues one request at the host's rate.
LEMMA UserSInv ==
  ASSUME PInv, SInv, NEW u \in Users,
         ModeStore(u) \/ BaudStore(u) \/ LogShow(u) \/ Step(u)
  PROVE  SInv' /\ hostBaud' = hostBaud
<1>1. UNCHANGED <<hostBaud, apbaBaud, toHost>>
  BY DEF ModeStore, BaudStore, LogShow, Step, ModeAcked, ModeTimeout, BaudSend,
         BaudLock, BaudAcked, BaudTimeout, LogDone, host, apba
<1>2. UNCHANGED toApba
      \/ \E t \in Kinds, v \in Modes \cup Bauds \cup {NoArg} : Send(t, v)
  BY DEF ModeStore, BaudStore, LogShow, Step, ModeAcked, ModeTimeout, BaudSend,
         BaudLock, BaudAcked, BaudTimeout, LogDone, Kinds, PInv, TypeOK
<1>3. SInv'
  <2>1. CASE UNCHANGED toApba
    BY <1>1, <2>1 DEF SInv, AckCarriesApbaRate, ApbaAheadDeaf, CurrentRateLast
  <2>2. CASE \E t \in Kinds, v \in Modes \cup Bauds \cup {NoArg} : Send(t, v)
    BY <1>1, <2>2, SendSInv
  <2>3. QED
    BY <1>2, <2>1, <2>2
<1>4. QED
  BY <1>1, <1>3

\* The APBA's step keeps SInv.
LEMMA ApbaRecvSInv ==
  ASSUME PInv, SInv, ApbaRecv
  PROVE  SInv'
<1>. DEFINE m == Head(toApba)
<1>1. /\ toApba \in Seq(Frames) /\ toHost \in Seq(Frames) /\ toApba # << >>
      /\ toApba' = Tail(toApba) /\ hostBaud' = hostBaud
  BY DEF ApbaRecv, PInv, TypeOK, host
<1>2. m \in WFFrames
  BY TailWF DEF PInv, ApbaRecv
<1>3. m.type \in Kinds /\ m.val \in Modes \cup Bauds \cup {NoArg}
      /\ (m.type = "mode" => m.val \in Modes) /\ (m.type = "baud" => m.val \in Bauds)
      /\ apbaBaud \in Bauds
  BY <1>2 DEF WFFrames, Frames, WellFormed, PInv, TypeOK
<1>4. CASE m.rate # apbaBaud
  <2>1. UNCHANGED <<toHost, apbaBaud>>
    BY <1>4 DEF ApbaRecv, apba
  <2>2. QED
    BY <1>1, <2>1, TailOK DEF SInv, AckCarriesApbaRate, ApbaAheadDeaf, CurrentRateLast
<1>5. CASE m.rate = apbaBaud
  <2>1. \E r \in Frames : /\ toHost' = Append(toHost, r) /\ r.rate = apbaBaud
                          /\ RealSwitch(r, hostBaud) => r.val = apbaBaud'
    <3>1. CASE m.type = "mode"
      <4>1. toHost' = Append(toHost, [type |-> "mode", val |-> m.val, acc |-> FALSE,
                                      rate |-> apbaBaud])
        BY <1>5, <3>1 DEF ApbaRecv, Reply
      <4>2. [type |-> "mode", val |-> m.val, acc |-> FALSE,
             rate |-> apbaBaud] \in Frames
        BY <1>3 DEF Frames, Kinds
      <4>3. QED
        BY <1>3, <3>1, <4>1, <4>2 DEF RealSwitch
    <3>2. CASE m.type = "log"
      <4>1. toHost' = Append(toHost, [type |-> "log", val |-> NoArg, acc |-> FALSE,
                                      rate |-> apbaBaud])
        BY <1>5, <3>2 DEF ApbaRecv, Reply
      <4>2. [type |-> "log", val |-> NoArg, acc |-> FALSE,
             rate |-> apbaBaud] \in Frames
        BY <1>3 DEF Frames, Kinds
      <4>3. QED
        BY <1>3, <4>1, <4>2 DEF RealSwitch
    <3>3. CASE m.type = "baud"
      <4>1. PICK acc \in BOOLEAN :
              /\ toHost' = Append(toHost, [type |-> "baud", val |-> m.val, acc |-> acc,
                                           rate |-> apbaBaud])
              /\ apbaBaud' = IF acc THEN m.val ELSE apbaBaud
        BY <1>5, <3>3 DEF ApbaRecv, Reply
      <4>2. [type |-> "baud", val |-> m.val, acc |-> acc,
             rate |-> apbaBaud] \in Frames
        BY <1>3 DEF Frames, Kinds
      <4>3. QED
        BY <1>3, <3>3, <4>1, <4>2 DEF RealSwitch
    <3>4. QED
      BY <1>3, <3>1, <3>2, <3>3 DEF Kinds
  <2>2. PICK r \in Frames : /\ toHost' = Append(toHost, r) /\ r.rate = apbaBaud
                            /\ RealSwitch(r, hostBaud) => r.val = apbaBaud'
    BY <2>1
  <2>3. /\ AckOK(Append(toHost, r), hostBaud, apbaBaud')
        /\ DeafOK(Tail(toApba), hostBaud, apbaBaud') /\ LastOK(Tail(toApba), hostBaud)
    BY <1>1, <1>5, <2>2, HeardOK
       DEF SInv, AckCarriesApbaRate, ApbaAheadDeaf, CurrentRateLast
  <2>4. QED
    BY <1>1, <2>2, <2>3 DEF SInv, AckCarriesApbaRate, ApbaAheadDeaf, CurrentRateLast
<1>6. QED
  BY <1>4, <1>5

\* apba_handle_message changes the host's rate only on a real switch, to
\* the rate the ack names.
LEMMA HostRecvCases ==
  ASSUME PInv, HostRecv
  PROVE  \/ hostBaud' = hostBaud
         \/ RealSwitch(Head(toHost), hostBaud) /\ hostBaud' = Head(toHost).val
<1>. DEFINE m == Head(toHost)
<1>1. CASE m.rate = hostBaud /\ m.type = "baud"
  BY <1>1 DEF HostRecv, HandleBaudAck, RealSwitch
<1>2. CASE ~(m.rate = hostBaud /\ m.type = "baud")
  BY <1>2 DEF HostRecv
<1>3. QED
  BY <1>1, <1>2

\* The host's step keeps SInv, and a switch goes to the APBA's rate.
LEMMA HostRecvSInv ==
  ASSUME PInv, SInv, HostRecv
  PROVE  SInv' /\ (hostBaud' # hostBaud => hostBaud' = apbaBaud)
<1>1. /\ toApba \in Seq(Frames) /\ toHost \in Seq(Frames) /\ toHost # << >>
      /\ toHost' = Tail(toHost) /\ UNCHANGED <<toApba, apbaBaud>>
  BY DEF HostRecv, PInv, TypeOK, apba
<1>2. CASE hostBaud' = hostBaud
  BY <1>1, <1>2, TailOK DEF SInv, AckCarriesApbaRate, ApbaAheadDeaf, CurrentRateLast
<1>3. CASE RealSwitch(Head(toHost), hostBaud) /\ hostBaud' = Head(toHost).val
  <2>1. /\ Head(toHost).val = apbaBaud
        /\ AckOK(Tail(toHost), apbaBaud, apbaBaud)
        /\ DeafOK(toApba, apbaBaud, apbaBaud) /\ LastOK(toApba, apbaBaud)
    BY <1>1, <1>3, SwitchOK DEF SInv, AckCarriesApbaRate, ApbaAheadDeaf
  <2>2. QED
    BY <1>1, <1>3, <2>1 DEF SInv, AckCarriesApbaRate, ApbaAheadDeaf, CurrentRateLast
<1>4. QED
  BY <1>2, <1>3, HostRecvCases

\* Losing a frame keeps SInv.
LEMMA LoseSInv ==
  ASSUME PInv, SInv, Lose
  PROVE  SInv'
<1>1. toApba \in Seq(Frames) /\ toHost \in Seq(Frames)
      /\ UNCHANGED <<hostBaud, apbaBaud>>
  BY DEF Lose, PInv, TypeOK, host, apba
<1>2. CASE toApba # << >> /\ toApba' = Tail(toApba) /\ UNCHANGED toHost
  BY <1>1, <1>2, TailOK DEF SInv, AckCarriesApbaRate, ApbaAheadDeaf, CurrentRateLast
<1>3. CASE toHost # << >> /\ toHost' = Tail(toHost) /\ UNCHANGED toApba
  BY <1>1, <1>3, TailOK DEF SInv, AckCarriesApbaRate, ApbaAheadDeaf, CurrentRateLast
<1>4. QED
  BY <1>2, <1>3 DEF Lose

\* Every step keeps SInv, and every change of the host's rate is to the
\* APBA's rate.
LEMMA NextSInv ==
  ASSUME PInv, SInv, [Next]_vars
  PROVE  SInv' /\ (hostBaud' # hostBaud => hostBaud' = apbaBaud)
<1>1. CASE \E u \in Users : ModeStore(u) \/ BaudStore(u) \/ LogShow(u) \/ Step(u)
  BY <1>1, UserSInv
<1>2. CASE ApbaRecv
  BY <1>2, ApbaRecvSInv DEF ApbaRecv, host
<1>3. CASE Lose
  BY <1>3, LoseSInv DEF Lose, host
<1>4. CASE UNCHANGED vars
  BY <1>4 DEF vars, SInv, AckCarriesApbaRate, ApbaAheadDeaf, CurrentRateLast
<1>5. QED
  BY <1>1, <1>2, <1>3, <1>4, HostRecvSInv DEF Next

\* Both ends start at InitBaud with nothing on the wire.
LEMMA InitSInv == Init => SInv
BY DEF Init, SInv, AckCarriesApbaRate, ApbaAheadDeaf, CurrentRateLast, AckOK,
       DeafOK, LastOK

\* apba_handle_message moves the host's UART only to the rate the APBA is
\* at, for every number of callers and rates and whatever the UART loses
\* or the waits time out: the accepted test of the BAUD_ACK branch, and
\* the APBA sending its ack at the old rate and then hearing nothing at
\* the old rate, keep a stale or rejected ack from switching the host.
THEOREM BaudSwitch == Spec => HostSwitchesOnlyToApbaRate
<1>1. Init => PInv /\ SInv
  BY InitPInv, InitSInv
<1>2. PInv /\ SInv /\ [Next]_vars => (PInv /\ SInv)'
  BY NextPInv, NextSInv
<1>3. PInv /\ SInv /\ [Next]_vars
      => [hostBaud' # hostBaud => hostBaud' = apbaBaud]_vars
  BY NextSInv
<1>4. QED
  BY <1>1, <1>2, <1>3, PTL DEF Spec, HostSwitchesOnlyToApbaRate

=============================================================================
