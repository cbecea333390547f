----------------------------- MODULE ApbaProtocol -----------------------------
(***************************************************************************)
(* The request/acknowledge protocol between the host driver (src/apba.c)  *)
(* and the APBA over the mods UART: the sysfs writers apba_mode_store and *)
(* apba_baud_store and the reader apba_log_show, each of which sends a    *)
(* request, waits up to 1000 ms on a struct completion and then acts; the *)
(* receive path apba_handle_message, which completes those waits and     *)
(* applies an accepted BAUD_ACK; and the APBA firmware at the other end   *)
(* (not in this repository: modelled from the spec's description).       *)
(*                                                                         *)
(* A struct completion is its done counter: complete() adds one and a     *)
(* successful wait takes one; nothing reinitialises it.  The UART is two  *)
(* FIFO queues of frames, each sent at its sender's current rate; a frame *)
(* that arrives at a receiver using another rate is lost as noise.       *)
(***************************************************************************)
EXTENDS Naturals, Sequences

CONSTANTS
    Users,      \* threads writing/reading the sysfs attributes
    Modes,      \* mode values written to apba_mode
    Bauds,      \* baud rates written to apba_baud
    InitBaud,   \* the rate both sides start at
    MaxWrites,  \* bound on sysfs calls in a behaviour
    MaxWire,    \* bound on frames queued in one direction
    Lossy       \* whether the UART may lose a frame

ASSUME ProtocolAssumption ==
    /\ InitBaud \in Bauds
    /\ Modes \cap Bauds = {} /\ "none" \notin Modes \cup Bauds
    /\ MaxWrites \in Nat /\ MaxWire \in Nat
    /\ Lossy \in BOOLEAN

NoArg == "none"
Kinds == {"mode", "baud", "log"}

VARIABLES
    pc,        \* [Users -> label]: where each sysfs call is
    arg,       \* [Users -> value]: the value the call writes
    done,      \* [Kinds -> Nat]: mode_comp, baud_comp, comp done counters
    mode,      \* g_ctrl->mode
    hostBaud,  \* the rate of the host side of the mods UART
    txLocked,  \* mods_uart_lock_tx state
    toApba,    \* frames host -> APBA
    toHost,    \* frames APBA -> host
    apbaMode,  \* the mode the APBA applied
    apbaBaud,  \* the rate of the APBA side
    writes     \* sysfs calls so far

vars == <<pc, arg, done, mode, hostBaud, txLocked, toApba, toHost,
          apbaMode, apbaBaud, writes>>
host == <<mode, hostBaud, txLocked>>
apba == <<apbaMode, apbaBaud>>

Frames == [type : Kinds, val : Modes \cup Bauds \cup {NoArg},
           acc : BOOLEAN, rate : Bauds]

TypeOK ==
    /\ pc \in [Users -> {"Idle", "ModeWait", "BaudSend", "BaudLock", "BaudWait", "LogWait"}]
    /\ arg \in [Users -> Modes \cup Bauds \cup {NoArg}]
    /\ done \in [Kinds -> Nat]
    /\ mode \in Modes /\ apbaMode \in Modes
    /\ hostBaud \in Bauds /\ apbaBaud \in Bauds
    /\ txLocked \in BOOLEAN
    /\ toApba \in Seq(Frames) /\ toHost \in Seq(Frames)
    /\ writes \in 0..MaxWrites

Init ==
    /\ pc = [u \in Users |-> "Idle"]
    /\ arg = [u \in Users |-> NoArg]
    /\ done = [k \in Kinds |-> 0]
    /\ mode \in Modes
    /\ apbaMode = mode
    /\ hostBaud = InitBaud /\ apbaBaud = InitBaud
    /\ txLocked = FALSE
    /\ toApba = << >> /\ toHost = << >>
    /\ writes = 0

\* mods_uart_apba_send: queue a request frame at the host's rate.  While
\* the transmit path is locked the sender does not get through.
Send(type, v) ==
    /\ ~txLocked
    /\ Len(toApba) < MaxWire
    /\ toApba' = Append(toApba, [type |-> type, val |-> v, acc |-> FALSE, rate |-> hostBaud])

Goto(u, l) == pc' = [pc EXCEPT ![u] = l]

\* A successful wait_for_completion_timeout consumes one completion.
Take(k) ==
    /\ done[k] > 0
    /\ done' = [done EXCEPT ![k] = @ - 1]

-----------------------------------------------------------------------------
(* The sysfs entry points.                                                 *)

\* apba_mode_store: send MODE_REQUEST with the value and wait on mode_comp;
\* if the transport refuses the frame, return count at once.
ModeStore(u) ==
    /\ pc[u] = "Idle" /\ writes < MaxWrites
    /\ \/ /\ \E v \in Modes : Send("mode", v) /\ arg' = [arg EXCEPT ![u] = v]
          /\ Goto(u, "ModeWait")
       \/ UNCHANGED <<pc, arg, toApba>>
    /\ writes' = writes + 1
    /\ UNCHANGED <<done, host, toHost, apba>>

\* The mode completion fired: g_ctrl->mode = val.
ModeAcked(u) ==
    /\ pc[u] = "ModeWait"
    /\ Take("mode")
    /\ mode' = arg[u]
    /\ Goto(u, "Idle")
    /\ UNCHANGED <<arg, hostBaud, txLocked, toApba, toHost, apba, writes>>

\* The 1000 ms wait expired: return count, mode unchanged.
ModeTimeout(u) ==
    /\ pc[u] = "ModeWait"
    /\ Goto(u, "Idle")
    /\ UNCHANGED <<arg, done, host, toApba, toHost, apba, writes>>

\* apba_baud_store is called with a rate.
BaudStore(u) ==
    /\ pc[u] = "Idle" /\ writes < MaxWrites
    /\ \E b \in Bauds : arg' = [arg EXCEPT ![u] = b]
    /\ Goto(u, "BaudSend")
    /\ writes' = writes + 1
    /\ UNCHANGED <<done, host, toApba, toHost, apba>>

\* It sends BAUD_REQUEST at the current rate (a refused frame returns
\* -EIO) ...
BaudSend(u) ==
    /\ pc[u] = "BaudSend"
    /\ \/ Send("baud", arg[u]) /\ Goto(u, "BaudLock")
       \/ Goto(u, "Idle") /\ UNCHANGED toApba
    /\ UNCHANGED <<arg, done, host, toHost, apba, writes>>

\* ... and only then calls mods_uart_lock_tx(true).
BaudLock(u) ==
    /\ pc[u] = "BaudLock"
    /\ txLocked' = TRUE
    /\ Goto(u, "BaudWait")
    /\ UNCHANGED <<arg, done, mode, hostBaud, toApba, toHost, apba, writes>>

\* The baud completion fired: unlock and return count.
BaudAcked(u) ==
    /\ pc[u] = "BaudWait"
    /\ Take("baud")
    /\ txLocked' = FALSE
    /\ Goto(u, "Idle")
    /\ UNCHANGED <<arg, mode, hostBaud, toApba, toHost, apba, writes>>

\* Mutant: the timeout path returns -EAGAIN without unlocking.
BaudTimeoutKeepLock(u) ==
    /\ pc[u] = "BaudWait"
    /\ Goto(u, "Idle")
    /\ UNCHANGED <<arg, done, host, toApba, toHost, apba, writes>>

\* The wait expired: mods_uart_lock_tx(false) and return -EAGAIN.
BaudTimeout(u) ==
    /\ pc[u] = "BaudWait"
    /\ txLocked' = FALSE
    /\ Goto(u, "Idle")
    /\ UNCHANGED <<arg, done, mode, hostBaud, toApba, toHost, apba, writes>>

\* apba_log_show: send LOG_REQUEST and wait on comp; a refused frame
\* returns 0 bytes at once.
LogShow(u) ==
    /\ pc[u] = "Idle" /\ writes < MaxWrites
    /\ \/ Send("log", NoArg) /\ Goto(u, "LogWait")
       \/ UNCHANGED <<pc, toApba>>
    /\ writes' = writes + 1
    /\ UNCHANGED <<arg, done, host, toHost, apba>>

\* The log completion fired (the fifo is then drained: see ApbaLog), or
\* the wait expired and the read returns 0 bytes.
LogDone(u) ==
    /\ pc[u] = "LogWait"
    /\ \/ Take("log")
       \/ UNCHANGED done
    /\ Goto(u, "Idle")
    /\ UNCHANGED <<arg, host, toApba, toHost, apba, writes>>

-----------------------------------------------------------------------------
(* The APBA firmware: takes the oldest frame; one sent at another rate is  *)
(* noise.  It echoes MODE_REQUEST and LOG_REQUEST, and answers a          *)
(* BAUD_REQUEST with a BAUD_ACK at its old rate, then switches if it      *)
(* accepted.                                                              *)

Reply(type, v, acc) ==
    toHost' = Append(toHost, [type |-> type, val |-> v, acc |-> acc, rate |-> apbaBaud])

ApbaRecv ==
    /\ toApba # << >>
    /\ Len(toHost) < MaxWire
    /\ toApba' = Tail(toApba)
    /\ LET m == Head(toApba) IN
         IF m.rate # apbaBaud THEN UNCHANGED <<toHost, apba>>
         ELSE CASE m.type = "mode" -> /\ apbaMode' = m.val
                                      /\ Reply("mode", m.val, FALSE)
                                      /\ UNCHANGED apbaBaud
                [] m.type = "log"  -> /\ Reply("log", NoArg, FALSE)
                                      /\ UNCHANGED apba
                [] m.type = "baud" -> \E acc \in BOOLEAN :
                                      /\ Reply("baud", m.val, acc)
                                      /\ apbaBaud' = IF acc THEN m.val ELSE apbaBaud
                                      /\ UNCHANGED apbaMode
    /\ UNCHANGED <<pc, arg, done, host, writes>>

-----------------------------------------------------------------------------
(* apba_handle_message on the host.                                        *)

Complete(k) == done' = [done EXCEPT ![k] = @ + 1]

\* Mutant: the BAUD_ACK branch without its "if (baud_ack->accepted)".
HandleBaudAckIgnoringAccept(m) ==
    /\ hostBaud' = m.val
    /\ Complete("baud")

\* APBA_CTRL_BAUD_ACK: mods_uart_update_baud if accepted, then complete.
HandleBaudAck(m) ==
    /\ hostBaud' = IF m.acc THEN m.val ELSE hostBaud
    /\ Complete("baud")

HostRecv ==
    /\ toHost # << >>
    /\ toHost' = Tail(toHost)
    /\ LET m == Head(toHost) IN
         IF m.rate # hostBaud THEN UNCHANGED <<done, hostBaud>>
         ELSE IF m.type = "baud" THEN HandleBaudAck(m)
         ELSE Complete(m.type) /\ UNCHANGED hostBaud
    /\ UNCHANGED <<pc, arg, mode, txLocked, toApba, apba, writes>>

\* The UART loses the oldest frame of one direction.
Lose ==
    /\ Lossy
    /\ \/ toApba # << >> /\ toApba' = Tail(toApba) /\ UNCHANGED toHost
       \/ toHost # << >> /\ toHost' = Tail(toHost) /\ UNCHANGED toApba
    /\ UNCHANGED <<pc, arg, done, host, apba, writes>>

-----------------------------------------------------------------------------

Step(u) ==
    \/ ModeAcked(u) \/ ModeTimeout(u) \/ BaudSend(u) \/ BaudLock(u)
    \/ BaudAcked(u) \/ BaudTimeout(u) \/ LogDone(u)

Next ==
    \/ \E u \in Users : ModeStore(u) \/ BaudStore(u) \/ LogShow(u) \/ Step(u)
    \/ ApbaRecv \/ HostRecv \/ Lose

Spec == Init /\ [][Next]_vars

-----------------------------------------------------------------------------
(* Properties.                                                             *)

Quiescent == \A u \in Users : pc[u] = "Idle"
Drained == toApba = << >> /\ toHost = << >>

\* Once every call returned and the wire is empty, host and APBA use the
\* same rate: a BAUD_REQUEST exchange never leaves the two ends of the
\* UART apart (accepted-flag handling of apba_handle_message).
BaudAgreesAtRest == Quiescent /\ Drained => hostBaud = apbaBaud

\* apba_baud_store releases the transmit lock on both of its paths: with
\* no call in flight the transmit path is unlocked.
TxUnlockedAtRest == Quiescent => ~txLocked

\* No request frame is ever queued at a rate the APBA has already left:
\* what the tx lock of apba_baud_store is there to guarantee (spec 4.3).
NoFrameAtStaleRate == \A i \in 1..Len(toApba) : toApba[i].rate = apbaBaud

\* A mode write that reports success stores the value the APBA applied
\* (apba_mode_store sets g_ctrl->mode after mode_comp completes).
ModeSetOnlyWhenApplied ==
    [][\A u \in Users : ModeAcked(u) => apbaMode = arg[u]]_vars

\* The host switches its UART only to the rate the APBA is at: a BAUD_ACK
\* is applied only when it carries an accepted rate (apba_handle_message's
\* accepted test), and the APBA cannot move on before the host follows,
\* since it hears nothing sent at its old rate.  Lost frames and timeouts
\* included.
HostSwitchesOnlyToApbaRate ==
    [][hostBaud' # hostBaud => hostBaud' = apbaBaud]_vars

=============================================================================
