------------------------------- MODULE ApbaLog -------------------------------
(***************************************************************************)
(* The APBA log ring buffer of src/apba.c: the kfifo apba_log_fifo, filled *)
(* by the LOG_IND branch of apba_handle_message and drained by            *)
(* apba_log_show, both under g_ctrl->log_mutex, so each is one atomic     *)
(* step here.                                                              *)
(*                                                                         *)
(* A byte is abstracted to the number of the LOG_IND frame that carried   *)
(* it (or Garbage, for a byte read past the end of the received frame).   *)
(* The ghost variable history is the stream of log bytes the APBA sent,   *)
(* in order; the property of interest relates the buffer to it.           *)
(***************************************************************************)
EXTENDS Naturals, Sequences

CONSTANTS
    LogSize,     \* APBA_LOG_SIZE (SZ_16K): capacity of apba_log_fifo
    MsgSizeMax,  \* APBA_MSG_SIZE_MAX: size of the fifo_overflow scratch buffer
    PageRead,    \* PAGE_SIZE - 1: bytes one apba_log_show read takes out
    Frames,      \* LOG_IND frames the APBA may send: [size |-> hdr size, len |-> payload bytes received]
    MaxMsgs      \* bound on the number of LOG_IND frames in a behaviour

ASSUME LogAssumption ==
    /\ LogSize \in Nat \ {0}
    /\ MsgSizeMax \in Nat \ {0}
    /\ PageRead \in Nat \ {0}
    /\ Frames \subseteq [size : Nat, len : Nat]
    /\ MaxMsgs \in Nat

\* The value of a byte copied from beyond the received payload.
Garbage == 0

VARIABLES
    log,      \* the contents of apba_log_fifo, oldest byte first
    history,  \* ghost: the log bytes the APBA sent, oldest first
    sent      \* ghost: number of LOG_IND frames handled so far

vars == <<log, history, sent>>

MinOf(a, b) == IF a <= b THEN a ELSE b

\* kfifo_out(fifo, buf, n): removes min(n, length) bytes from the front.
KfifoOut(q, n) == SubSeq(q, MinOf(n, Len(q)) + 1, Len(q))

\* kfifo_in(fifo, buf, n): copies as many of the n bytes as there is room for.
KfifoIn(q, bytes) ==
    q \o SubSeq(bytes, 1, MinOf(Len(bytes), LogSize - Len(q)))

\* The msg->size bytes at payload + sizeof(*msg) of frame number id: those
\* past the frame's received length are whatever follows it in memory.
Payload(f, id) == [j \in 1..f.size |-> IF j <= f.len THEN id ELSE Garbage]

\* The bytes of frame number id that the APBA actually sent.
Sent(f, id) == [j \in 1..f.len |-> id]

TypeOK ==
    /\ log \in Seq(0..MaxMsgs) /\ Len(log) <= LogSize
    /\ history \in Seq(1..MaxMsgs)
    /\ sent \in 0..MaxMsgs

Init ==
    /\ log = << >>
    /\ history = << >>
    /\ sent = 0

\* A plausible slip in the eviction: pop one byte fewer than the overflow.
LogIndShortEvict(f) ==
    LET id      == sent + 1
        of      == Len(log) + f.size - LogSize
        evicted == IF of > 0 THEN KfifoOut(log, MinOf(of, MsgSizeMax) - 1) ELSE log
    IN  /\ sent < MaxMsgs
        /\ log' = KfifoIn(evicted, Payload(f, id))
        /\ history' = history \o Sent(f, id)
        /\ sent' = id

\* apba_handle_message, case APBA_CTRL_LOG_IND: compute the overflow of,
\* evict MIN(of, APBA_MSG_SIZE_MAX) oldest bytes when it is positive, then
\* kfifo_in the msg->size payload bytes.  The unsigned sum wraps to a
\* negative int exactly when it is below the capacity, so of is compared
\* as a mathematical integer.
LogInd(f) ==
    LET id      == sent + 1
        of      == Len(log) + f.size - LogSize
        evicted == IF of > 0 THEN KfifoOut(log, MinOf(of, MsgSizeMax)) ELSE log
    IN  /\ sent < MaxMsgs
        /\ log' = KfifoIn(evicted, Payload(f, id))
        /\ history' = history \o Sent(f, id)
        /\ sent' = id

\* apba_log_show, after the LOG REQUEST completion: kfifo_out of up to
\* PAGE_SIZE - 1 bytes under log_mutex.  (A read of an empty fifo changes
\* nothing and is a stutter step.)
LogShow ==
    /\ log # << >>
    /\ log' = KfifoOut(log, PageRead)
    /\ UNCHANGED <<history, sent>>

Next ==
    \/ \E f \in Frames : LogInd(f)
    \/ LogShow

Spec == Init /\ [][Next]_vars

-----------------------------------------------------------------------------
(***************************************************************************)
(* Properties.                                                             *)
(***************************************************************************)

\* The bytes the log holds are the most recent bytes the APBA sent, in
\* order and with no gap: the buffer is always a suffix of the stream
\* (section 4.5: drop oldest bytes to make room; spec test: "the most
\* recent bytes are retained").  Breaks if LOG_IND evicts too little and
\* kfifo_in truncates the new frame, or copies bytes the APBA never sent.
LogIsSuffix ==
    \E k \in 0..Len(history) : log = SubSeq(history, k + 1, Len(history))

=============================================================================
