---------------------------- MODULE ApbaLogProofs ----------------------------
(***************************************************************************)
(* Proof that the log ring buffer of apba_handle_message / apba_log_show  *)
(* always holds a suffix of the byte stream the APBA sent, for every size *)
(* of the buffer, of the eviction scratch buffer and of a page, provided  *)
(* LOG_IND frames are honest (their header size is the number of bytes   *)
(* received, at most APBA_MSG_SIZE_MAX) and a message fits in the buffer. *)
(***************************************************************************)
EXTENDS ApbaLog, SequenceTheorems, TLAPS

\* The frames the APBA may send carry exactly the bytes their header
\* announces, no more than fifo_overflow holds, and fifo_overflow is no
\* larger than the log.
HonestFrames ==
  /\ MsgSizeMax <= LogSize
  /\ \A f \in Frames : f.len = f.size /\ f.size <= MsgSizeMax

\* The inductive invariant: the log is a suffix of the history, and kfifo
\* never holds more than its capacity.
LInv ==
  /\ log \in Seq(Nat) /\ history \in Seq(Nat)
  /\ sent \in Nat
  /\ Len(log) <= LogSize
  /\ LogIsSuffix

USE LogAssumption

-----------------------------------------------------------------------------
(* Two facts about suffixes of a sequence.                                 *)

\* A suffix of a sequence is a sequence of the remaining length.
LEMMA SuffixType ==
  ASSUME NEW S, NEW s \in Seq(S), NEW k \in 0..Len(s)
  PROVE  /\ SubSeq(s, k + 1, Len(s)) \in Seq(S)
         /\ Len(SubSeq(s, k + 1, Len(s))) = Len(s) - k
<1>1. \A i \in (k + 1)..Len(s) : s[i] \in S
  OBVIOUS
<1>2. QED
  BY <1>1, SubSeqProperties

\* Dropping n more elements from the suffix that starts after k.
LEMMA DropSuffix ==
  ASSUME NEW S, NEW s \in Seq(S), NEW k \in 0..Len(s), NEW n \in 0..(Len(s) - k)
  PROVE  /\ SubSeq(s, k + 1, Len(s)) \in Seq(S)
         /\ Len(SubSeq(s, k + 1, Len(s))) = Len(s) - k
         /\ SubSeq(SubSeq(s, k + 1, Len(s)), n + 1, Len(s) - k)
              = SubSeq(s, k + n + 1, Len(s))
<1>1. SubSeq(s, k + 1, Len(s)) \in Seq(S) /\ Len(SubSeq(s, k + 1, Len(s))) = Len(s) - k
  BY SubSeqProperties
<1>2. SubSeq(s, k + n + 1, Len(s)) \in Seq(S) /\ Len(SubSeq(s, k + n + 1, Len(s))) = Len(s) - k - n
  BY SubSeqProperties
<1>3. SubSeq(SubSeq(s, k + 1, Len(s)), n + 1, Len(s) - k) \in Seq(S)
      /\ Len(SubSeq(SubSeq(s, k + 1, Len(s)), n + 1, Len(s) - k)) = Len(s) - k - n
  BY <1>1, SubSeqProperties
<1>4. \A i \in 1..(Len(s) - k - n) :
        SubSeq(SubSeq(s, k + 1, Len(s)), n + 1, Len(s) - k)[i] = SubSeq(s, k + n + 1, Len(s))[i]
  BY <1>1, SubSeqProperties
<1>5. QED
  BY <1>1, <1>2, <1>3, <1>4, SeqEqual

\* Appending to a suffix is the suffix of the appended sequence.
LEMMA SuffixConcat ==
  ASSUME NEW S, NEW s \in Seq(S), NEW t \in Seq(S), NEW k \in 0..Len(s)
  PROVE  SubSeq(s, k + 1, Len(s)) \o t = SubSeq(s \o t, k + 1, Len(s) + Len(t))
<1>1. SubSeq(s, k + 1, Len(s)) \in Seq(S) /\ Len(SubSeq(s, k + 1, Len(s))) = Len(s) - k
  BY SubSeqProperties
<1>2. s \o t \in Seq(S) /\ Len(s \o t) = Len(s) + Len(t)
  BY ConcatProperties
<1>3. SubSeq(s \o t, k + 1, Len(s) + Len(t)) \in Seq(S)
      /\ Len(SubSeq(s \o t, k + 1, Len(s) + Len(t))) = Len(s) - k + Len(t)
  BY <1>2, SubSeqProperties
<1>4. SubSeq(s, k + 1, Len(s)) \o t \in Seq(S)
      /\ Len(SubSeq(s, k + 1, Len(s)) \o t) = Len(s) - k + Len(t)
  BY <1>1, ConcatProperties
<1>5. \A i \in 1..(Len(s) - k + Len(t)) :
        (SubSeq(s, k + 1, Len(s)) \o t)[i] = SubSeq(s \o t, k + 1, Len(s) + Len(t))[i]
  BY <1>1, <1>2, ConcatProperties, SubSeqProperties
<1>6. QED
  BY <1>3, <1>4, <1>5, SeqEqual

\* The arithmetic of an eviction: when a message of size sz overflows a
\* buffer of capacity c holding n = L - k bytes, the overflow is at most
\* the message and at most the buffer, and evicting it leaves a suffix of
\* the stream with exactly room for the message.
LEMMA EvictArith ==
  ASSUME NEW c \in Nat, NEW sz \in 0..c, NEW n \in 0..c, NEW L \in Nat,
         NEW k \in 0..L, n = L - k, n + sz - c > 0
  PROVE  /\ n + sz - c \in 0..n
         /\ n + sz - c <= sz
         /\ k + (n + sz - c) \in 0..L
         /\ L - (k + (n + sz - c)) + sz <= c
OBVIOUS

-----------------------------------------------------------------------------
(* The two handlers preserve LInv.                                         *)

\* The LOG_IND branch of apba_handle_message keeps the log a suffix of the
\* stream: with honest frames the eviction frees exactly the overflow, so
\* kfifo_in copies the whole frame and nothing else.
LEMMA LogIndInv ==
  ASSUME HonestFrames, LInv, NEW f \in Frames, LogInd(f)
  PROVE  LInv'
<1> DEFINE id == sent + 1
           of == Len(log) + f.size - LogSize
           L  == Len(history)
           evicted == IF of > 0 THEN KfifoOut(log, MinOf(of, MsgSizeMax)) ELSE log
<1>1. f.len = f.size /\ f.size \in 0..MsgSizeMax /\ MsgSizeMax <= LogSize
  BY DEF HonestFrames
<1>2. log \in Seq(Nat) /\ history \in Seq(Nat) /\ sent \in Nat /\ Len(log) <= LogSize
  BY DEF LInv
<1>3. Payload(f, id) = Sent(f, id)
  BY <1>1 DEF Payload, Sent
<1>4. Sent(f, id) \in Seq(Nat) /\ Len(Sent(f, id)) = f.size
  <2>1. f.len \in Nat /\ id \in Nat
    BY <1>1, <1>2
  <2>2. Sent(f, id) \in Seq(Nat)
    BY <2>1 DEF Sent
  <2>3. QED
    BY <1>1, <2>1, <2>2 DEF Sent
<1>5. PICK k \in 0..L : log = SubSeq(history, k + 1, L)
  BY DEF LInv, LogIsSuffix
<1>6. Len(log) = L - k /\ L \in Nat /\ Len(log) \in Nat
  BY <1>2, <1>5, SuffixType, LenProperties
<1>7. /\ history' = history \o Sent(f, id)
      /\ sent' = id
      /\ log' = KfifoIn(evicted, Sent(f, id))
  BY <1>3 DEF LogInd
<1>8. history' \in Seq(Nat) /\ Len(history') = L + f.size /\ sent' \in Nat
  <2>1. history \o Sent(f, id) \in Seq(Nat) /\ Len(history \o Sent(f, id)) = L + f.size
    BY <1>2, <1>4, ConcatProperties
  <2>2. QED
    BY <1>2, <1>7, <2>1
<1> DEFINE j == IF of > 0 THEN k + of ELSE k
<1>9. j \in 0..L /\ L - j + f.size <= LogSize
  <2>1. CASE of > 0
    <3>1. f.size \in 0..LogSize /\ LogSize \in Nat /\ Len(log) \in 0..LogSize
      BY <1>1, <1>2, <1>6
    <3>2. QED
      BY <3>1, <1>6, <2>1, EvictArith
  <2>2. CASE ~(of > 0)
    BY <1>1, <1>2, <1>6, <2>2
  <2>3. QED
    BY <2>1, <2>2
<1>10. evicted = SubSeq(history, j + 1, L)
  <2>1. CASE of > 0
    <3>1. of \in 0..Len(log) /\ of <= f.size
      <4>1. f.size \in 0..LogSize /\ LogSize \in Nat /\ Len(log) \in 0..LogSize
        BY <1>1, <1>2, <1>6
      <4>2. QED
        BY <4>1, <1>6, <2>1, EvictArith
    <3>2. MinOf(of, MsgSizeMax) = of /\ MinOf(of, Len(log)) = of
      BY <3>1, <1>1 DEF MinOf
    <3>3. evicted = SubSeq(log, of + 1, L - k)
      BY <3>2, <1>6, <2>1 DEF KfifoOut
    <3>4. SubSeq(SubSeq(history, k + 1, L), of + 1, L - k) = SubSeq(history, k + of + 1, L)
      BY <1>2, <1>6, <3>1, DropSuffix
    <3>5. QED
      BY <1>5, <2>1, <3>3, <3>4
  <2>2. CASE ~(of > 0)
    BY <1>5, <2>2
  <2>3. QED
    BY <2>1, <2>2
<1>11. SubSeq(history, j + 1, L) \in Seq(Nat) /\ Len(SubSeq(history, j + 1, L)) = L - j
  BY <1>2, <1>9, SuffixType
<1>12. log' = SubSeq(history, j + 1, L) \o Sent(f, id)
  <2>1. MinOf(Len(Sent(f, id)), LogSize - (L - j)) = f.size
    <3>1. f.size <= LogSize - (L - j) /\ Len(Sent(f, id)) = f.size
      BY <1>1, <1>4, <1>6, <1>9
    <3>2. QED
      BY <3>1 DEF MinOf
  <2>2. SubSeq(Sent(f, id), 1, f.size) = Sent(f, id)
    BY <1>4, SubSeqFull
  <2>3. QED
    BY <1>7, <1>10, <1>11, <2>1, <2>2 DEF KfifoIn
<1>13. log' = SubSeq(history', j + 1, Len(history'))
  <2>1. SubSeq(history, j + 1, L) \o Sent(f, id)
          = SubSeq(history \o Sent(f, id), j + 1, L + Len(Sent(f, id)))
    BY <1>2, <1>4, <1>9, SuffixConcat
  <2>2. QED
    BY <2>1, <1>4, <1>7, <1>8, <1>12
<1>14. log' \in Seq(Nat) /\ Len(log') <= LogSize
  <2>1. SubSeq(history, j + 1, L) \o Sent(f, id) \in Seq(Nat)
        /\ Len(SubSeq(history, j + 1, L) \o Sent(f, id)) = (L - j) + f.size
    BY <1>4, <1>11, ConcatProperties
  <2>2. QED
    BY <2>1, <1>9, <1>12
<1>15. LogIsSuffix'
  <2>1. j \in 0..Len(history')
    BY <1>8, <1>9
  <2>2. QED
    BY <1>13, <2>1 DEF LogIsSuffix
<1>16. QED
  BY <1>8, <1>14, <1>15 DEF LInv

\* apba_log_show drains the oldest bytes, which keeps a suffix a suffix.
LEMMA LogShowInv ==
  ASSUME LInv, LogShow
  PROVE  LInv'
<1> DEFINE L == Len(history)
           n == MinOf(PageRead, Len(log))
<1>1. log \in Seq(Nat) /\ history \in Seq(Nat) /\ sent \in Nat /\ Len(log) <= LogSize
  BY DEF LInv
<1>2. PICK k \in 0..L : log = SubSeq(history, k + 1, L)
  BY DEF LInv, LogIsSuffix
<1>3. Len(log) = L - k /\ n \in 0..(L - k) /\ L \in Nat
  BY <1>1, <1>2, SuffixType, LenProperties DEF MinOf
<1>4. log' = SubSeq(history, k + n + 1, L)
  <2>1. log' = SubSeq(log, n + 1, L - k)
    BY <1>3 DEF LogShow, KfifoOut
  <2>2. QED
    BY <2>1, <1>1, <1>2, <1>3, DropSuffix
<1>5. log' \in Seq(Nat) /\ Len(log') <= LogSize
  <2>1. SubSeq(history, k + n + 1, L) \in Seq(Nat)
        /\ Len(SubSeq(history, k + n + 1, L)) = L - (k + n)
    <3>1. k + n \in 0..L
      BY <1>3
    <3>2. QED
      BY <1>1, <3>1, SuffixType
  <2>2. L - (k + n) <= LogSize
    BY <1>1, <1>3
  <2>3. QED
    BY <1>4, <2>1, <2>2
<1>6. UNCHANGED <<history, sent>>
  BY DEF LogShow
<1>7. LogIsSuffix'
  <2>1. k + n \in 0..Len(history')
    BY <1>3, <1>6
  <2>2. QED
    BY <1>4, <1>6, <2>1 DEF LogIsSuffix
<1>8. QED
  BY <1>1, <1>5, <1>6, <1>7 DEF LInv

-----------------------------------------------------------------------------
(* The invariant.                                                          *)

\* The empty log of apba_init is the empty suffix of the empty stream.
LEMMA InitLInv == Init => LInv
<1> SUFFICES ASSUME Init PROVE LInv
  OBVIOUS
<1>1. log = SubSeq(history, 0 + 1, Len(history))
  BY DEF Init
<1>2. QED
  BY <1>1 DEF Init, LInv, LogIsSuffix

\* Every step of either handler, and every stutter, preserves LInv.
LEMMA NextLInv == HonestFrames /\ LInv /\ [Next]_vars => LInv'
<1> SUFFICES ASSUME HonestFrames, LInv, [Next]_vars PROVE LInv'
  OBVIOUS
<1>1. CASE \E f \in Frames : LogInd(f)
  BY <1>1, LogIndInv
<1>2. CASE LogShow
  BY <1>2, LogShowInv
<1>3. CASE UNCHANGED vars
  BY <1>3 DEF LInv, LogIsSuffix, vars
<1>4. QED
  BY <1>1, <1>2, <1>3 DEF Next

\* For honest LOG_IND frames, the log apba_log_show hands out is always
\* the most recent bytes the APBA sent, in order and without a gap,
\* whatever the sizes of the ring, the scratch buffer and a page.
THEOREM LogSuffixInvariant == HonestFrames => (Spec => []LogIsSuffix)
<1> SUFFICES ASSUME HonestFrames PROVE Spec => []LogIsSuffix
  OBVIOUS
<1>1. Init => LInv
  BY InitLInv
<1>2. LInv /\ [Next]_vars => LInv'
  BY NextLInv
<1>3. LInv => LogIsSuffix
  BY DEF LInv
<1>4. QED
  BY <1>1, <1>2, <1>3, PTL DEF Spec

=============================================================================
