------------------------------ MODULE MCApbaLog ------------------------------
(* Model-checking instance of ApbaLog: a 4-byte ring, 2-byte scratch        *)
(* buffer and 3-byte reads, so that evictions, partial evictions and       *)
(* partial drains all happen within six frames.                           *)
EXTENDS ApbaLog

\* Well-formed frames: the header size is the payload received, at most
\* APBA_MSG_SIZE_MAX.
MCHonestFrames == {[size |-> 1, len |-> 1], [size |-> 2, len |-> 2]}

\* Frames whose header size is not checked against what was received:
\* a 3-byte header size over a 2-byte payload, above APBA_MSG_SIZE_MAX.
MCLongFrames == MCHonestFrames \cup {[size |-> 3, len |-> 2]}
=============================================================================
