---------------------------- MODULE MCApbaProtocol ----------------------------
(* Model-checking instance of ApbaProtocol: two callers, two modes and two *)
(* rates, three calls and three frames per direction, enough for a baud    *)
(* change to overlap a second call and for an answer to outlive its wait.  *)
EXTENDS ApbaProtocol

CONSTANTS u1, u2, m0, m1, b1, b2

MCUsers == {u1, u2}
MCOneUser == {u1}
MCModes == {m0, m1}
MCBauds == {b1, b2}
=============================================================================
