---------------------------- MODULE MCApbaDispatch ----------------------------
(* The instance of MCApbaPower with the dispatcher composed, and the      *)
(* abstract controller ApbaModes to check the composition against.        *)
EXTENDS ApbaDispatch, ApbaPowerRefinement, MCApbaPower
=============================================================================
