------------------------------ MODULE MCSession ------------------------------
(* Model-checking instance of Session: 2 misses of 2 ticks. *)
EXTENDS Session
=============================================================================
