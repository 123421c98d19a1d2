----------------------------- MODULE MCDotPool ------------------------------
(* TLC instance of DotPool: the constants are given in the .cfg file.      *)
EXTENDS DotPool
=============================================================================
