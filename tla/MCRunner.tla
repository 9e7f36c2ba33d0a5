------------------------------- MODULE MCRunner -------------------------------
(***************************************************************************)
(* A daemon with two slots for one sync and one grant, beside the hello     *)
(* task.                                                                    *)
(***************************************************************************)
EXTENDS Runner
===============================================================================
