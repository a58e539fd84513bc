---------------------------- MODULE MCConnTimer ----------------------------
(***************************************************************************)
(* Instances of ConnTimer for TLC.  CLIENT_TIMEOUT is 120 in the code; the *)
(* wheel treats all sizes alike (ConnTimerProof shows it), so a short one  *)
(* shows every way round it.                                               *)
(***************************************************************************)
EXTENDS ConnTimer

MCClientTimeout == 4
MCMaxSlots == MCClientTimeout + 1
=============================================================================
