--------------------------- MODULE MCLoginSession ---------------------------
(***************************************************************************)
(* Two numbers: the second is that of a user who is there from the start,  *)
(* or of the account that both registrars want.                            *)
(***************************************************************************)
EXTENDS LoginSession
=============================================================================
