--------------------------- MODULE MCStatusServer ---------------------------
(***************************************************************************)
(* Instances of StatusServer for TLC: user numbers below, at and above     *)
(* MAX_USER, which is 3, and fewer entries than users, so that the free    *)
(* list runs out.  A question about several users names at most two.       *)
(***************************************************************************)
EXTENDS StatusServer

MCUin == 0 .. 4
MCAsked == {us \in SUBSET MCUin : Cardinality(us) <= 2}
=============================================================================
