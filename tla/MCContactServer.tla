--------------------------- MODULE MCContactServer ---------------------------
(***************************************************************************)
(* Three users and a number that nobody has; a table for two friends and   *)
(* one for three: the third friend moves a row, the fourth has no column.  *)
(* Requests cross between 1 and 2, 3 asks himself.                         *)
(*                                                                         *)
(* The server keeps for the details nothing that it reads for the lists,   *)
(* and the other way round: a behaviour has one kind of requests, `part`.  *)
(***************************************************************************)
EXTENDS ContactServer

CONSTANTS c1, c2

MCSize == <<2, 3>>
MCCon == {c1, c2}
MCAsking == {<<1, 2>>, <<2, 1>>, <<1, 3>>, <<3, 3>>, <<1, 4>>}

VARIABLE part

MCInit == Init /\ part \in {"lists", "details"}
MCNext ==
    /\ \/ part = "lists" /\ ListStep
       \/ part = "details" /\ DetailStep
    /\ UNCHANGED part

MCSpec ==
    /\ MCInit /\ [][MCNext]_<<vars, part>>
    /\ WF_vars(accept_other) /\ WF_vars(user_friend_add)
=============================================================================
