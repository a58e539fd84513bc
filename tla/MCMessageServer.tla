--------------------------- MODULE MCMessageServer ---------------------------
(***************************************************************************)
(* Two users and up to three messages: two that wait together, and one     *)
(* that comes between the others' answers.  A behaviour has either two     *)
(* connection servers that come and go, or one that stays, with friend     *)
(* messages and a database that may fail, or one that stays, with texts    *)
(* that are too long.  A text of one unit fits everywhere, one of two is   *)
(* too long for query_str, and three units for a row or a packet.  Users   *)
(* are alike: the first message is to u1.                                  *)
(***************************************************************************)
EXTENDS MessageServer

CONSTANTS u1, u2, c1, c2
MCCons == {c1, c2}
MCUsers == {u1, u2}
MCChances == {{"leave"}, {"friend", "failure"}, {"long"}}
MCFriend == {{"friend"}}

MCNext ==
    /\ Next
    /\ "leave" \in may \/ conns_head' \subseteq {c1}
    /\ accepted = 0 => map'[u2] = <<>>
MCSpec == Init /\ [][MCNext]_vars
MCFairSpec == MCSpec /\ Fairness
=============================================================================
