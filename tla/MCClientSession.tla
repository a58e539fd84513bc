--------------------------- MODULE MCClientSession ---------------------------
(***************************************************************************)
(* Two senders, and after the login room for two requests.                 *)
(***************************************************************************)
EXTENDS ClientSession

MCScript == [a |-> <<"CHAT", "REQUEST">>, b |-> <<"ACCEPT">>]
=============================================================================
