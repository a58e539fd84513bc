------------------------------- MODULE Readers -------------------------------
(***************************************************************************)
(* The two readers of packets, that of the connection server and that of   *)
(* the client: each behaviour is one of either (`side`).                   *)
(***************************************************************************)
EXTENDS PacketReader, ClientReader

VARIABLE side       \* whose reader it is: "client" or "server"

all == <<side, lp, socket, reader, recv_packet_list, ends>>

Init ==
    /\ side \in {"client", "server"}
    /\ IF side = "client" THEN ClientInit ELSE ServerInit /\ lp = NULL

Next ==
    /\ \/ side = "client" /\ ClientNext
       \/ side = "server" /\ ServerNext /\ UNCHANGED lp
    /\ UNCHANGED side

Spec == Init /\ [][Next]_all

-----------------------------------------------------------------------------
(* Properties.                                                             *)

\* The type of the state of a reader, between two pieces and within one.
TypeOK ==
    /\ side \in {"client", "server"}
    /\ FramingTypeOK
    /\ lp \in Seq(Nat \cup {Junk})

\* No byte is lost or counted twice between two pieces (read_packet of either).
Accounted == IF side = "client" THEN ClientAccounted ELSE ServerAccounted
=============================================================================
