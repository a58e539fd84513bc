------------------------------ MODULE MCReaders ------------------------------
(***************************************************************************)
(* The two readers for TLC.                                                *)
(*                                                                         *)
(* The server: packets of 3, 4 or 7 bytes that arrive whole, and a buffer  *)
(* of 8: one read returns less than a packet, exactly one, or one and a    *)
(* first part of the next, whose rest is then copied into the packet,      *)
(* behind it, or behind its block.                                         *)
(*                                                                         *)
(* The client: packets of 4 or 7 bytes in pieces of 1 to 8 bytes: pieces   *)
(* end within the length, after it, within the packet, at its end and in   *)
(* the next.                                                               *)
(***************************************************************************)
EXTENDS Readers

\* The user interface of the client selects on its socket, and looks at what has
\* come (wait_for_reply, read_online_message).
FairSpec ==
    /\ Spec
    /\ WF_all(side = "client" /\ Read /\ UNCHANGED <<lp, side>>)
    /\ WF_all(/\ side = "client" /\ UNCHANGED side
              /\ \/ client_last_packet_incomplete
                 \/ client_last_packet_incomplete_1byte
                 \/ client_first_byte
                 \/ client_last_packet_complete)
    /\ WF_all(side = "client" /\ take_packets /\ UNCHANGED side)

-----------------------------------------------------------------------------
(* Properties.                                                             *)

\* A packet that has arrived is handed over by the client in the end: none is
\* left in lp or behind one that is (wait_for_reply, read_packet).
AllHandled ==
    \A i \in 1 .. ClientMax :
        (side = "client" /\ i <= Len(sent) /\ arrived >= End(SubSeq(sent, 1, i)))
            ~> (Len(handled) >= i \/ corrupt)
=============================================================================
