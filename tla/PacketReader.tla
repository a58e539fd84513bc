---------------------------- MODULE PacketReader ----------------------------
(***************************************************************************)
(* The reader of the connection server (conn/conn_network.c).  A packet is *)
(* put on the list of received packets as soon as its length is known; the *)
(* rest of it is copied to the last packet of that list.  read_handler     *)
(* reads until there is nothing more, and then process_packet takes every  *)
(* packet off the list.                                                    *)
(***************************************************************************)
EXTENDS Framing, SequencesExt

CONSTANTS
    MaySplit,           \* may a packet arrive in two pieces?
    ServerLen,          \* bound: the lengths of the packets the server is sent
    ServerMax           \* bound: the most packets it is sent

ASSUME SplitAssumption == MaySplit \in BOOLEAN
ASSUME ServerAssumption == ServerLen \subseteq Legal /\ ServerMax \in Nat

ServerInit == FramingInit

\* In the error paths of the three functions below, and of read_packet,
\* error_handler closes the connection: Fail.

\* Mutant: expect_bytes is not counted down.
conn_last_packet_incomplete_NoCount ==
    /\ Reading
    /\ expect_bytes > 0
    /\ recv_packet_list # <<>>
    /\ LET packet == Last(recv_packet_list)
           at == Behind(Len(packet) - expect_bytes)
           n == IF count < expect_bytes THEN count ELSE expect_bytes
       IN  /\ Fits(at, n)
           /\ recv_packet_list' = ReplaceAt(recv_packet_list, Len(recv_packet_list),
                                            Copy(packet, at, pos, n))
           /\ pos' = pos + n
    /\ UNCHANGED <<socket, expect_bytes, length_incomplete, length, ends>>

\* 1st: copy what comes to the last packet on the list.
conn_last_packet_incomplete ==
    /\ Reading
    /\ expect_bytes > 0
    /\ IF recv_packet_list = <<>> THEN Fail
       ELSE LET packet == Last(recv_packet_list)
                at == Behind(Len(packet) - expect_bytes)
                n == IF count < expect_bytes THEN count ELSE expect_bytes
            IN  IF ~Fits(at, n) THEN Overrun
                ELSE /\ recv_packet_list' =
                         ReplaceAt(recv_packet_list, Len(recv_packet_list),
                                   Copy(packet, at, pos, n))
                     /\ expect_bytes' = expect_bytes - n
                     /\ pos' = pos + n
                     /\ UNCHANGED <<socket, length_incomplete, length, ends>>

\* 2nd: the second byte of the length has come.
conn_last_packet_incomplete_1byte ==
    /\ Reading
    /\ expect_bytes = 0
    /\ length_incomplete
    /\ \E len \in LengthAt(length) :
        IF len \notin Legal THEN Fail
        ELSE LET packet == Copy(Copy(Blank(len), 0, length, 1), 1, pos, 1)
             IN  /\ recv_packet_list' = Append(recv_packet_list, packet)
                 /\ expect_bytes' = len - 2
                 /\ length_incomplete' = FALSE
                 /\ pos' = pos + 1
                 /\ UNCHANGED <<socket, length, ends>>

\* 3rd: a new packet begins, with one byte ...
conn_first_byte ==
    /\ Reading
    /\ expect_bytes = 0
    /\ ~length_incomplete
    /\ count < 2
    /\ length_incomplete' = TRUE
    /\ length' = pos
    /\ pos' = pos + 1
    /\ UNCHANGED <<socket, expect_bytes, recv_packet_list, ends>>

\* Mutants: a packet that is not complete yet is taken for complete; the packet
\* is filled behind the length field, as in the 2nd case, from the wrong place.
conn_last_packet_complete_Overrun ==
    /\ Reading
    /\ expect_bytes = 0
    /\ ~length_incomplete
    /\ count >= 2
    /\ \E len \in LengthAt(pos) \cap Legal :
        /\ recv_packet_list' = Append(recv_packet_list, Bytes(pos, len))
        /\ pos' = pos + len
    /\ UNCHANGED <<socket, expect_bytes, length_incomplete, length, ends>>

conn_last_packet_complete_Behind ==
    /\ Reading
    /\ expect_bytes = 0
    /\ ~length_incomplete
    /\ count >= 2
    /\ \E len \in LengthAt(pos) \cap Legal :
        LET n == IF count < len THEN count ELSE len
        IN  /\ recv_packet_list' =
                Append(recv_packet_list,
                       Copy(Copy(Blank(len), 0, pos, 2), 2, pos, n - 2))
            /\ expect_bytes' = len - n
            /\ pos' = pos + n
    /\ UNCHANGED <<socket, length_incomplete, length, ends>>

\* ... or with more.
conn_last_packet_complete ==
    /\ Reading
    /\ expect_bytes = 0
    /\ ~length_incomplete
    /\ count >= 2
    /\ \E len \in LengthAt(pos) :
        IF len \notin Legal THEN Fail
        ELSE LET n == IF count < len THEN count ELSE len
             IN  /\ recv_packet_list' =
                     Append(recv_packet_list, Copy(Blank(len), 0, pos, n))
                 /\ expect_bytes' = len - n
                 /\ pos' = pos + n
                 /\ UNCHANGED <<socket, length_incomplete, length, ends>>

\* Mutant: the packets are taken off the wrong end of the list.
process_packet_LastFirst ==
    /\ open /\ ~corrupt
    /\ pos = arrived
    /\ recv_packet_list # <<>>
    /\ handled' = handled \o Reverse(recv_packet_list)
    /\ recv_packet_list' = <<>>
    /\ UNCHANGED <<socket, reader, open, corrupt>>

\* read returns EAGAIN, and every packet on the list is handed to its handler.
process_packet ==
    /\ open /\ ~corrupt
    /\ pos = arrived
    /\ recv_packet_list # <<>>
    /\ handled' = handled \o recv_packet_list
    /\ recv_packet_list' = <<>>
    /\ UNCHANGED <<socket, reader, open, corrupt>>

\* What the server's peer and the network do.
ServerPeer ==
    \/ \E len \in ServerLen : Len(sent) < ServerMax /\ Send(len)
    \/ \E n \in 1 .. End(sent) : (MaySplit \/ Boundary(n)) /\ Arrive(n)

ServerNext ==
    \/ ServerPeer
    \/ Read
    \/ conn_last_packet_incomplete
    \/ conn_last_packet_incomplete_1byte
    \/ conn_first_byte
    \/ conn_last_packet_complete
    \/ process_packet

-----------------------------------------------------------------------------
(* Properties.                                                             *)

\* expect_bytes and length_incomplete always tell what the last packet lacks,
\* and the packets handed over and those on the list are those sent: no byte
\* is lost or counted twice between two pieces (read_packet).
ServerAccounted ==
    open /\ ~corrupt =>
        /\ expect_bytes > 0 => ~length_incomplete /\ recv_packet_list # <<>>
        /\ Framed(handled \o recv_packet_list)
=============================================================================
