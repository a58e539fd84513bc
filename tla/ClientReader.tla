---------------------------- MODULE ClientReader ----------------------------
(***************************************************************************)
(* The reader of the client (client/client_user.c).  It is the server's    *)
(* reader but for one thing: the packet that is not complete yet is kept   *)
(* apart, in lp, and comes on the list of received packets with its last   *)
(* byte.  wait_for_reply and read_online_message call recv once, feed the  *)
(* piece to read_packet, and look at the list.                             *)
(***************************************************************************)
EXTENDS Framing, SequencesExt

\* No packet: those that are sent have PACKET_HEADER_LEN bytes at least.
NULL == <<>>

CONSTANTS
    ClientLen,          \* bound: the lengths of the packets the client is sent
    ClientMax           \* bound: the most packets it is sent

ASSUME ClientAssumption == ClientLen \subseteq Legal /\ ClientMax \in Nat

VARIABLE lp             \* the incomplete packet, or NULL

ClientInit == FramingInit /\ lp = NULL

\* The error paths of read_packet.  Its callers take no notice, and would read
\* on in the middle of a packet: the model stops there.
ReadError ==
    /\ Fail
    /\ UNCHANGED lp

\* Mutants: lp is not reset when the packet is complete; a packet is put on the
\* list before it is complete.
Keep_Twice(packet, lacks) ==
    /\ expect_bytes' = lacks
    /\ lp' = packet
    /\ recv_packet_list' = IF lacks = 0 THEN Append(recv_packet_list, packet)
                           ELSE recv_packet_list

Keep_Early(packet, lacks) ==
    /\ expect_bytes' = lacks
    /\ lp' = IF lacks = 0 THEN NULL ELSE packet
    /\ recv_packet_list' = Append(recv_packet_list, packet)

\* A packet that lacks so many bytes is put on the list or kept in lp.
Keep(packet, lacks) ==
    /\ expect_bytes' = lacks
    /\ IF lacks = 0
       THEN lp' = NULL /\ recv_packet_list' = Append(recv_packet_list, packet)
       ELSE lp' = packet /\ UNCHANGED recv_packet_list

\* 1st: copy what comes to lp.
client_last_packet_incomplete ==
    /\ Reading
    /\ expect_bytes > 0
    /\ IF lp = NULL THEN ReadError
       ELSE LET at == Behind(Len(lp) - expect_bytes)
                n == IF count < expect_bytes THEN count ELSE expect_bytes
            IN  IF ~Fits(at, n) THEN Overrun /\ UNCHANGED lp
                ELSE /\ Keep(Copy(lp, at, pos, n), expect_bytes - n)
                     /\ pos' = pos + n
                     /\ UNCHANGED <<socket, length_incomplete, length, ends>>

\* 2nd: the second byte of the length has come.  (No packet is that short.)
client_last_packet_incomplete_1byte ==
    /\ Reading
    /\ expect_bytes = 0
    /\ length_incomplete
    /\ \E len \in LengthAt(length) :
        IF len \notin Legal THEN ReadError
        ELSE /\ lp' = Copy(Copy(Blank(len), 0, length, 1), 1, pos, 1)
             /\ expect_bytes' = len - 2
             /\ length_incomplete' = FALSE
             /\ pos' = pos + 1
             /\ UNCHANGED <<socket, length, recv_packet_list, ends>>

\* 3rd: a new packet begins, with one byte ...
client_first_byte ==
    /\ Reading
    /\ expect_bytes = 0
    /\ ~length_incomplete
    /\ count < 2
    /\ length_incomplete' = TRUE
    /\ length' = pos
    /\ pos' = pos + 1
    /\ UNCHANGED <<socket, expect_bytes, lp, recv_packet_list, ends>>

\* Mutants: a packet that is not complete yet is taken for complete; the packet
\* is filled behind the length field, as in the 2nd case, from the wrong place.
client_last_packet_complete_Behind ==
    /\ Reading
    /\ expect_bytes = 0
    /\ ~length_incomplete
    /\ count >= 2
    /\ \E len \in LengthAt(pos) \cap Legal :
        LET n == IF count < len THEN count ELSE len
        IN  /\ Keep(Copy(Copy(Blank(len), 0, pos, 2), 2, pos, n - 2), len - n)
            /\ pos' = pos + n
    /\ UNCHANGED <<socket, length_incomplete, length, ends>>

client_last_packet_complete_Overrun ==
    /\ Reading
    /\ expect_bytes = 0
    /\ ~length_incomplete
    /\ count >= 2
    /\ \E len \in LengthAt(pos) \cap Legal :
        /\ Keep(Bytes(pos, len), 0)
        /\ pos' = pos + len
    /\ UNCHANGED <<socket, length_incomplete, length, ends>>

\* ... or with more.
client_last_packet_complete ==
    /\ Reading
    /\ expect_bytes = 0
    /\ ~length_incomplete
    /\ count >= 2
    /\ \E len \in LengthAt(pos) :
        IF len \notin Legal THEN ReadError
        ELSE LET n == IF count < len THEN count ELSE len
             IN  /\ Keep(Copy(Blank(len), 0, pos, n), len - n)
                 /\ pos' = pos + n
                 /\ UNCHANGED <<socket, length_incomplete, length, ends>>

\* Mutant: nothing is taken while a packet is incomplete.
take_packets_WhenWhole ==
    /\ open /\ ~corrupt
    /\ count = 0
    /\ lp = NULL
    /\ recv_packet_list # <<>>
    /\ handled' = handled \o recv_packet_list
    /\ recv_packet_list' = <<>>
    /\ UNCHANGED <<socket, reader, lp, open, corrupt>>

\* The piece is dealt with: the caller of read_packet takes what is complete.
take_packets ==
    /\ open /\ ~corrupt
    /\ count = 0
    /\ recv_packet_list # <<>>
    /\ handled' = handled \o recv_packet_list
    /\ recv_packet_list' = <<>>
    /\ UNCHANGED <<socket, reader, lp, open, corrupt>>

\* What the client's peer and the network do: the stream may be cut anywhere.
ClientPeer ==
    \/ \E len \in ClientLen : Len(sent) < ClientMax /\ Send(len)
    \/ \E n \in 1 .. End(sent) : Arrive(n)

ClientNext ==
    \/ (ClientPeer \/ Read) /\ UNCHANGED lp
    \/ client_last_packet_incomplete
    \/ client_last_packet_incomplete_1byte
    \/ client_first_byte
    \/ client_last_packet_complete
    \/ take_packets

-----------------------------------------------------------------------------
(* Properties.                                                             *)

\* lp is there exactly while bytes of it are expected, and what was handed
\* over, what waits and what is incomplete are the packets sent, in order: no
\* byte is lost or counted twice between two pieces (read_packet).
ClientAccounted ==
    open /\ ~corrupt =>
        /\ (lp # NULL) = (expect_bytes > 0)
        /\ lp # NULL => ~length_incomplete
        /\ Framed(handled \o recv_packet_list \o (IF lp = NULL THEN <<>> ELSE <<lp>>))

\* The comment of last_packet_incomplete (client_user.c:11-14): of a packet
\* that is incomplete, "just read the left data, and copy them to the last
\* packet".  Every packet is handed over as it was sent, in one read or more.
CutIsIntact == \A i \in DOMAIN handled : AsSent(i)
=============================================================================
