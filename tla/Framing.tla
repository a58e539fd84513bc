------------------------------- MODULE Framing -------------------------------
(***************************************************************************)
(* What the connection server (conn/conn_network.c) and the client         *)
(* (client/client_user.c) have in common when they read packets off a TCP  *)
(* stream: the stream, the calls of read that fetch a piece of it, the     *)
(* blocks packets are put together in, and the state of the reader between *)
(* two pieces.  The loop of read_packet over one piece is taken apart:     *)
(* each turn of it is a step.                                              *)
(*                                                                         *)
(* A byte is named by its place in the stream, from 0; its value matters   *)
(* only where a packet begins.  A packet in memory is the sequence of what *)
(* is at its places, as many as the length in its first two bytes says.    *)
(***************************************************************************)
EXTENDS Integers, Sequences

CONSTANTS
    PACKET_HEADER_LEN,  \* the length of the shortest packet
    MAX_PACKET_LEN,     \* the length of the longest
    BufSize             \* sizeof(buf): the most bytes one read returns

Legal == PACKET_HEADER_LEN .. MAX_PACKET_LEN

\* The length is the first field of the header, and it has two bytes.
ASSUME LengthAssumption ==
    /\ PACKET_HEADER_LEN \in Nat /\ MAX_PACKET_LEN \in Nat
    /\ 2 < PACKET_HEADER_LEN /\ PACKET_HEADER_LEN <= MAX_PACKET_LEN
ASSUME BufAssumption == BufSize \in Nat \ {0}

VARIABLES
    sent,               \* the packets sent: where each begins, its length
    arrived,            \* how many bytes have arrived
    read,               \* how many bytes were read off the socket
    cut,                \* history: the packets that no one read returned whole
    pos,                \* how many of the bytes read_packet has dealt with
    expect_bytes,       \* the bytes the incomplete packet lacks
    length_incomplete,  \* only the first byte of a length has come,
    length,             \*   and this is the byte
    recv_packet_list,   \* the packets that were received
    handled,            \* the packets that were handed over
    open,               \* the reader has met no error
    corrupt             \* memory behind a packet's block was overwritten

stream == <<sent, arrived>>
socket == <<sent, arrived, read, cut>>
reader == <<pos, expect_bytes, length_incomplete, length>>
ends   == <<handled, open, corrupt>>

End(ps) == IF ps = <<>> THEN 0 ELSE ps[Len(ps)].first + ps[Len(ps)].len
Bytes(first, n) == [k \in 1 .. n |-> first + k - 1]

\* What can be read as a length at a place of the stream: away from the
\* beginning of a packet, anything.
LengthAt(p) ==
    IF \E i \in DOMAIN sent : sent[i].first = p
    THEN {sent[i].len : i \in {j \in DOMAIN sent : sent[j].first = p}}
    ELSE 0 .. (MAX_PACKET_LEN + 1)

\* A place of a packet that nobody has written to, in a new block.
Junk == -1
Blank(len) == [k \in 1 .. len |-> Junk]

\* n bytes of the stream are copied to a packet, at an offset.  What is copied
\* behind its length is in its block, which has MAX_PACKET_LEN bytes.
Copy(packet, offset, from, n) ==
    [k \in DOMAIN packet |->
        IF k > offset /\ k <= offset + n THEN from + k - offset - 1 ELSE packet[k]]
Fits(offset, n) == offset + n <= MAX_PACKET_LEN

\* &packet->packet + have_read: a pointer to a struct packet, which is a header
\* long, is moved on by have_read of them.
Behind(have_read) == have_read * PACKET_HEADER_LEN

\* The bytes of the present piece that are not dealt with yet.
count == read - pos

FramingInit ==
    /\ sent = <<>> /\ arrived = 0 /\ read = 0 /\ cut = {} /\ pos = 0
    /\ expect_bytes = 0 /\ length_incomplete = FALSE /\ length = 0
    /\ recv_packet_list = <<>>
    /\ handled = <<>> /\ open = TRUE /\ corrupt = FALSE

FramingTypeOK ==
    /\ sent \in Seq([first : Nat, len : Legal])
    /\ arrived \in Nat /\ read \in 0 .. arrived /\ pos \in 0 .. read
    /\ cut \subseteq DOMAIN sent
    /\ expect_bytes \in Nat /\ length_incomplete \in BOOLEAN /\ length \in Nat
    /\ recv_packet_list \in Seq(Seq(Nat \cup {Junk}))
    /\ handled \in Seq(Seq(Nat \cup {Junk}))
    /\ open \in BOOLEAN /\ corrupt \in BOOLEAN

-----------------------------------------------------------------------------
(* The peer and the network.                                               *)

Send(len) ==
    /\ sent' = Append(sent, [first |-> End(sent), len |-> len])
    /\ UNCHANGED <<arrived, read, cut, reader, recv_packet_list, ends>>

\* A packet ends here.
Boundary(n) == \E i \in DOMAIN sent : n = End(SubSeq(sent, 1, i))

Arrive(n) ==
    /\ n > arrived
    /\ arrived' = n
    /\ UNCHANGED <<sent, read, cut, reader, recv_packet_list, ends>>

\* read or recv returns a piece: as much as there is, up to the buffer's size.
Read ==
    /\ open /\ ~corrupt
    /\ count = 0
    /\ read < arrived
    /\ read' = IF arrived - read < BufSize THEN arrived ELSE read + BufSize
    /\ cut' = cut \cup {i \in DOMAIN sent : /\ sent[i].first < read'
                                            /\ read' < sent[i].first + sent[i].len}
    /\ UNCHANGED <<stream, reader, recv_packet_list, ends>>

Reading == open /\ ~corrupt /\ count > 0

\* The reader returns -1: what was read is forgotten.
Fail ==
    /\ open' = FALSE
    /\ UNCHANGED <<socket, reader, recv_packet_list, handled, corrupt>>

\* The copy runs over the end of the block: what follows is not known.
Overrun ==
    /\ corrupt' = TRUE
    /\ UNCHANGED <<socket, reader, recv_packet_list, handled, open>>

-----------------------------------------------------------------------------
(* Properties.                                                             *)

Extents(packets) ==
    [i \in DOMAIN packets |-> [first |-> packets[i][1], len |-> Len(packets[i])]]

\* The packets are those sent first, and they end where read_packet is, but for
\* what the last of them lacks and the first byte of the next.
Framed(packets) ==
    /\ Extents(packets) = SubSeq(sent, 1, Len(packets))
    /\ End(Extents(packets)) + (IF length_incomplete THEN 1 ELSE 0)
        = pos + expect_bytes

AsSent(i) ==
    /\ i \in DOMAIN sent
    /\ handled[i] = Bytes(sent[i].first, sent[i].len)

\* A packet that one read has returned whole is handed over as it was sent,
\* whatever was read before it and with it (last_packet_complete).
WholeIsIntact == \A i \in DOMAIN handled \ cut : AsSent(i)

\* The packets sent are handed over one by one and in order, and a peer that sends
\* legal packets is never cut off: the client's reader however the packets are
\* cut, the server's if none arrives in two pieces (read_packet of either).
Stream == INSTANCE PacketStream WITH handled <- Extents(handled)
StreamSpec == Stream!Spec
=============================================================================
