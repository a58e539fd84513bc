---------------------------- MODULE PacketStream ----------------------------
(***************************************************************************)
(* What cutting a byte stream into packets promises: wherever the network  *)
(* and the reads cut the bytes, the packets the peer sent are handed over  *)
(* one by one and in order, none before its last byte has arrived, and a   *)
(* peer that sends only packets of legal length is never cut off.  A       *)
(* packet is here only the part of the stream it takes up: of its contents *)
(* nothing is said.                                                        *)
(***************************************************************************)
EXTENDS Naturals, Sequences

CONSTANT Legal      \* the lengths a packet may have

VARIABLES
    sent,       \* the packets: where each begins in the stream, its length
    arrived,    \* how many bytes have arrived
    handled,    \* the packets handed over
    open        \* whether the stream is still being read

vars == <<sent, arrived, handled, open>>

\* Where in the stream the last packet of a sequence of packets ends.
End(ps) == IF ps = <<>> THEN 0 ELSE ps[Len(ps)].first + ps[Len(ps)].len

Init == sent = <<>> /\ arrived = 0 /\ handled = <<>> /\ open = TRUE

Send(len) ==
    /\ sent' = Append(sent, [first |-> End(sent), len |-> len])
    /\ UNCHANGED <<arrived, handled, open>>

Arrive ==
    /\ arrived' \in (arrived + 1) .. End(sent)
    /\ UNCHANGED <<sent, handled, open>>

\* Some of the packets that have arrived are handed over.
HandOver ==
    /\ \E n \in Len(handled) .. Len(sent) :
        /\ End(SubSeq(sent, 1, n)) <= arrived
        /\ handled' = SubSeq(sent, 1, n)
    /\ UNCHANGED <<sent, arrived, open>>

Next == (\E len \in Legal : Send(len)) \/ Arrive \/ HandOver

Spec == Init /\ [][Next]_vars
=============================================================================
