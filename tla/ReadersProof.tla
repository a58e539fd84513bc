---------------------------- MODULE ReadersProof ----------------------------
(***************************************************************************)
(* Both readers find every packet, for any lengths of headers, packets and *)
(* buffers: the client's however the stream is cut, the server's where no  *)
(* packet arrives in two pieces.                                           *)
(*                                                                         *)
(* First what the two proofs share: where the packets sent are in the      *)
(* stream, and what it is to have found them there.  Then one inductive    *)
(* invariant for each reader.                                              *)
(***************************************************************************)
EXTENDS Readers, SequenceTheorems, TLAPS

Sent == [first : Nat, len : Legal]
Packet == Seq(Nat \cup {Junk})

\* Where the i-th packet begins, or will begin.
Start(i) == IF i <= Len(sent) THEN sent[i].first ELSE End(sent)

\* The packets sent are the stream, cut into pieces.
StreamInv ==
    /\ Start(1) = 0
    /\ \A i \in 1 .. Len(sent) : Start(i + 1) = sent[i].first + sent[i].len
    /\ \A i, j \in 1 .. Len(sent) : i < j => sent[i].first + sent[i].len <= sent[j].first
    /\ \A i \in 1 .. Len(sent) : sent[i].first + sent[i].len <= End(sent)
    /\ arrived <= End(sent)

\* The packets ps begin where those begin that were sent first, and are as long.
Tiles(ps) ==
    /\ Len(ps) <= Len(sent)
    /\ \A i \in 1 .. Len(ps) : ps[i][1] = sent[i].first /\ Len(ps[i]) = sent[i].len

\* A read that ends within a packet has it cut.
CutInv ==
    \A i \in 1 .. Len(sent) :
        sent[i].first < read /\ read < sent[i].first + sent[i].len => i \in cut

\* What is not cut is there as it was sent.
Intact(ps) ==
    \A i \in 1 .. Len(ps) : i \notin cut => ps[i] = Bytes(sent[i].first, sent[i].len)

-----------------------------------------------------------------------------
(* Packets in memory.                                                      *)

LEMMA LegalLength ==
    \A len \in Legal : len \in Nat /\ 2 < len /\ PACKET_HEADER_LEN <= len
  BY LengthAssumption DEF Legal

LEMMA SeqOfLength ==
    ASSUME NEW S, NEW n \in Nat, NEW f, f \in [1 .. n -> S]
    PROVE  f \in Seq(S) /\ Len(f) = n
<1>1. f \in Seq(S)
  BY SeqDef
<1>2. QED BY <1>1, LenProperties

LEMMA BlankPacket ==
    ASSUME NEW len \in Nat
    PROVE  Blank(len) \in Packet /\ Len(Blank(len)) = len
<1>1. Blank(len) \in [1 .. len -> Nat \cup {Junk}]
  BY DEF Blank
<1>2. QED BY <1>1, SeqOfLength DEF Packet

LEMMA CopyPacket ==
    ASSUME NEW packet \in Packet, NEW offset \in Nat, NEW from \in Nat, NEW n \in Nat
    PROVE  LET c == Copy(packet, offset, from, n)
           IN  /\ c \in Packet /\ Len(c) = Len(packet)
               /\ \A k \in 1 .. Len(packet) :
                    c[k] = IF k > offset /\ k <= offset + n
                           THEN from + k - offset - 1 ELSE packet[k]
<1> DEFINE c == Copy(packet, offset, from, n)
<1>1. /\ DOMAIN packet = 1 .. Len(packet) /\ Len(packet) \in Nat
      /\ \A k \in 1 .. Len(packet) : packet[k] \in Nat \cup {Junk}
  BY LenProperties, ElementOfSeq DEF Packet
<1>2. \A k \in 1 .. Len(packet) : k > offset => from + k - offset - 1 \in Nat
  BY <1>1
<1>3. c \in [1 .. Len(packet) -> Nat \cup {Junk}]
  BY <1>1, <1>2 DEF Copy
<1>4. c \in Packet /\ Len(c) = Len(packet)
  BY <1>1, <1>3, SeqOfLength DEF Packet
<1>5. \A k \in 1 .. Len(packet) :
        c[k] = IF k > offset /\ k <= offset + n
               THEN from + k - offset - 1 ELSE packet[k]
  BY <1>1 DEF Copy
<1>6. QED BY <1>4, <1>5

\* What is copied at once to a new block, and fills it, is as it was sent.
LEMMA CopyWhole ==
    ASSUME NEW len \in Nat, NEW from \in Nat
    PROVE  Copy(Blank(len), 0, from, len) = Bytes(from, len)
<1>1. DOMAIN Blank(len) = 1 .. len
  BY DEF Blank
<1>2. QED BY <1>1 DEF Copy, Bytes

-----------------------------------------------------------------------------
(* The stream.                                                             *)

LEMMA StreamTypes ==
    ASSUME FramingTypeOK
    PROVE  /\ sent \in Seq(Sent) /\ Len(sent) \in Nat /\ DOMAIN sent = 1 .. Len(sent)
           /\ \A i \in 1 .. Len(sent) :
                sent[i] \in Sent /\ sent[i].first \in Nat /\ sent[i].len \in Legal
           /\ End(sent) \in Nat /\ arrived \in Nat /\ read \in Nat /\ pos \in Nat
           /\ read <= arrived /\ pos <= read
<1>1. /\ sent \in Seq(Sent) /\ Len(sent) \in Nat /\ DOMAIN sent = 1 .. Len(sent)
      /\ \A i \in 1 .. Len(sent) : sent[i] \in Sent
  BY LenProperties, ElementOfSeq DEF FramingTypeOK, Sent
<1>2. \A i \in 1 .. Len(sent) : sent[i].first \in Nat /\ sent[i].len \in Legal
  BY <1>1 DEF Sent
<1>3. sent # <<>> => Len(sent) \in 1 .. Len(sent)
  BY <1>1, EmptySeq
<1>4. End(sent) \in Nat
  BY <1>2, <1>3, LegalLength DEF End
<1>5. QED BY <1>1, <1>2, <1>4 DEF FramingTypeOK

LEMMA StreamInit ==
    ASSUME FramingInit
    PROVE  FramingTypeOK /\ StreamInv /\ CutInv
<1>1. sent = <<>> /\ Len(sent) = 0 /\ 1 .. Len(sent) = {}
  BY EmptySeq DEF FramingInit
<1>2. /\ sent \in Seq([first : Nat, len : Legal])
      /\ handled \in Seq(Seq(Nat \cup {Junk}))
      /\ recv_packet_list \in Seq(Seq(Nat \cup {Junk}))
  BY EmptySeq DEF FramingInit
<1>3. FramingTypeOK
  <2>1. /\ arrived \in Nat /\ read \in 0 .. arrived /\ pos \in 0 .. read
        /\ expect_bytes \in Nat /\ length \in Nat
    BY DEF FramingInit
  <2>2. /\ cut \subseteq DOMAIN sent
        /\ length_incomplete \in BOOLEAN /\ open \in BOOLEAN /\ corrupt \in BOOLEAN
    BY DEF FramingInit
  <2>3. QED BY <1>2, <2>1, <2>2 DEF FramingTypeOK
<1>4. StreamInv /\ CutInv
  BY <1>1 DEF FramingInit, StreamInv, CutInv, Start, End
<1>5. QED BY <1>3, <1>4

\* At the place where a packet begins, its length is read.
LEMMA LengthFound ==
    ASSUME FramingTypeOK, StreamInv, NEW n \in Nat, n <= Len(sent), Start(n + 1) < End(sent)
    PROVE  /\ n + 1 \in 1 .. Len(sent)
           /\ sent[n + 1].first = Start(n + 1)
           /\ LengthAt(Start(n + 1)) = {sent[n + 1].len}
<1>1. n + 1 <= Len(sent)
  BY StreamTypes DEF Start
<1>2. n + 1 \in 1 .. Len(sent) /\ sent[n + 1].first = Start(n + 1)
  BY <1>1, StreamTypes DEF Start
<1>3. \A j \in 1 .. Len(sent) : sent[j].first = sent[n + 1].first => j = n + 1
  <2> SUFFICES ASSUME NEW j \in 1 .. Len(sent), sent[j].first = sent[n + 1].first,
                      j # n + 1
               PROVE  FALSE
    OBVIOUS
  <2>1. j < n + 1 \/ n + 1 < j
    BY StreamTypes
  <2>2. /\ sent[j].len \in Nat /\ sent[n + 1].len \in Nat
        /\ 0 < sent[j].len /\ 0 < sent[n + 1].len
        /\ sent[j].first \in Nat
    BY <1>2, StreamTypes, LegalLength
  <2>3. /\ j < n + 1 => sent[j].first + sent[j].len <= sent[n + 1].first
        /\ n + 1 < j => sent[n + 1].first + sent[n + 1].len <= sent[j].first
    BY <1>2 DEF StreamInv
  <2>4. QED BY <2>1, <2>2, <2>3
<1>4. DOMAIN sent = 1 .. Len(sent)
  BY StreamTypes
<1>5. {j \in DOMAIN sent : sent[j].first = Start(n + 1)} = {n + 1}
  BY <1>2, <1>3, <1>4
<1>6. \E i \in DOMAIN sent : sent[i].first = Start(n + 1)
  BY <1>2, <1>4
<1>7. QED BY <1>2, <1>5, <1>6 DEF LengthAt

\* Another packet is sent: those before are where they were.
LEMMA SendStep ==
    ASSUME FramingTypeOK, StreamInv, CutInv, NEW len \in Legal, Send(len)
    PROVE  /\ FramingTypeOK' /\ StreamInv' /\ CutInv'
           /\ Len(sent') = Len(sent) + 1
           /\ \A i \in 1 .. Len(sent) : sent'[i] = sent[i]
           /\ \A i \in 1 .. Len(sent) + 1 : Start(i)' = Start(i)
<1> DEFINE p == [first |-> End(sent), len |-> len]
<1>1. /\ sent' = Append(sent, p)
      /\ UNCHANGED <<arrived, read, cut, reader, recv_packet_list, ends>>
  BY DEF Send
<1>2. len \in Legal /\ p \in Sent /\ p.first = End(sent) /\ p.len = len
  BY StreamTypes DEF Sent
<1> HIDE DEF p
<1>3. /\ sent' \in Seq(Sent) /\ Len(sent') = Len(sent) + 1 /\ sent' # <<>>
      /\ \A i \in 1 .. Len(sent) : sent'[i] = sent[i]
      /\ sent'[Len(sent) + 1] = p
      /\ DOMAIN sent' = 1 .. (Len(sent) + 1)
  BY <1>1, <1>2, StreamTypes, AppendProperties, LenProperties
<1>4. End(sent)' = End(sent) + len
  BY <1>2, <1>3, StreamTypes DEF End
<1>5. \A i \in 1 .. Len(sent) + 1 : Start(i)' = Start(i)
  BY <1>2, <1>3, StreamTypes DEF Start
<1>6. FramingTypeOK'
  <2>1. cut' \subseteq DOMAIN sent'
    BY <1>1, <1>3, StreamTypes DEF FramingTypeOK
  <2>2. QED BY <1>1, <1>3, <2>1 DEF FramingTypeOK, Sent, reader, ends
<1>7. \A i \in 1 .. Len(sent) : sent'[i].first + sent'[i].len <= End(sent)
  BY <1>3 DEF StreamInv
<1>8. StreamInv'
  <2>1. Start(1)' = 0
    BY <1>5, StreamTypes DEF StreamInv
  <2>2. \A i \in 1 .. Len(sent') : Start(i + 1)' = sent'[i].first + sent'[i].len
    <3> SUFFICES ASSUME NEW i \in 1 .. Len(sent')
                 PROVE  Start(i + 1)' = sent'[i].first + sent'[i].len
      OBVIOUS
    <3>1. CASE i <= Len(sent)
      <4>1. i \in 1 .. Len(sent) /\ i + 1 \in 1 .. Len(sent) + 1
        BY <1>3, <3>1, StreamTypes
      <4>2. QED BY <4>1, <1>3, <1>5 DEF StreamInv
    <3>2. CASE i = Len(sent) + 1
      BY <3>2, <1>2, <1>3, <1>4, StreamTypes DEF Start
    <3>3. QED BY <1>3, <3>1, <3>2, StreamTypes
  <2>3. \A i, j \in 1 .. Len(sent') :
            i < j => sent'[i].first + sent'[i].len <= sent'[j].first
    <3> SUFFICES ASSUME NEW i \in 1 .. Len(sent'), NEW j \in 1 .. Len(sent'), i < j
                 PROVE  sent'[i].first + sent'[i].len <= sent'[j].first
      OBVIOUS
    <3>1. i \in 1 .. Len(sent) /\ (j \in 1 .. Len(sent) \/ j = Len(sent) + 1)
      BY <1>3, StreamTypes
    <3>2. QED BY <3>1, <1>2, <1>3, <1>7 DEF StreamInv
  <2>4. \A i \in 1 .. Len(sent') : sent'[i].first + sent'[i].len <= End(sent)'
    <3> SUFFICES ASSUME NEW i \in 1 .. Len(sent')
                 PROVE  sent'[i].first + sent'[i].len <= End(sent)'
      OBVIOUS
    <3>1. End(sent) \in Nat /\ len \in Nat
      BY <1>2, StreamTypes, LegalLength
    <3>2. CASE i = Len(sent) + 1
      BY <3>1, <3>2, <1>2, <1>3, <1>4
    <3>3. CASE i \in 1 .. Len(sent)
      <4>1. sent'[i].first + sent'[i].len \in Nat
        <5>1. sent[i].first \in Nat /\ sent[i].len \in Legal
          BY <3>3, StreamTypes
        <5>2. QED BY <5>1, <3>3, <1>3, LegalLength
      <4>2. QED BY <4>1, <3>1, <3>3, <1>4, <1>7
    <3>4. QED BY <1>3, <3>2, <3>3, StreamTypes
  <2>5. arrived' <= End(sent)'
    BY <1>1, <1>2, <1>4, StreamTypes, LegalLength DEF StreamInv
  <2>6. QED BY <2>1, <2>2, <2>3, <2>4, <2>5 DEF StreamInv
<1>9. CutInv'
  <2> SUFFICES ASSUME NEW i \in 1 .. Len(sent'), sent'[i].first < read,
                      read < sent'[i].first + sent'[i].len
               PROVE  i \in cut
    BY <1>1 DEF CutInv
  <2>1. CASE i \in 1 .. Len(sent)
    BY <2>1, <1>3 DEF CutInv
  <2>2. CASE i = Len(sent) + 1
    BY <2>2, <1>2, <1>3, StreamTypes DEF StreamInv
  <2>3. QED BY <1>3, <2>1, <2>2, StreamTypes
<1>10. QED BY <1>3, <1>5, <1>6, <1>8, <1>9

LEMMA ArriveStep ==
    ASSUME FramingTypeOK, StreamInv, CutInv, NEW n \in 1 .. End(sent), Arrive(n)
    PROVE  FramingTypeOK' /\ StreamInv' /\ CutInv'
<1>1. /\ arrived' = n /\ n > arrived
      /\ UNCHANGED <<sent, read, cut, reader, recv_packet_list, ends>>
  BY DEF Arrive
<1>2. n \in Nat /\ n <= End(sent)
  BY StreamTypes
<1>3. FramingTypeOK'
  BY <1>1, <1>2, StreamTypes DEF FramingTypeOK, reader, ends
<1>4. StreamInv'
  BY <1>1, <1>2 DEF StreamInv, Start
<1>5. QED BY <1>1, <1>3, <1>4 DEF CutInv

LEMMA ReadStep ==
    ASSUME FramingTypeOK, StreamInv, CutInv, Read
    PROVE  FramingTypeOK' /\ StreamInv' /\ CutInv' /\ cut \subseteq cut'
<1>1. UNCHANGED <<sent, arrived, reader, recv_packet_list, ends>>
  BY DEF Read, stream
<1>2. read' \in 0 .. arrived /\ read <= read'
  BY BufAssumption, StreamTypes DEF Read
<1>3. cut' = cut \cup {i \in DOMAIN sent : /\ sent[i].first < read'
                                          /\ read' < sent[i].first + sent[i].len}
  BY DEF Read
<1>4. FramingTypeOK'
  BY <1>1, <1>2, <1>3, StreamTypes DEF FramingTypeOK, reader, ends
<1>5. StreamInv'
  BY <1>1 DEF StreamInv, Start
<1>6. CutInv'
  BY <1>1, <1>3, StreamTypes DEF CutInv
<1>7. QED BY <1>3, <1>4, <1>5, <1>6

\* No packet is partly there if none may be split.
ArrivedInv == \E n \in 0 .. Len(sent) : arrived = Start(n + 1)

\* Nothing that ends a packet is within another.
LEMMA BoundaryNotWithin ==
    ASSUME FramingTypeOK, StreamInv, NEW i \in 1 .. Len(sent), NEW n \in 0 .. Len(sent)
    PROVE  /\ Start(i) \in Nat /\ Start(i) = sent[i].first
           /\ Start(i + 1) = Start(i) + sent[i].len
           /\ Start(n + 1) <= Start(i) \/ Start(i + 1) <= Start(n + 1)
<1>1. /\ Start(i) = sent[i].first /\ Start(i) \in Nat
      /\ Start(i + 1) = Start(i) + sent[i].len /\ Start(i + 1) \in Nat
  <2>1. sent[i].first \in Nat /\ sent[i].len \in Nat /\ i <= Len(sent)
    BY StreamTypes, LegalLength
  <2>2. Start(i) = sent[i].first
    BY <2>1 DEF Start
  <2>3. Start(i + 1) = sent[i].first + sent[i].len
    BY DEF StreamInv
  <2>4. QED BY <2>1, <2>2, <2>3
<1>2. CASE n < i
  <2>1. CASE n = 0
    BY <1>1, <2>1 DEF StreamInv
  <2>2. CASE n # 0
    <3>1. n \in 1 .. Len(sent)
      BY <2>2, StreamTypes
    <3>2. Start(n + 1) = sent[n].first + sent[n].len
      BY <3>1 DEF StreamInv
    <3>3. QED BY <1>1, <1>2, <3>1, <3>2 DEF StreamInv
  <2>3. QED BY <2>1, <2>2
<1>3. CASE n = i
  BY <1>1, <1>3
<1>4. CASE i < n
  <2>1. n \in 1 .. Len(sent)
    BY <1>4, StreamTypes
  <2>2. Start(n + 1) = sent[n].first + sent[n].len /\ sent[n].len \in Nat
        /\ sent[n].first \in Nat
    BY <2>1, StreamTypes, LegalLength DEF StreamInv
  <2>3. sent[i].first + sent[i].len <= sent[n].first
    BY <1>4, <2>1 DEF StreamInv
  <2>4. QED BY <1>1, <2>2, <2>3
<1>5. QED BY <1>2, <1>3, <1>4, StreamTypes

LEMMA PrefixEnd ==
    ASSUME FramingTypeOK, StreamInv, NEW i \in 1 .. Len(sent)
    PROVE  End(SubSeq(sent, 1, i)) = Start(i + 1)
<1> DEFINE ss == SubSeq(sent, 1, i)
<1>1. \A j \in 1 .. i : sent[j] \in Sent
  BY StreamTypes
<1>2. /\ ss \in Seq(Sent) /\ Len(ss) = (IF 1 <= i THEN i - 1 + 1 ELSE 0)
      /\ \A j \in 1 .. i - 1 + 1 : ss[j] = sent[1 + j - 1]
  BY <1>1, SubSeqProperties
<1> HIDE DEF ss
<1>3. Len(ss) = i /\ ss[i] = sent[i] /\ ss # <<>>
  BY <1>2, EmptySeq
<1>4. End(ss) = sent[i].first + sent[i].len
  BY <1>3 DEF End
<1>5. QED BY <1>4 DEF StreamInv, ss

LEMMA ArrivedStep ==
    ASSUME FramingTypeOK, StreamInv, CutInv, ArrivedInv, ~MaySplit, ServerPeer \/ Read
    PROVE  ArrivedInv'
<1>1. ASSUME NEW len \in Legal, Send(len) PROVE ArrivedInv'
  <2>1. PICK n \in 0 .. Len(sent) : arrived = Start(n + 1)
    BY DEF ArrivedInv
  <2>2. Len(sent') = Len(sent) + 1 /\ Start(n + 1)' = Start(n + 1)
    BY <1>1, SendStep, StreamTypes
  <2>3. n \in 0 .. Len(sent') /\ arrived' = Start(n + 1)'
    BY <1>1, <2>1, <2>2, StreamTypes DEF Send
  <2>4. QED BY <2>3 DEF ArrivedInv
<1>2. ASSUME NEW n \in 1 .. End(sent), Boundary(n), Arrive(n) PROVE ArrivedInv'
  <2>1. arrived' = n /\ sent' = sent /\ Boundary(n)
    BY <1>2 DEF Arrive
  <2>2. PICK i \in 1 .. Len(sent) : n = End(SubSeq(sent, 1, i))
    BY <2>1, StreamTypes DEF Boundary
  <2>3. arrived' = Start(i + 1)' /\ i \in 0 .. Len(sent')
    BY <2>1, <2>2, PrefixEnd DEF Start
  <2>4. QED BY <2>3 DEF ArrivedInv
<1>3. CASE Read
  BY <1>3 DEF Read, stream, ArrivedInv, Start
<1>4. QED BY <1>1, <1>2, <1>3, ServerAssumption DEF ServerPeer

-----------------------------------------------------------------------------
(* The packets that were found.                                            *)

\* The packets on the list and those before; for the client, the complete ones.
Found == handled \o recv_packet_list

LEMMA TilesType ==
    ASSUME FramingTypeOK, NEW ps \in Seq(Packet)
    PROVE  Len(ps) \in Nat /\ DOMAIN ps = 1 .. Len(ps)
  BY LenProperties

\* The next packet is found.
LEMMA TilesNext ==
    ASSUME FramingTypeOK, NEW ps \in Seq(Packet), Tiles(ps),
           Len(ps) + 1 \in 1 .. Len(sent),
           NEW packet \in Packet,
           packet[1] = sent[Len(ps) + 1].first, Len(packet) = sent[Len(ps) + 1].len
    PROVE  /\ Append(ps, packet) \in Seq(Packet)
           /\ Len(Append(ps, packet)) = Len(ps) + 1
           /\ Tiles(Append(ps, packet))
<1> DEFINE qs == Append(ps, packet)
<1>1. /\ qs \in Seq(Packet) /\ Len(qs) = Len(ps) + 1
      /\ \A i \in 1 .. Len(ps) : qs[i] = ps[i]
      /\ qs[Len(ps) + 1] = packet
  BY AppendProperties
<1> HIDE DEF qs
<1>2. \A i \in 1 .. Len(qs) : i \in 1 .. Len(ps) \/ i = Len(ps) + 1
  BY <1>1, TilesType
<1>3. Tiles(qs)
  <2>1. Len(qs) <= Len(sent)
    BY <1>1, StreamTypes
  <2>2. ASSUME NEW k \in 1 .. Len(qs)
        PROVE  qs[k][1] = sent[k].first /\ Len(qs[k]) = sent[k].len
    <3>1. CASE k \in 1 .. Len(ps)
      BY <1>1, <3>1 DEF Tiles
    <3>2. CASE k = Len(ps) + 1
      BY <1>1, <3>2
    <3>3. QED BY <1>2, <3>1, <3>2
  <2>3. QED BY <2>1, <2>2 DEF Tiles
<1>4. QED BY <1>1, <1>3 DEF qs

\* More is sent, and cut.
LEMMA TilesKept ==
    ASSUME FramingTypeOK, NEW ps, Len(ps) \in Nat, Tiles(ps), Intact(ps),
           Len(sent') \in Nat, Len(sent) <= Len(sent'),
           \A i \in 1 .. Len(sent) : sent'[i] = sent[i],
           cut \subseteq cut'
    PROVE  /\ Len(ps) <= Len(sent')
           /\ \A i \in 1 .. Len(ps) :
                ps[i][1] = sent'[i].first /\ Len(ps[i]) = sent'[i].len
           /\ \A i \in 1 .. Len(ps) :
                i \notin cut' => ps[i] = Bytes(sent'[i].first, sent'[i].len)
<1>1. /\ Len(ps) <= Len(sent) /\ Len(sent) \in Nat
      /\ \A i \in 1 .. Len(ps) : i \in 1 .. Len(sent)
  BY StreamTypes DEF Tiles
<1>2. Len(ps) <= Len(sent')
  BY <1>1
<1>3. \A i \in 1 .. Len(ps) :
        /\ ps[i][1] = sent[i].first /\ Len(ps[i]) = sent[i].len
        /\ i \notin cut => ps[i] = Bytes(sent[i].first, sent[i].len)
  BY DEF Tiles, Intact
<1>4. \A i \in 1 .. Len(ps) : sent'[i] = sent[i]
  BY <1>1
<1>5. QED BY <1>2, <1>3, <1>4

\* Packets that were found are those sent first.
LEMMA TilesExtents ==
    ASSUME FramingTypeOK, StreamInv, NEW ps \in Seq(Packet), Tiles(ps)
    PROVE  /\ Extents(ps) = SubSeq(sent, 1, Len(ps))
           /\ Len(Extents(ps)) = Len(ps)
           /\ End(Extents(ps)) = Start(Len(ps) + 1)
<1> DEFINE es == Extents(ps)
           n == Len(ps)
<1>1. n \in Nat /\ n <= Len(sent) /\ DOMAIN ps = 1 .. n
  BY TilesType DEF Tiles
<1>2. \A i \in 1 .. n : sent[i] = [first |-> sent[i].first, len |-> sent[i].len]
                        /\ sent[i] \in Sent /\ i \in 1 .. Len(sent)
  BY <1>1, StreamTypes DEF Sent
<1>3. es = [i \in 1 .. n |-> sent[i]]
  BY <1>1, <1>2 DEF Extents, Tiles
<1>4. es \in Seq(Sent) /\ Len(es) = n
  <2>1. es \in [1 .. n -> Sent]
    BY <1>2, <1>3
  <2>2. QED BY <1>1, <2>1, SeqOfLength
<1> DEFINE ss == SubSeq(sent, 1, n)
<1>5. ss \in Seq(Sent) /\ Len(ss) = n /\ \A i \in 1 .. n : ss[i] = sent[i]
  <2>1. \A i \in 1 .. n : sent[i] \in Sent
    BY <1>2
  <2>2. /\ ss \in Seq(Sent) /\ Len(ss) = (IF 1 <= n THEN n - 1 + 1 ELSE 0)
        /\ \A i \in 1 .. n - 1 + 1 : ss[i] = sent[1 + i - 1]
    BY <1>1, <2>1, SubSeqProperties
  <2> HIDE DEF ss
  <2>3. QED BY <1>1, <2>2
<1>6. es = ss
  <2> HIDE DEF es, ss
  <2>1. \A i \in 1 .. n : es[i] = ss[i]
    BY <1>3, <1>5
  <2>2. QED BY <1>4, <1>5, <2>1, SeqEqual
<1>7. End(es) = Start(n + 1)
  <2> HIDE DEF es
  <2>1. CASE n = 0
    <3>1. es = <<>>
      BY <1>4, <2>1, EmptySeq
    <3>2. QED BY <2>1, <3>1 DEF End, StreamInv
  <2>2. CASE n # 0
    <3>1. es # <<>> /\ n \in 1 .. n
      BY <1>1, <1>4, <2>2, EmptySeq
    <3>2. End(es) = sent[n].first + sent[n].len
      BY <1>3, <1>4, <3>1 DEF End
    <3>3. QED BY <1>2, <3>1, <3>2 DEF StreamInv
  <2>3. QED BY <2>1, <2>2
<1>8. QED BY <1>4, <1>6, <1>7

LEMMA FoundTypes ==
    ASSUME FramingTypeOK
    PROVE  /\ FramingTypeOK
           /\ handled \in Seq(Packet) /\ recv_packet_list \in Seq(Packet)
           /\ Found \in Seq(Packet)
           /\ Len(Found) = Len(handled) + Len(recv_packet_list)
           /\ Len(Found) \in Nat /\ Len(handled) \in Nat /\ Len(recv_packet_list) \in Nat
           /\ \A i \in 1 .. Len(handled) : Found[i] = handled[i]
           /\ \A i \in 1 .. Len(recv_packet_list) :
                Found[Len(handled) + i] = recv_packet_list[i]
           /\ DOMAIN handled = 1 .. Len(handled) /\ DOMAIN Found = 1 .. Len(Found)
           /\ expect_bytes \in Nat /\ length \in Nat
           /\ length_incomplete \in BOOLEAN /\ pos \in Nat /\ read \in Nat
<1>1. FramingTypeOK /\ handled \in Seq(Packet) /\ recv_packet_list \in Seq(Packet)
  BY DEF FramingTypeOK, Packet
<1>2. /\ Found \in Seq(Packet) /\ Len(Found) = Len(handled) + Len(recv_packet_list)
      /\ \A i \in 1 .. Len(handled) + Len(recv_packet_list) :
            Found[i] = IF i <= Len(handled) THEN handled[i]
                       ELSE recv_packet_list[i - Len(handled)]
  BY <1>1, ConcatProperties DEF Found
<1>3. /\ Len(handled) \in Nat /\ Len(recv_packet_list) \in Nat
      /\ DOMAIN handled = 1 .. Len(handled) /\ DOMAIN Found = 1 .. Len(Found)
  BY <1>1, <1>2, LenProperties
<1>4. \A i \in 1 .. Len(handled) : Found[i] = handled[i]
  BY <1>2, <1>3
<1>5. \A i \in 1 .. Len(recv_packet_list) : Found[Len(handled) + i] = recv_packet_list[i]
  <2> SUFFICES ASSUME NEW i \in 1 .. Len(recv_packet_list)
               PROVE  Found[Len(handled) + i] = recv_packet_list[i]
    OBVIOUS
  <2>1. /\ Len(handled) + i \in 1 .. Len(handled) + Len(recv_packet_list)
        /\ ~(Len(handled) + i <= Len(handled))
        /\ (Len(handled) + i) - Len(handled) = i
    BY <1>3
  <2>2. QED BY <1>2, <2>1
<1>6. QED BY <1>1, <1>2, <1>3, <1>4, <1>5, StreamTypes DEF FramingTypeOK

\* Another packet is found.
LEMMA FoundNext ==
    ASSUME FramingTypeOK, NEW packet \in Packet, handled' = handled,
           recv_packet_list' = Append(recv_packet_list, packet)
    PROVE  Found' = Append(Found, packet)
<1>1. <<packet>> \in Seq(Packet)
  OBVIOUS
<1>2. Append(recv_packet_list, packet) = recv_packet_list \o <<packet>>
  BY FoundTypes, AppendIsConcat
<1>3. Append(Found, packet) = Found \o <<packet>>
  BY FoundTypes, AppendIsConcat
<1>4. handled \o (recv_packet_list \o <<packet>>) = Found \o <<packet>>
  <2>1. handled \in Seq(Packet) /\ recv_packet_list \in Seq(Packet)
    BY FoundTypes
  <2>2. QED BY <1>1, <2>1, ConcatAssociative DEF Found
<1>5. QED BY <1>2, <1>3, <1>4 DEF Found

\* Nothing of the stream is changed by the reader.
LEMMA StreamFrame ==
    ASSUME StreamInv, CutInv, UNCHANGED <<sent, arrived, read, cut>>
    PROVE  StreamInv' /\ CutInv' /\ (ArrivedInv => ArrivedInv')
  BY DEF StreamInv, CutInv, ArrivedInv, Start, End

\* Nothing of what was found is changed by the peer and the network, nor by a read.
LEMMA PeerStep ==
    ASSUME FramingTypeOK, StreamInv, CutInv, ClientPeer \/ ServerPeer \/ Read
    PROVE  /\ FramingTypeOK' /\ StreamInv' /\ CutInv'
           /\ UNCHANGED <<reader, recv_packet_list, ends>>
           /\ Found' = Found
           /\ Len(sent') \in Nat /\ Len(sent) <= Len(sent') /\ cut \subseteq cut'
           /\ \A i \in 1 .. Len(sent) : i \in 1 .. Len(sent') /\ sent'[i] = sent[i]
           /\ \A i \in 1 .. Len(sent) + 1 : Start(i)' = Start(i)
           /\ Tiles(handled) /\ Intact(handled) => Tiles(handled)' /\ Intact(handled)'
           /\ Tiles(Found) /\ Intact(Found) => Tiles(Found)' /\ Intact(Found)'
<1> DEFINE Moved ==
            /\ FramingTypeOK' /\ StreamInv' /\ CutInv'
            /\ UNCHANGED <<reader, recv_packet_list, ends>>
            /\ Len(sent') >= Len(sent)
            /\ \A i \in 1 .. Len(sent) : sent'[i] = sent[i]
            /\ \A i \in 1 .. Len(sent) + 1 : Start(i)' = Start(i)
            /\ cut \subseteq cut'
<1>1. Moved
  <2>1. ASSUME NEW len \in Legal, Send(len) PROVE Moved
    <3>1. cut' = cut /\ UNCHANGED <<reader, recv_packet_list, ends>>
      BY <2>1 DEF Send
    <3>2. QED BY <2>1, <3>1, SendStep, StreamTypes
  <2>2. ASSUME NEW n \in 1 .. End(sent), Arrive(n) PROVE Moved
    <3>1. cut' = cut /\ sent' = sent /\ UNCHANGED <<reader, recv_packet_list, ends>>
      BY <2>2 DEF Arrive
    <3>2. QED BY <2>2, <3>1, ArriveStep, StreamTypes DEF Start
  <2>3. ASSUME Read PROVE Moved
    <3>1. sent' = sent /\ UNCHANGED <<reader, recv_packet_list, ends>>
      BY <2>3 DEF Read, stream
    <3>2. QED BY <2>3, <3>1, ReadStep, StreamTypes DEF Start
  <2> HIDE DEF Moved
  <2>4. QED BY <2>1, <2>2, <2>3, ClientAssumption, ServerAssumption
            DEF ClientPeer, ServerPeer
<1>2. Found' = Found /\ handled' = handled
  BY <1>1 DEF Found, ends
<1>3. /\ Len(sent') \in Nat /\ Len(sent) <= Len(sent')
      /\ \A i \in 1 .. Len(sent) : i \in 1 .. Len(sent') /\ sent'[i] = sent[i]
      /\ cut \subseteq cut'
  <2>1. Len(sent') \in Nat
    BY <1>1, LenProperties DEF FramingTypeOK
  <2>2. QED BY <1>1, <2>1, StreamTypes
<1> HIDE DEF Moved
<1>4. Tiles(handled) /\ Intact(handled) => Tiles(handled)' /\ Intact(handled)'
  <2>1. Len(handled) \in Nat
    BY FoundTypes
  <2>2. QED BY <1>2, <1>3, <2>1, TilesKept DEF Tiles, Intact
<1>5. Tiles(Found) /\ Intact(Found) => Tiles(Found)' /\ Intact(Found)'
  <2>1. Len(Found) \in Nat
    BY FoundTypes
  <2>2. QED BY <1>2, <1>3, <2>1, TilesKept DEF Tiles, Intact
<1>6. QED BY <1>1, <1>2, <1>3, <1>4, <1>5 DEF Moved

-----------------------------------------------------------------------------
(* The client.                                                             *)

ClientTypeOK == FramingTypeOK /\ lp \in Packet

\* The reader is between two packets, but for the first byte of a length.
ClientBetween ==
    /\ lp = NULL
    /\ expect_bytes = 0
    /\ Start(Len(Found) + 1) + (IF length_incomplete THEN 1 ELSE 0) = pos
    /\ length_incomplete => length + 1 = pos /\ Len(Found) + 1 \in cut

\* It is within the next one, that was cut.
ClientWithin ==
    /\ lp # NULL
    /\ 0 < expect_bytes /\ expect_bytes < Len(lp)
    /\ ~length_incomplete
    /\ Len(Found) + 1 \in 1 .. Len(sent) /\ Len(Found) + 1 \in cut
    /\ lp[1] = sent[Len(Found) + 1].first
    /\ Len(lp) = sent[Len(Found) + 1].len
    /\ Start(Len(Found) + 1) + Len(lp) = pos + expect_bytes

ClientAt == Tiles(Found) /\ Intact(Found) /\ (ClientBetween \/ ClientWithin)

ClientIInv ==
    /\ ClientTypeOK /\ StreamInv /\ CutInv
    /\ open
    /\ Tiles(handled) /\ Intact(handled)
    /\ ~corrupt => ClientAt

-----------------------------------------------------------------------------
(* The lists.                                                              *)

LEMMA ClientTypes ==
    ASSUME ClientTypeOK
    PROVE  /\ FramingTypeOK
           /\ handled \in Seq(Packet) /\ recv_packet_list \in Seq(Packet) /\ lp \in Packet
           /\ Found \in Seq(Packet)
           /\ Len(Found) \in Nat /\ DOMAIN Found = 1 .. Len(Found)
           /\ Len(handled) \in Nat /\ Len(handled) <= Len(Found)
           /\ \A i \in 1 .. Len(handled) : Found[i] = handled[i]
           /\ DOMAIN handled = 1 .. Len(handled)
           /\ Len(lp) \in Nat /\ expect_bytes \in Nat /\ length \in Nat
           /\ length_incomplete \in BOOLEAN /\ pos \in Nat /\ read \in Nat
<1>1. FramingTypeOK /\ lp \in Packet
  BY DEF ClientTypeOK
<1>2. Len(lp) \in Nat
  BY <1>1, LenProperties DEF Packet
<1>3. QED BY <1>1, <1>2, FoundTypes

-----------------------------------------------------------------------------
(* The invariant.                                                          *)

LEMMA ClientStart == ClientInit => ClientIInv
<1> SUFFICES ASSUME ClientInit PROVE ClientIInv
  OBVIOUS
<1>1. /\ FramingTypeOK /\ StreamInv /\ CutInv
      /\ handled = <<>> /\ recv_packet_list = <<>> /\ lp = <<>>
      /\ open = TRUE /\ expect_bytes = 0 /\ length_incomplete = FALSE /\ pos = 0
  BY StreamInit DEF ClientInit, FramingInit, NULL
<1>2. ClientTypeOK
  BY <1>1, EmptySeq DEF ClientTypeOK, Packet
<1>3. Found = <<>>
  BY <1>1, EmptySeq, ConcatEmptySeq DEF Found
<1>4. Len(handled) = 0 /\ Len(Found) = 0
  BY <1>1, <1>3, EmptySeq
<1>5. Tiles(handled) /\ Intact(handled) /\ Tiles(Found) /\ Intact(Found)
  BY <1>1, <1>4, StreamTypes DEF Tiles, Intact
<1>6. ClientBetween
  BY <1>1, <1>4 DEF ClientBetween, NULL, StreamInv
<1>7. QED BY <1>1, <1>2, <1>5, <1>6 DEF ClientIInv, ClientAt

\* The peer and the network.
LEMMA ClientSocketStep ==
    ASSUME ClientIInv, UNCHANGED lp, ClientPeer \/ Read
    PROVE  ClientIInv'
<1>1. FramingTypeOK /\ StreamInv /\ CutInv
  BY ClientTypes DEF ClientIInv
<1>2. UNCHANGED <<reader, recv_packet_list, ends>>
  BY <1>1, PeerStep
<1>3. ClientTypeOK' /\ StreamInv' /\ CutInv' /\ Tiles(handled)' /\ Intact(handled)'
  BY <1>1, PeerStep DEF ClientIInv, ClientTypeOK
<1>4. ASSUME ~corrupt PROVE ClientAt'
  <2>1. ClientAt
    BY <1>4 DEF ClientIInv
  <2>2. Len(Found) + 1 \in 1 .. Len(sent) + 1
    <3>1. Len(Found) <= Len(sent)
      BY <2>1 DEF ClientAt, Tiles
    <3>2. Len(Found) \in Nat /\ Len(sent) \in Nat
      BY <1>1, FoundTypes, StreamTypes
    <3>3. QED BY <3>1, <3>2
  <2>3. Tiles(Found)' /\ Intact(Found)'
    BY <1>1, <2>1, PeerStep DEF ClientAt
  <2>4. /\ Found' = Found /\ cut \subseteq cut'
        /\ \A i \in 1 .. Len(sent) : i \in 1 .. Len(sent') /\ sent'[i] = sent[i]
        /\ Start(Len(Found) + 1)' = Start(Len(Found) + 1)
    BY <1>1, <2>2, PeerStep
  <2>5. ClientBetween => ClientBetween'
    BY <1>2, <2>4 DEF ClientBetween, reader
  <2>6. ClientWithin => ClientWithin'
    BY <1>2, <2>4 DEF ClientWithin, reader
  <2>7. QED BY <2>1, <2>3, <2>5, <2>6 DEF ClientAt
<1>5. QED BY <1>2, <1>3, <1>4 DEF ClientIInv, ends

\* A packet is kept, complete or not, and it is the next of those sent.
LEMMA KeepStep ==
    ASSUME ClientIInv, ~corrupt, UNCHANGED <<socket, ends>>,
           NEW packet \in Packet, NEW lacks \in Nat, Keep(packet, lacks),
           lacks < Len(packet),
           pos' \in 0 .. read, ~length_incomplete', length_incomplete' \in BOOLEAN,
           length' \in Nat,
           Len(Found) + 1 \in 1 .. Len(sent),
           packet[1] = sent[Len(Found) + 1].first,
           Len(packet) = sent[Len(Found) + 1].len,
           Start(Len(Found) + 1) + Len(packet) = pos' + lacks,
           \/ Len(Found) + 1 \in cut
           \/ lacks = 0 /\ packet = Bytes(sent[Len(Found) + 1].first, sent[Len(Found) + 1].len)
    PROVE  ClientIInv'
<1>1. ClientTypeOK /\ FramingTypeOK /\ StreamInv /\ CutInv /\ ClientAt
  BY ClientTypes DEF ClientIInv
<1>2. /\ UNCHANGED <<sent, arrived, read, cut, handled, open, corrupt>>
      /\ expect_bytes' = lacks
  BY DEF socket, ends, Keep
<1>3. lp' \in Packet /\ recv_packet_list' \in Seq(Packet)
  <2>1. NULL \in Packet
    BY EmptySeq DEF NULL, Packet
  <2>2. Append(recv_packet_list, packet) \in Seq(Packet)
    BY <1>1, ClientTypes, AppendProperties
  <2>3. QED BY <1>1, <2>1, <2>2, ClientTypes DEF Keep
<1>4. ClientTypeOK'
  BY <1>1, <1>2, <1>3 DEF ClientTypeOK, FramingTypeOK, Packet
<1>5. StreamInv' /\ CutInv' /\ Tiles(handled)' /\ Intact(handled)'
  BY <1>2 DEF ClientIInv, StreamInv, CutInv, Start, End, Tiles, Intact
<1>6. CASE lacks # 0
  <2>1. lp' = packet /\ recv_packet_list' = recv_packet_list
    BY <1>6 DEF Keep
  <2>2. Found' = Found
    BY <1>2, <2>1 DEF Found
  <2>3. Tiles(Found)' /\ Intact(Found)'
    BY <1>1, <1>2, <2>2 DEF ClientAt, Tiles, Intact
  <2>4. Start(Len(Found) + 1)' = Start(Len(Found) + 1)
    BY <1>2, <2>2 DEF Start, End
  <2>5. packet # NULL
    BY EmptySeq DEF NULL
  <2>6. ClientWithin'
    BY <1>2, <1>6, <2>1, <2>2, <2>4, <2>5 DEF ClientWithin
  <2>7. QED BY <1>2, <1>4, <1>5, <2>3, <2>6 DEF ClientIInv, ClientAt
<1>7. CASE lacks = 0
  <2>1. lp' = NULL /\ recv_packet_list' = Append(recv_packet_list, packet)
    BY <1>7 DEF Keep
  <2>2. Found' = Append(Found, packet)
    BY <1>1, <1>2, <2>1, FoundNext
  <2>3. /\ Append(Found, packet) \in Seq(Packet)
        /\ Len(Append(Found, packet)) = Len(Found) + 1
        /\ Tiles(Append(Found, packet))
    BY <1>1, ClientTypes, TilesNext DEF ClientAt
  <2>4. /\ \A i \in 1 .. Len(Found) : Append(Found, packet)[i] = Found[i]
        /\ Append(Found, packet)[Len(Found) + 1] = packet
    BY <1>1, ClientTypes, AppendProperties
  <2>5. Tiles(Found)'
    BY <1>2, <2>2, <2>3 DEF Tiles
  <2>6. Intact(Found)'
    <3> SUFFICES ASSUME NEW i \in 1 .. Len(Found'), i \notin cut
                 PROVE  Found'[i] = Bytes(sent[i].first, sent[i].len)
      BY <1>2 DEF Intact
    <3>1. i \in 1 .. Len(Found) \/ i = Len(Found) + 1
      <4>1. Len(Found) \in Nat
        BY <1>1, ClientTypes
      <4>2. Len(Found') = Len(Found) + 1
        BY <2>2, <2>3
      <4>3. QED BY <4>1, <4>2
    <3>2. CASE i \in 1 .. Len(Found)
      BY <3>2, <1>1, <2>2, <2>4 DEF ClientAt, Intact
    <3>3. CASE i = Len(Found) + 1
      BY <3>3, <2>2, <2>4
    <3>4. QED BY <3>1, <3>2, <3>3
  <2>7. Start(Len(Found) + 1)' = pos'
    <3>1. Start(Len(Found) + 1) = sent[Len(Found) + 1].first
      BY <1>1, StreamTypes, ClientTypes DEF Start
    <3>2. Start(Len(Found) + 1 + 1) = sent[Len(Found) + 1].first + sent[Len(Found) + 1].len
      BY <1>1 DEF StreamInv
    <3>3. Start(Len(Found) + 1)' = Start(Len(Found) + 1 + 1)
      BY <1>2, <2>2, <2>3 DEF Start, End
    <3>4. pos' \in Nat
      BY <1>1, StreamTypes
    <3>5. QED BY <1>7, <3>1, <3>2, <3>3, <3>4
  <2>8. ClientBetween'
    <3>1. pos' \in Nat /\ expect_bytes' = 0 /\ lp' = NULL
      BY <1>1, <1>2, <1>7, <2>1, StreamTypes
    <3>2. Start(Len(Found) + 1)' + (IF length_incomplete' THEN 1 ELSE 0) = pos'
      <4>1. Start(Len(Found) + 1)' + 0 = pos'
        BY <2>7, <3>1
      <4>2. QED BY <4>1
    <3>3. QED BY <3>1, <3>2 DEF ClientBetween
  <2>9. QED BY <1>2, <1>4, <1>5, <2>5, <2>6, <2>8 DEF ClientIInv, ClientAt
<1>8. QED BY <1>6, <1>7

\* Where the next packet begins, and its length.
LEMMA ClientNextFound ==
    ASSUME ClientIInv, Reading, expect_bytes = 0
    PROVE  LET n == Len(Found) + 1
           IN  /\ ClientBetween /\ Start(n) \in Nat
               /\ n \in 1 .. Len(sent) /\ sent[n].first = Start(n)
               /\ sent[n].len \in Legal
               /\ LengthAt(Start(n)) = {sent[n].len}
<1>1. ClientTypeOK /\ FramingTypeOK /\ StreamInv /\ ClientAt /\ pos < read /\ ~corrupt
  <2>1. pos < read
    BY ClientTypes, StreamTypes DEF ClientIInv, Reading, count
  <2>2. QED BY <2>1, ClientTypes DEF ClientIInv, Reading
<1>2. ClientBetween
  BY <1>1 DEF ClientAt, ClientWithin
<1>3. Len(Found) \in Nat /\ Len(Found) <= Len(sent)
  BY <1>1, ClientTypes DEF ClientAt, Tiles
<1>4. Start(Len(Found) + 1) \in Nat
  BY <1>1, <1>3, StreamTypes DEF Start
<1>5. Start(Len(Found) + 1) < End(sent)
  BY <1>1, <1>2, <1>4, StreamTypes DEF ClientBetween, StreamInv
<1>6. QED BY <1>1, <1>2, <1>3, <1>4, <1>5, LengthFound, StreamTypes

LEMMA ClientIncompleteStep ==
    ASSUME ClientIInv, client_last_packet_incomplete
    PROVE  ClientIInv'
<1> DEFINE at == Behind(Len(lp) - expect_bytes)
           n == IF count < expect_bytes THEN count ELSE expect_bytes
<1>1. /\ ClientTypeOK /\ FramingTypeOK /\ StreamInv /\ ClientAt /\ ~corrupt
      /\ pos < read /\ expect_bytes > 0 /\ count \in Nat \ {0} /\ count = read - pos
  BY ClientTypes, StreamTypes DEF ClientIInv, client_last_packet_incomplete, Reading, count
<1>2. ClientWithin
  BY <1>1, ClientTypes DEF ClientAt, ClientBetween
<1>3. CASE ~Fits(at, n)
  <2>1. corrupt' = TRUE /\ UNCHANGED <<socket, reader, handled, open, lp, recv_packet_list>>
    BY <1>2, <1>3 DEF client_last_packet_incomplete, Overrun, ClientWithin
  <2>2. ClientTypeOK'
    BY <1>1, <2>1 DEF ClientTypeOK, FramingTypeOK, socket, reader
  <2>3. QED BY <2>1, <2>2
        DEF ClientIInv, StreamInv, CutInv, Start, End, Tiles, Intact, socket
<1>4. CASE Fits(at, n)
  <2> DEFINE packet == Copy(lp, at, pos, n)
  <2>1. /\ Keep(packet, expect_bytes - n)
        /\ pos' = pos + n /\ UNCHANGED <<socket, length_incomplete, length, ends>>
    BY <1>2, <1>4 DEF client_last_packet_incomplete, ClientWithin
  <2>2. /\ n \in Nat /\ n <= expect_bytes /\ n <= read - pos
        /\ expect_bytes - n \in Nat
    BY <1>1, ClientTypes
  <2>3. at \in Nat /\ at >= 1
    <3>1. Len(lp) - expect_bytes \in Nat /\ Len(lp) - expect_bytes >= 1
      <4>1. Len(lp) \in Nat /\ expect_bytes \in Nat
        BY <1>1, ClientTypes
      <4>2. QED BY <1>2, <4>1 DEF ClientWithin
    <3>2. \A k \in Nat : k >= 1 => Behind(k) \in Nat /\ Behind(k) >= 1
      <4> SUFFICES ASSUME NEW k \in Nat, k >= 1
                   PROVE  Behind(k) \in Nat /\ Behind(k) >= 1
        OBVIOUS
      <4>1. PACKET_HEADER_LEN \in Nat /\ PACKET_HEADER_LEN >= 1
        BY LengthAssumption
      <4>2. k * PACKET_HEADER_LEN \in Nat /\ k * PACKET_HEADER_LEN >= 1
        BY <4>1
      <4>3. QED BY <4>2 DEF Behind
    <3>3. QED BY <3>1, <3>2
  <2> HIDE DEF n, at
  <2>4. /\ packet \in Packet /\ Len(packet) = Len(lp)
        /\ \A k \in 1 .. Len(lp) :
            packet[k] = IF k > at /\ k <= at + n THEN pos + k - at - 1 ELSE lp[k]
    <3>1. lp \in Packet /\ pos \in Nat
      BY <1>1, ClientTypes
    <3>2. QED BY <2>2, <2>3, <3>1, CopyPacket
  <2>5. packet[1] = lp[1]
    <3>1. 1 \in 1 .. Len(lp)
      BY <1>1, <1>2, ClientTypes DEF ClientWithin
    <3>2. QED BY <2>3, <2>4, <3>1
  <2> HIDE DEF packet
  <2>6. /\ pos' \in 0 .. read /\ ~length_incomplete' /\ length_incomplete' \in BOOLEAN
        /\ length' \in Nat
    <3>1. /\ pos \in Nat /\ read \in Nat /\ length \in Nat /\ ~length_incomplete
          /\ length_incomplete \in BOOLEAN
      BY <1>1, <1>2, ClientTypes DEF ClientWithin
    <3>2. pos' = pos + n /\ length_incomplete' = length_incomplete /\ length' = length
      BY <2>1
    <3>3. pos' \in 0 .. read
      BY <2>2, <3>1, <3>2
    <3>4. QED BY <3>1, <3>2, <3>3
  <2>7. expect_bytes - n < Len(packet)
    <3>1. Len(lp) \in Nat /\ expect_bytes \in Nat
      BY <1>1, ClientTypes
    <3>2. expect_bytes < Len(lp)
      BY <1>2 DEF ClientWithin
    <3>3. expect_bytes - n <= expect_bytes
      BY <2>2, <3>1
    <3>4. QED BY <2>2, <2>4, <3>1, <3>2, <3>3
  <2>8. Start(Len(Found) + 1) + Len(packet) = pos' + (expect_bytes - n)
    <3>1. /\ Start(Len(Found) + 1) + Len(lp) = pos + expect_bytes
          /\ Len(packet) = Len(lp) /\ pos' = pos + n
      BY <1>2, <2>1, <2>4 DEF ClientWithin
    <3>2. pos \in Nat /\ expect_bytes \in Nat
      BY <1>1, ClientTypes
    <3>3. QED BY <2>2, <3>1, <3>2
  <2>9. QED BY <1>1, <1>2, <2>1, <2>2, <2>4, <2>5, <2>6, <2>7, <2>8, KeepStep
            DEF ClientWithin
<1>5. QED BY <1>3, <1>4

LEMMA ClientOneByteStep ==
    ASSUME ClientIInv, client_last_packet_incomplete_1byte
    PROVE  ClientIInv'
<1> DEFINE n == Len(Found) + 1
           len == sent[n].len
           packet == Copy(Copy(Blank(len), 0, length, 1), 1, pos, 1)
<1>1. /\ ClientTypeOK /\ FramingTypeOK /\ ~corrupt /\ pos < read
      /\ Reading /\ expect_bytes = 0 /\ length_incomplete
  BY ClientTypes, StreamTypes DEF ClientIInv, client_last_packet_incomplete_1byte, Reading, count
<1>2. /\ ClientBetween /\ Start(n) \in Nat /\ n \in 1 .. Len(sent) /\ sent[n].first = Start(n)
      /\ len \in Legal /\ LengthAt(Start(n)) = {len}
  BY <1>1, ClientNextFound
<1>3. Start(n) + 1 = pos /\ length = Start(n) /\ n \in cut
  BY <1>1, <1>2, ClientTypes DEF ClientBetween
<1>4. /\ lp' = packet /\ expect_bytes' = len - 2 /\ length_incomplete' = FALSE
      /\ pos' = pos + 1 /\ UNCHANGED <<socket, length, recv_packet_list, ends>>
  BY <1>2, <1>3 DEF client_last_packet_incomplete_1byte
<1>5. len \in Nat /\ 2 < len
  BY <1>2, LegalLength
<1> HIDE DEF n, len
<1>6. packet \in Packet /\ Len(packet) = len /\ packet[1] = length
  <2> DEFINE first == Copy(Blank(len), 0, length, 1)
  <2>1. /\ Blank(len) \in Packet /\ Len(Blank(len)) = len
        /\ length \in Nat /\ pos \in Nat /\ 1 \in 1 .. len
    BY <1>1, <1>5, BlankPacket, ClientTypes
  <2>2. /\ first \in Packet /\ Len(first) = len
        /\ \A k \in 1 .. len :
            first[k] = IF k > 0 /\ k <= 0 + 1 THEN length + k - 0 - 1 ELSE Blank(len)[k]
    BY <2>1, CopyPacket
  <2>3. first[1] = length
    BY <2>1, <2>2
  <2> HIDE DEF first
  <2>4. /\ Copy(first, 1, pos, 1) \in Packet /\ Len(Copy(first, 1, pos, 1)) = len
        /\ \A k \in 1 .. len :
            Copy(first, 1, pos, 1)[k] =
                IF k > 1 /\ k <= 1 + 1 THEN pos + k - 1 - 1 ELSE first[k]
    BY <2>1, <2>2, CopyPacket
  <2>5. Copy(first, 1, pos, 1)[1] = length
    BY <2>1, <2>3, <2>4
  <2>6. QED BY <2>4, <2>5 DEF first
<1> HIDE DEF packet
<1>7. Keep(packet, len - 2) /\ len - 2 \in Nat /\ len - 2 < Len(packet)
  BY <1>4, <1>5, <1>6 DEF Keep
<1>8. /\ pos' \in 0 .. read /\ ~length_incomplete' /\ length_incomplete' \in BOOLEAN
      /\ length' \in Nat
  <2>1. pos \in Nat /\ read \in Nat /\ length \in Nat
    BY <1>1, ClientTypes
  <2>2. pos' \in 0 .. read
    BY <1>1, <1>4, <2>1
  <2>3. QED BY <1>4, <2>1, <2>2
<1>9. Start(n) + Len(packet) = pos' + (len - 2)
  BY <1>2, <1>3, <1>4, <1>5, <1>6
<1>10. UNCHANGED <<socket, ends>>
  BY <1>4
<1>11. /\ Len(Found) + 1 \in 1 .. Len(sent) /\ Len(Found) + 1 \in cut
       /\ packet[1] = sent[Len(Found) + 1].first
       /\ Len(packet) = sent[Len(Found) + 1].len
       /\ Start(Len(Found) + 1) + Len(packet) = pos' + (len - 2)
  BY <1>2, <1>3, <1>6, <1>9 DEF n, len
<1>12. QED BY <1>1, <1>6, <1>7, <1>8, <1>10, <1>11, KeepStep

LEMMA ClientFirstByteStep ==
    ASSUME ClientIInv, client_first_byte
    PROVE  ClientIInv'
<1> DEFINE n == Len(Found) + 1
<1>1. /\ ClientTypeOK /\ FramingTypeOK /\ StreamInv /\ CutInv /\ ClientAt
      /\ ~corrupt /\ pos + 1 = read /\ pos \in Nat
      /\ Reading /\ expect_bytes = 0 /\ ~length_incomplete
  BY ClientTypes, StreamTypes DEF ClientIInv, client_first_byte, Reading, count
<1>2. /\ ClientBetween /\ Start(n) \in Nat /\ n \in 1 .. Len(sent) /\ sent[n].first = Start(n)
      /\ sent[n].len \in Legal
  BY <1>1, ClientNextFound
<1>3. /\ length_incomplete' = TRUE /\ length' = pos /\ pos' = pos + 1
      /\ UNCHANGED <<socket, expect_bytes, lp, recv_packet_list, ends>>
  BY DEF client_first_byte
<1>4. Start(n) = pos
  BY <1>1, <1>2 DEF ClientBetween
<1>5. n \in cut
  <2>1. sent[n].first < read /\ read < sent[n].first + sent[n].len
    BY <1>1, <1>2, <1>4, LegalLength
  <2>2. QED BY <1>1, <1>2, <2>1 DEF CutInv
<1>6. ClientTypeOK'
  BY <1>1, <1>3, ClientTypes, StreamTypes DEF ClientTypeOK, FramingTypeOK, socket, ends
<1>7. Found' = Found
  BY <1>3 DEF Found, ends
<1>8. /\ StreamInv' /\ CutInv' /\ Tiles(handled)' /\ Intact(handled)'
      /\ Tiles(Found)' /\ Intact(Found)'
  BY <1>1, <1>3, <1>7
     DEF ClientIInv, ClientAt, StreamInv, CutInv, Start, End, Tiles, Intact, socket, ends
<1>9. Start(Len(Found) + 1)' = Start(n)
  BY <1>3, <1>7 DEF Start, End, socket
<1>10. ClientBetween'
  BY <1>1, <1>2, <1>3, <1>4, <1>5, <1>7, <1>9 DEF ClientBetween, socket
<1>11. QED BY <1>1, <1>3, <1>6, <1>8, <1>10 DEF ClientIInv, ClientAt, ends

LEMMA ClientCompleteStep ==
    ASSUME ClientIInv, client_last_packet_complete
    PROVE  ClientIInv'
<1> DEFINE i == Len(Found) + 1
           len == sent[i].len
           n == IF count < len THEN count ELSE len
           packet == Copy(Blank(len), 0, pos, n)
<1>1. /\ ClientTypeOK /\ FramingTypeOK /\ CutInv /\ ~corrupt /\ pos \in Nat /\ read \in Nat
      /\ Reading /\ expect_bytes = 0 /\ ~length_incomplete
      /\ count \in Nat /\ count >= 2 /\ count = read - pos
  BY ClientTypes, StreamTypes DEF ClientIInv, client_last_packet_complete, Reading, count
<1>2. /\ ClientBetween /\ Start(i) \in Nat /\ i \in 1 .. Len(sent) /\ sent[i].first = Start(i)
      /\ len \in Legal /\ LengthAt(Start(i)) = {len}
  BY <1>1, ClientNextFound
<1>3. Start(i) = pos
  BY <1>1, <1>2 DEF ClientBetween
<1>4. /\ Keep(packet, len - n) /\ pos' = pos + n
      /\ UNCHANGED <<socket, length_incomplete, length, ends>>
  BY <1>2, <1>3 DEF client_last_packet_complete
<1>5. len \in Nat /\ 2 < len
  BY <1>2, LegalLength
<1> HIDE DEF i, len
<1>6. /\ n \in Nat /\ 2 <= n /\ n <= len /\ n <= read - pos /\ len - n \in Nat
      /\ n = len \/ n = read - pos
  BY <1>1, <1>5
<1> HIDE DEF n
<1>7. packet \in Packet /\ Len(packet) = len /\ packet[1] = pos
  <2>1. Blank(len) \in Packet /\ Len(Blank(len)) = len /\ 1 \in 1 .. len
    BY <1>5, BlankPacket
  <2>2. /\ packet \in Packet /\ Len(packet) = len
        /\ \A k \in 1 .. len :
            packet[k] = IF k > 0 /\ k <= 0 + n THEN pos + k - 0 - 1 ELSE Blank(len)[k]
    BY <1>1, <1>6, <2>1, CopyPacket
  <2> HIDE DEF packet
  <2>3. packet[1] = pos
    BY <1>1, <1>6, <2>1, <2>2
  <2>4. QED BY <2>2, <2>3
<1>8. i \in cut \/ (len - n = 0 /\ packet = Bytes(sent[i].first, len))
  <2>1. CASE n = len
    BY <1>1, <1>2, <1>3, <1>5, <2>1, CopyWhole
  <2>2. CASE n # len
    <3>1. sent[i].first < read /\ read < sent[i].first + len
      BY <1>1, <1>2, <1>3, <1>5, <1>6, <2>2
    <3>2. QED BY <1>1, <1>2, <3>1 DEF CutInv, len
  <2>3. QED BY <2>1, <2>2
<1> HIDE DEF packet
<1>9. /\ pos' \in 0 .. read /\ ~length_incomplete' /\ length_incomplete' \in BOOLEAN
      /\ length' \in Nat /\ len - n < Len(packet)
  BY <1>1, <1>4, <1>5, <1>6, <1>7, ClientTypes
<1>10. /\ Len(Found) + 1 \in 1 .. Len(sent)
       /\ packet[1] = sent[Len(Found) + 1].first
       /\ Len(packet) = sent[Len(Found) + 1].len
       /\ Start(Len(Found) + 1) + Len(packet) = pos' + (len - n)
       /\ \/ Len(Found) + 1 \in cut
          \/ /\ len - n = 0
             /\ packet = Bytes(sent[Len(Found) + 1].first, sent[Len(Found) + 1].len)
  <2>1. Start(i) + Len(packet) = pos' + (len - n)
    BY <1>1, <1>3, <1>4, <1>5, <1>6, <1>7
  <2>2. QED BY <1>2, <1>3, <1>7, <1>8, <2>1 DEF i, len
<1>11. UNCHANGED <<socket, ends>>
  BY <1>4
<1>12. QED BY <1>1, <1>4, <1>6, <1>7, <1>9, <1>10, <1>11, KeepStep

LEMMA TakeStep ==
    ASSUME ClientIInv, take_packets
    PROVE  ClientIInv'
<1>1. /\ ClientTypeOK /\ FramingTypeOK /\ ClientAt /\ ~corrupt
      /\ handled' = Found /\ recv_packet_list' = <<>>
      /\ UNCHANGED <<socket, reader, lp, open, corrupt>>
  BY ClientTypes DEF ClientIInv, take_packets, Found
<1>2. Found' = Found
  BY <1>1, ClientTypes, ConcatEmptySeq DEF Found
<1>3. ClientTypeOK'
  <2>1. <<>> \in Seq(Packet) /\ Found \in Seq(Packet)
    BY <1>1, ClientTypes, EmptySeq
  <2>2. QED BY <1>1, <2>1 DEF ClientTypeOK, FramingTypeOK, Packet, socket, reader
<1>4. /\ StreamInv' /\ CutInv' /\ Tiles(Found)' /\ Intact(Found)'
      /\ Tiles(handled)' /\ Intact(handled)'
  BY <1>1, <1>2
     DEF ClientIInv, ClientAt, StreamInv, CutInv, Start, End, Tiles, Intact, socket
<1>5. Start(Len(Found) + 1)' = Start(Len(Found) + 1)
  BY <1>1, <1>2 DEF Start, End, socket
<1>6. ClientBetween' \/ ClientWithin'
  BY <1>1, <1>2, <1>5 DEF ClientAt, ClientBetween, ClientWithin, socket, reader
<1>7. QED BY <1>1, <1>3, <1>4, <1>6 DEF ClientIInv, ClientAt

LEMMA ClientStep ==
    ASSUME ClientIInv, ClientNext \/ UNCHANGED all
    PROVE  ClientIInv'
<1>1. CASE UNCHANGED all
  <2>1. UNCHANGED <<socket, reader, ends, lp, recv_packet_list>>
    BY <1>1 DEF all
  <2>2. /\ ClientTypeOK' /\ StreamInv' /\ CutInv'
        /\ open' /\ Tiles(handled)' /\ Intact(handled)'
    BY <2>1, StreamFrame DEF ClientIInv, ClientTypeOK, FramingTypeOK, Tiles, Intact,
                socket, reader, ends
  <2>3. ClientAt => ClientAt'
    BY <2>1 DEF ClientAt, Tiles, Intact, ClientBetween, ClientWithin, Found, Start, End,
                socket, reader, ends
  <2>4. QED BY <2>1, <2>2, <2>3 DEF ClientIInv, ends
<1>2. CASE ClientNext
  BY <1>2, ClientSocketStep, ClientIncompleteStep, ClientOneByteStep, ClientFirstByteStep,
         ClientCompleteStep, TakeStep
     DEF ClientNext
<1>3. QED BY <1>1, <1>2

-----------------------------------------------------------------------------
(* The server.                                                             *)

\* The reader is between two packets, but for the first byte of a length.
ServerBetween ==
    /\ expect_bytes = 0
    /\ Start(Len(Found) + 1) + (IF length_incomplete THEN 1 ELSE 0) = pos
    /\ length_incomplete => length + 1 = pos /\ Len(Found) + 1 \in cut

\* It is within the last that it has found, that was cut.
ServerWithin ==
    /\ recv_packet_list # <<>>
    /\ 0 < expect_bytes /\ expect_bytes < Len(Found[Len(Found)])
    /\ ~length_incomplete
    /\ Len(Found) \in cut
    /\ Start(Len(Found) + 1) = pos + expect_bytes

ServerAt == Tiles(Found) /\ Intact(Found) /\ (ServerBetween \/ ServerWithin)

ServerIInv ==
    /\ FramingTypeOK /\ StreamInv /\ CutInv /\ ArrivedInv
    /\ open
    /\ Tiles(handled) /\ Intact(handled)
    /\ ~corrupt => ServerAt

-----------------------------------------------------------------------------
(* The lists.                                                              *)

\* The last packet is filled.
LEMMA FoundLast ==
    ASSUME FramingTypeOK, NEW packet \in Packet, handled' = handled,
           recv_packet_list # <<>>,
           recv_packet_list' =
                ReplaceAt(recv_packet_list, Len(recv_packet_list), packet)
    PROVE  /\ recv_packet_list' \in Seq(Packet) /\ recv_packet_list' # <<>>
           /\ Len(Found) \in 1 .. Len(Found) /\ Len(Found') = Len(Found)
           /\ Found'[Len(Found)] = packet
           /\ \A i \in 1 .. Len(Found) : i # Len(Found) => Found'[i] = Found[i]
           /\ Found[Len(Found)] = Last(recv_packet_list)
<1> DEFINE l == Len(recv_packet_list)
           list == ReplaceAt(recv_packet_list, l, packet)
           h == Len(handled)
<1>1. l \in Nat \ {0} /\ l \in 1 .. l
  BY FoundTypes, EmptySeq
<1>2. /\ list \in Seq(Packet) /\ Len(list) = l
      /\ \A j \in 1 .. l : list[j] = IF j = l THEN packet ELSE recv_packet_list[j]
  BY <1>1, FoundTypes, ExceptSeq DEF ReplaceAt
<1> HIDE DEF list, l
<1>3. /\ Len(Found) = h + l /\ h \in Nat
      /\ \A i \in 1 .. h : Found[i] = handled[i]
      /\ \A i \in 1 .. l : Found[h + i] = recv_packet_list[i]
  BY FoundTypes DEF l
<1>4. /\ Len(handled \o list) = h + l
      /\ \A i \in 1 .. h + l :
            (handled \o list)[i] = IF i <= h THEN handled[i] ELSE list[i - h]
  <2>1. handled \in Seq(Packet)
    BY FoundTypes
  <2>2. /\ Len(handled \o list) = Len(handled) + Len(list)
        /\ \A i \in 1 .. Len(handled) + Len(list) :
            (handled \o list)[i] = IF i <= Len(handled) THEN handled[i]
                                   ELSE list[i - Len(handled)]
    BY <1>2, <2>1, ConcatProperties
  <2>3. QED BY <1>2, <2>2
<1>5. Found' = handled \o list /\ recv_packet_list' = list
  BY DEF Found, list, l
<1> HIDE DEF h
<1>6. h + l \in 1 .. h + l /\ ~(h + l <= h) /\ (h + l) - h = l
  BY <1>1, <1>3
<1>7. ASSUME NEW i \in 1 .. h + l, i # h + l
      PROVE  (handled \o list)[i] = Found[i]
  <2>1. CASE i <= h
    <3>1. i \in 1 .. h
      BY <1>1, <1>3, <2>1
    <3>2. QED BY <1>3, <1>4, <1>7, <2>1, <3>1
  <2>2. CASE ~(i <= h)
    <3>1. i - h \in 1 .. l /\ i - h # l /\ h + (i - h) = i
      BY <1>1, <1>3, <1>7, <2>2
    <3>2. QED BY <1>2, <1>3, <1>4, <2>2, <3>1
  <2>3. QED BY <2>1, <2>2
<1>8. Found[h + l] = Last(recv_packet_list)
  BY <1>1, <1>3 DEF Last, l
<1>9. list # <<>>
  BY <1>1, <1>2, EmptySeq
<1>10. QED BY <1>1, <1>2, <1>3, <1>4, <1>5, <1>6, <1>7, <1>8, <1>9

-----------------------------------------------------------------------------
(* The invariant.                                                          *)

LEMMA ServerStart == ServerInit => ServerIInv
<1> SUFFICES ASSUME ServerInit PROVE ServerIInv
  OBVIOUS
<1>1. /\ FramingTypeOK /\ StreamInv /\ CutInv
      /\ handled = <<>> /\ recv_packet_list = <<>> /\ arrived = 0
      /\ open = TRUE /\ expect_bytes = 0 /\ length_incomplete = FALSE /\ pos = 0
  BY StreamInit DEF ServerInit, FramingInit
<1>2. FramingTypeOK
  BY <1>1, EmptySeq DEF FramingTypeOK
<1>3. Found = <<>>
  BY <1>1, EmptySeq, ConcatEmptySeq DEF Found
<1>4. Len(handled) = 0 /\ Len(Found) = 0
  BY <1>1, <1>3, EmptySeq
<1>5. Tiles(handled) /\ Intact(handled) /\ Tiles(Found) /\ Intact(Found)
  BY <1>1, <1>4, StreamTypes DEF Tiles, Intact
<1>6. ServerBetween
  BY <1>1, <1>4 DEF ServerBetween, StreamInv
<1>7. ArrivedInv
  BY <1>1, StreamTypes DEF ArrivedInv, StreamInv
<1>8. QED BY <1>1, <1>2, <1>5, <1>6, <1>7 DEF ServerIInv, ServerAt

\* The peer and the network.
LEMMA ServerSocketStep ==
    ASSUME ServerIInv, ~MaySplit, ServerPeer \/ Read
    PROVE  ServerIInv'
<1>1. FramingTypeOK /\ StreamInv /\ CutInv
  BY FoundTypes DEF ServerIInv
<1>2. UNCHANGED <<reader, recv_packet_list, ends>>
  BY <1>1, PeerStep
<1>3. FramingTypeOK' /\ StreamInv' /\ CutInv' /\ Tiles(handled)' /\ Intact(handled)'
  BY <1>1, PeerStep DEF ServerIInv
<1>4. ASSUME ~corrupt PROVE ServerAt'
  <2>1. ServerAt
    BY <1>4 DEF ServerIInv
  <2>2. Len(Found) + 1 \in 1 .. Len(sent) + 1
    <3>1. Len(Found) <= Len(sent)
      BY <2>1 DEF ServerAt, Tiles
    <3>2. Len(Found) \in Nat /\ Len(sent) \in Nat
      BY <1>1, FoundTypes, StreamTypes
    <3>3. QED BY <3>1, <3>2
  <2>3. Tiles(Found)' /\ Intact(Found)'
    BY <1>1, <2>1, PeerStep DEF ServerAt
  <2>4. /\ Found' = Found /\ cut \subseteq cut'
        /\ \A i \in 1 .. Len(sent) : i \in 1 .. Len(sent') /\ sent'[i] = sent[i]
        /\ Start(Len(Found) + 1)' = Start(Len(Found) + 1)
    BY <1>1, <2>2, PeerStep
  <2>5. ServerBetween => ServerBetween'
    BY <1>2, <2>4 DEF ServerBetween, reader
  <2>6. ServerWithin => ServerWithin'
    BY <1>2, <2>4 DEF ServerWithin, reader
  <2>7. QED BY <2>1, <2>3, <2>5, <2>6 DEF ServerAt
<1>5. ArrivedInv'
  BY <1>1, ArrivedStep DEF ServerIInv
<1>6. QED BY <1>2, <1>3, <1>4, <1>5 DEF ServerIInv, ends

\* A packet is put on the list, and it is the next of those sent.
LEMMA NewStep ==
    ASSUME ServerIInv, ~corrupt, UNCHANGED <<socket, ends>>,
           NEW packet \in Packet, recv_packet_list' = Append(recv_packet_list, packet),
           expect_bytes' \in Nat, expect_bytes' < Len(packet),
           pos' \in 0 .. read, ~length_incomplete', length_incomplete' \in BOOLEAN,
           length' \in Nat,
           Len(Found) + 1 \in 1 .. Len(sent),
           packet[1] = sent[Len(Found) + 1].first,
           Len(packet) = sent[Len(Found) + 1].len,
           Start(Len(Found) + 1) + Len(packet) = pos' + expect_bytes',
           \/ Len(Found) + 1 \in cut
           \/ /\ expect_bytes' = 0
              /\ packet = Bytes(sent[Len(Found) + 1].first, sent[Len(Found) + 1].len)
    PROVE  ServerIInv'
<1>1. FramingTypeOK /\ StreamInv /\ CutInv /\ ArrivedInv /\ ServerAt
  BY FoundTypes DEF ServerIInv
<1>2. UNCHANGED <<sent, arrived, read, cut, handled, open, corrupt>>
  BY DEF socket, ends
<1>3. recv_packet_list' \in Seq(Packet) /\ recv_packet_list' # <<>>
  <2>1. /\ recv_packet_list' \in Seq(Packet)
        /\ Len(recv_packet_list') = Len(recv_packet_list) + 1
    BY <1>1, FoundTypes, AppendProperties
  <2>2. Len(recv_packet_list') # 0
    BY <1>1, <2>1, FoundTypes
  <2>3. QED BY <2>1, <2>2, EmptySeq
<1>4. FramingTypeOK'
  BY <1>1, <1>2, <1>3 DEF FramingTypeOK, Packet
<1>5. StreamInv' /\ CutInv' /\ ArrivedInv' /\ Tiles(handled)' /\ Intact(handled)'
  BY <1>1, <1>2, StreamFrame DEF ServerIInv, Tiles, Intact
<1>6. Found' = Append(Found, packet)
  BY <1>1, <1>2, FoundNext
<1>7. /\ Append(Found, packet) \in Seq(Packet)
      /\ Len(Append(Found, packet)) = Len(Found) + 1
      /\ Tiles(Append(Found, packet))
  BY <1>1, FoundTypes, TilesNext DEF ServerAt
<1>8. /\ \A i \in 1 .. Len(Found) : Append(Found, packet)[i] = Found[i]
      /\ Append(Found, packet)[Len(Found) + 1] = packet
  BY <1>1, FoundTypes, AppendProperties
<1>9. Tiles(Found)'
  BY <1>2, <1>6, <1>7 DEF Tiles
<1>10. Intact(Found)'
  <2> SUFFICES ASSUME NEW i \in 1 .. Len(Found'), i \notin cut
               PROVE  Found'[i] = Bytes(sent[i].first, sent[i].len)
    BY <1>2 DEF Intact
  <2>1. i \in 1 .. Len(Found) \/ i = Len(Found) + 1
    <3>1. Len(Found) \in Nat
      BY <1>1, FoundTypes
    <3>2. Len(Found') = Len(Found) + 1
      BY <1>6, <1>7
    <3>3. QED BY <3>1, <3>2
  <2>2. CASE i \in 1 .. Len(Found)
    BY <2>2, <1>1, <1>6, <1>8 DEF ServerAt, Intact
  <2>3. CASE i = Len(Found) + 1
    BY <2>3, <1>6, <1>8
  <2>4. QED BY <2>1, <2>2, <2>3
<1>11. Start(Len(Found) + 1)' = pos' + expect_bytes'
  <2>1. Start(Len(Found) + 1) = sent[Len(Found) + 1].first
    BY <1>1, StreamTypes, FoundTypes DEF Start
  <2>2. Start(Len(Found) + 1 + 1) = sent[Len(Found) + 1].first + sent[Len(Found) + 1].len
    BY <1>1 DEF StreamInv
  <2>3. Start(Len(Found) + 1)' = Start(Len(Found) + 1 + 1)
    BY <1>2, <1>6, <1>7 DEF Start, End
  <2>4. QED BY <2>1, <2>2, <2>3
<1>12. ServerBetween' \/ ServerWithin'
  <2>1. CASE expect_bytes' = 0
    <3>1. pos' \in Nat
      BY <1>1, StreamTypes
    <3>2. Start(Len(Found) + 1)' + (IF length_incomplete' THEN 1 ELSE 0) = pos'
      <4>1. Start(Len(Found) + 1)' + 0 = pos'
        BY <1>11, <2>1, <3>1
      <4>2. QED BY <4>1
    <3>3. QED BY <2>1, <3>2 DEF ServerBetween
  <2>2. CASE expect_bytes' # 0
    <3>1. Len(Found') \in cut' /\ Found'[Len(Found')] = packet
      BY <1>2, <1>6, <1>7, <1>8, <2>2
    <3>2. 0 < expect_bytes' /\ expect_bytes' < Len(Found'[Len(Found')])
      BY <2>2, <3>1
    <3>3. QED BY <1>3, <1>11, <3>1, <3>2 DEF ServerWithin
  <2>3. QED BY <2>1, <2>2
<1>13. QED BY <1>2, <1>4, <1>5, <1>9, <1>10, <1>12 DEF ServerIInv, ServerAt

\* Where the next packet begins, and its length.
LEMMA ServerNextFound ==
    ASSUME ServerIInv, Reading, expect_bytes = 0
    PROVE  LET n == Len(Found) + 1
           IN  /\ ServerBetween /\ Start(n) \in Nat
               /\ n \in 1 .. Len(sent) /\ sent[n].first = Start(n)
               /\ sent[n].len \in Legal
               /\ LengthAt(Start(n)) = {sent[n].len}
<1>1. FramingTypeOK /\ StreamInv /\ ServerAt /\ pos < read /\ ~corrupt
  <2>1. pos < read
    BY FoundTypes, StreamTypes DEF ServerIInv, Reading, count
  <2>2. QED BY <2>1, FoundTypes DEF ServerIInv, Reading
<1>2. ServerBetween
  BY <1>1 DEF ServerAt, ServerWithin
<1>3. Len(Found) \in Nat /\ Len(Found) <= Len(sent)
  BY <1>1, FoundTypes DEF ServerAt, Tiles
<1>4. Start(Len(Found) + 1) \in Nat
  BY <1>1, <1>3, StreamTypes DEF Start
<1>5. Start(Len(Found) + 1) < End(sent)
  BY <1>1, <1>2, <1>4, StreamTypes DEF ServerBetween, StreamInv
<1>6. QED BY <1>1, <1>2, <1>3, <1>4, <1>5, LengthFound, StreamTypes

LEMMA ServerIncompleteStep ==
    ASSUME ServerIInv, conn_last_packet_incomplete
    PROVE  ServerIInv'
<1> DEFINE last == Last(recv_packet_list)
           at == Behind(Len(last) - expect_bytes)
           n == IF count < expect_bytes THEN count ELSE expect_bytes
           m == Len(Found)
<1>1. /\ FramingTypeOK /\ StreamInv /\ ServerAt /\ ~corrupt
      /\ CutInv /\ ArrivedInv
      /\ pos < read /\ expect_bytes > 0 /\ count \in Nat \ {0} /\ count = read - pos
  BY FoundTypes, StreamTypes DEF ServerIInv, conn_last_packet_incomplete, Reading, count
<1>2. ServerWithin /\ recv_packet_list # <<>>
  BY <1>1, FoundTypes DEF ServerAt, ServerBetween, ServerWithin
<1>3. CASE ~Fits(at, n)
  <2>1. corrupt' = TRUE /\ UNCHANGED <<socket, reader, handled, open, recv_packet_list>>
    BY <1>2, <1>3 DEF conn_last_packet_incomplete, Overrun
  <2>2. FramingTypeOK'
    BY <1>1, <2>1 DEF FramingTypeOK, socket, reader
  <2>3. StreamInv' /\ CutInv' /\ ArrivedInv'
    BY <1>1, <2>1, StreamFrame DEF socket
  <2>4. QED BY <2>1, <2>2, <2>3 DEF ServerIInv, Tiles, Intact, socket
<1>4. CASE Fits(at, n)
  <2> DEFINE packet == Copy(last, at, pos, n)
  <2>1. /\ recv_packet_list' = ReplaceAt(recv_packet_list, Len(recv_packet_list), packet)
        /\ expect_bytes' = expect_bytes - n
        /\ pos' = pos + n /\ UNCHANGED <<socket, length_incomplete, length, ends>>
    BY <1>2, <1>4 DEF conn_last_packet_incomplete
  <2>2. /\ n \in Nat /\ n <= expect_bytes /\ n <= read - pos
        /\ expect_bytes - n \in Nat /\ expect_bytes - n < expect_bytes
    BY <1>1, FoundTypes
  <2>3. /\ m \in Nat \ {0} /\ m \in 1 .. m
        /\ last = Found[m] /\ last \in Packet /\ Len(last) \in Nat
    <3>1. /\ Len(recv_packet_list) \in Nat \ {0}
          /\ Found[Len(handled) + Len(recv_packet_list)] = last
          /\ last \in Packet
      BY <1>1, <1>2, FoundTypes, EmptySeq, ElementOfSeq DEF Last
    <3>2. Len(last) \in Nat
      BY <3>1, LenProperties DEF Packet
    <3>3. /\ Len(handled) \in Nat
          /\ m = Len(handled) + Len(recv_packet_list)
      BY <1>1, FoundTypes
    <3>4. m \in Nat \ {0} /\ m \in 1 .. m
      BY <3>1, <3>3
    <3>5. QED BY <3>1, <3>2, <3>3, <3>4
  <2>4. at \in Nat /\ at >= 1
    <3>1. Len(last) - expect_bytes \in Nat /\ Len(last) - expect_bytes >= 1
      BY <1>1, <1>2, <2>3, FoundTypes DEF ServerWithin
    <3>2. \A k \in Nat : k >= 1 => Behind(k) \in Nat /\ Behind(k) >= 1
      <4> SUFFICES ASSUME NEW k \in Nat, k >= 1
                   PROVE  Behind(k) \in Nat /\ Behind(k) >= 1
        OBVIOUS
      <4>1. PACKET_HEADER_LEN \in Nat /\ PACKET_HEADER_LEN >= 1
        BY LengthAssumption
      <4>2. k * PACKET_HEADER_LEN \in Nat /\ k * PACKET_HEADER_LEN >= 1
        BY <4>1
      <4>3. QED BY <4>2 DEF Behind
    <3>3. QED BY <3>1, <3>2
  <2> HIDE DEF n, at, last
  <2>5. /\ packet \in Packet /\ Len(packet) = Len(last)
        /\ \A k \in 1 .. Len(last) :
            packet[k] = IF k > at /\ k <= at + n THEN pos + k - at - 1 ELSE last[k]
    <3>1. pos \in Nat
      BY <1>1, FoundTypes
    <3>2. QED BY <2>2, <2>3, <2>4, <3>1, CopyPacket
  <2> HIDE DEF packet
  <2>6. packet[1] = last[1]
    <3>1. 1 \in 1 .. Len(last)
      BY <1>1, <1>2, <2>3, FoundTypes DEF ServerWithin
    <3>2. QED BY <2>4, <2>5, <3>1
  <2>7. UNCHANGED <<sent, arrived, read, cut, handled, open, corrupt>>
    BY <2>1 DEF socket, ends
  <2>8. /\ recv_packet_list' \in Seq(Packet) /\ recv_packet_list' # <<>>
        /\ Len(Found') = m /\ Found'[m] = packet
        /\ \A i \in 1 .. m : i # m => Found'[i] = Found[i]
    BY <1>1, <1>2, <2>1, <2>5, <2>7, FoundLast
  <2>9. FramingTypeOK'
    <3>1. pos \in Nat /\ read \in Nat
      BY <1>1, FoundTypes
    <3>2. pos' \in 0 .. read
      BY <2>1, <2>2, <3>1
    <3>3. QED BY <1>1, <2>1, <2>2, <2>7, <2>8, <3>2 DEF FramingTypeOK, Packet
  <2>10. /\ StreamInv' /\ CutInv' /\ ArrivedInv'
         /\ Tiles(handled)' /\ Intact(handled)'
    BY <1>1, <2>7, StreamFrame DEF ServerIInv, Tiles, Intact
  <2>11. Tiles(Found)'
    <3>1. Tiles(Found)
      BY <1>1 DEF ServerAt
    <3>2. ASSUME NEW i \in 1 .. m
          PROVE  Found'[i][1] = sent[i].first /\ Len(Found'[i]) = sent[i].len
      <4>1. CASE i = m
        BY <2>3, <2>5, <2>6, <2>8, <3>1, <4>1 DEF Tiles
      <4>2. CASE i # m
        BY <2>8, <3>1, <4>2 DEF Tiles
      <4>3. QED BY <4>1, <4>2
    <3>3. QED BY <2>7, <2>8, <3>1, <3>2 DEF Tiles
  <2>12. m \in cut
    BY <1>2 DEF ServerWithin
  <2>13. Intact(Found)'
    BY <1>1, <2>7, <2>8, <2>12 DEF ServerAt, Intact
  <2>14. Start(Len(Found) + 1)' = pos' + expect_bytes' /\ pos' \in Nat
    <3>1. Start(m + 1) = pos + expect_bytes
      BY <1>2 DEF ServerWithin
    <3>2. Start(Len(Found) + 1)' = Start(m + 1)
      BY <2>7, <2>8 DEF Start, End
    <3>3. pos \in Nat /\ expect_bytes \in Nat
      BY <1>1, FoundTypes
    <3>4. (pos + n) + (expect_bytes - n) = pos + expect_bytes /\ pos + n \in Nat
      BY <2>2, <3>3
    <3>5. QED BY <2>1, <3>1, <3>2, <3>4
  <2>15. ServerBetween' \/ ServerWithin'
    <3>1. ~length_incomplete'
      BY <1>2, <2>1 DEF ServerWithin
    <3>2. CASE expect_bytes' = 0
      <4>1. Start(Len(Found) + 1)' + 0 = pos'
        BY <2>14, <3>2
      <4>2. Start(Len(Found) + 1)' + (IF length_incomplete' THEN 1 ELSE 0) = pos'
        BY <3>1, <4>1
      <4>3. QED BY <3>1, <3>2, <4>2 DEF ServerBetween
    <3>3. CASE expect_bytes' # 0
      <4>1. /\ 0 < expect_bytes' /\ expect_bytes' < Len(packet)
        <5>1. expect_bytes \in Nat
          BY <1>1, FoundTypes
        <5>2. expect_bytes < Len(last)
          BY <1>2, <2>3 DEF ServerWithin
        <5>3. QED BY <2>1, <2>2, <2>3, <2>5, <3>3, <5>1, <5>2
      <4>2. QED BY <2>7, <2>8, <2>12, <2>14, <3>1, <4>1 DEF ServerWithin
    <3>4. QED BY <3>2, <3>3
  <2>16. QED BY <2>7, <2>9, <2>10, <2>11, <2>13, <2>15 DEF ServerIInv, ServerAt
<1>5. QED BY <1>3, <1>4

LEMMA ServerOneByteStep ==
    ASSUME ServerIInv, conn_last_packet_incomplete_1byte
    PROVE  ServerIInv'
<1> DEFINE n == Len(Found) + 1
           len == sent[n].len
           packet == Copy(Copy(Blank(len), 0, length, 1), 1, pos, 1)
<1>1. /\ FramingTypeOK /\ ~corrupt /\ pos < read
      /\ Reading /\ expect_bytes = 0 /\ length_incomplete
  BY FoundTypes, StreamTypes DEF ServerIInv, conn_last_packet_incomplete_1byte, Reading, count
<1>2. /\ ServerBetween /\ Start(n) \in Nat /\ n \in 1 .. Len(sent) /\ sent[n].first = Start(n)
      /\ len \in Legal /\ LengthAt(Start(n)) = {len}
  BY <1>1, ServerNextFound
<1>3. Start(n) + 1 = pos /\ length = Start(n) /\ n \in cut
  BY <1>1, <1>2, FoundTypes DEF ServerBetween
<1>4. /\ recv_packet_list' = Append(recv_packet_list, packet)
      /\ expect_bytes' = len - 2 /\ length_incomplete' = FALSE
      /\ pos' = pos + 1 /\ UNCHANGED <<socket, length, ends>>
  BY <1>2, <1>3 DEF conn_last_packet_incomplete_1byte
<1>5. len \in Nat /\ 2 < len
  BY <1>2, LegalLength
<1> HIDE DEF n, len
<1>6. packet \in Packet /\ Len(packet) = len /\ packet[1] = length
  <2> DEFINE first == Copy(Blank(len), 0, length, 1)
  <2>1. /\ Blank(len) \in Packet /\ Len(Blank(len)) = len
        /\ length \in Nat /\ pos \in Nat /\ 1 \in 1 .. len
    BY <1>1, <1>5, BlankPacket, FoundTypes
  <2>2. /\ first \in Packet /\ Len(first) = len
        /\ \A k \in 1 .. len :
            first[k] = IF k > 0 /\ k <= 0 + 1 THEN length + k - 0 - 1 ELSE Blank(len)[k]
    BY <2>1, CopyPacket
  <2>3. first[1] = length
    BY <2>1, <2>2
  <2> HIDE DEF first
  <2>4. /\ Copy(first, 1, pos, 1) \in Packet /\ Len(Copy(first, 1, pos, 1)) = len
        /\ \A k \in 1 .. len :
            Copy(first, 1, pos, 1)[k] =
                IF k > 1 /\ k <= 1 + 1 THEN pos + k - 1 - 1 ELSE first[k]
    BY <2>1, <2>2, CopyPacket
  <2>5. Copy(first, 1, pos, 1)[1] = length
    BY <2>1, <2>3, <2>4
  <2>6. QED BY <2>4, <2>5 DEF first
<1> HIDE DEF packet
<1>7. expect_bytes' \in Nat /\ expect_bytes' < Len(packet)
  BY <1>4, <1>5, <1>6
<1>8. /\ pos' \in 0 .. read /\ ~length_incomplete' /\ length_incomplete' \in BOOLEAN
      /\ length' \in Nat
  <2>1. pos \in Nat /\ read \in Nat /\ length \in Nat
    BY <1>1, FoundTypes
  <2>2. pos' \in 0 .. read
    BY <1>1, <1>4, <2>1
  <2>3. QED BY <1>4, <2>1, <2>2
<1>9. Start(n) + Len(packet) = pos' + expect_bytes'
  BY <1>2, <1>3, <1>4, <1>5, <1>6
<1>10. UNCHANGED <<socket, ends>>
  BY <1>4
<1>11. /\ Len(Found) + 1 \in 1 .. Len(sent) /\ Len(Found) + 1 \in cut
       /\ packet[1] = sent[Len(Found) + 1].first
       /\ Len(packet) = sent[Len(Found) + 1].len
       /\ Start(Len(Found) + 1) + Len(packet) = pos' + expect_bytes'
  BY <1>2, <1>3, <1>6, <1>9 DEF n, len
<1>12. QED BY <1>1, <1>4, <1>6, <1>7, <1>8, <1>10, <1>11, NewStep

LEMMA ServerFirstByteStep ==
    ASSUME ServerIInv, conn_first_byte
    PROVE  ServerIInv'
<1> DEFINE n == Len(Found) + 1
<1>1. /\ FramingTypeOK /\ StreamInv /\ CutInv /\ ServerAt
      /\ ~corrupt /\ pos + 1 = read /\ pos \in Nat
      /\ Reading /\ expect_bytes = 0 /\ ~length_incomplete
  BY FoundTypes, StreamTypes DEF ServerIInv, conn_first_byte, Reading, count
<1>2. /\ ServerBetween /\ Start(n) \in Nat /\ n \in 1 .. Len(sent) /\ sent[n].first = Start(n)
      /\ sent[n].len \in Legal
  BY <1>1, ServerNextFound
<1>3. /\ length_incomplete' = TRUE /\ length' = pos /\ pos' = pos + 1
      /\ UNCHANGED <<socket, expect_bytes, recv_packet_list, ends>>
  BY DEF conn_first_byte
<1>4. Start(n) = pos
  BY <1>1, <1>2 DEF ServerBetween
<1>5. n \in cut
  <2>1. sent[n].first < read /\ read < sent[n].first + sent[n].len
    BY <1>1, <1>2, <1>4, LegalLength
  <2>2. QED BY <1>1, <1>2, <2>1 DEF CutInv
<1>6. FramingTypeOK'
  BY <1>1, <1>3, FoundTypes, StreamTypes DEF FramingTypeOK, socket, ends
<1>7. Found' = Found
  BY <1>3 DEF Found, ends
<1>8. /\ StreamInv' /\ CutInv' /\ ArrivedInv' /\ Tiles(handled)' /\ Intact(handled)'
      /\ Tiles(Found)' /\ Intact(Found)'
  BY <1>1, <1>3, <1>7, StreamFrame DEF ServerIInv, ServerAt, Tiles, Intact, socket, ends
<1>9. Start(Len(Found) + 1)' = Start(n)
  BY <1>3, <1>7 DEF Start, End, socket
<1>10. ServerBetween'
  BY <1>1, <1>2, <1>3, <1>4, <1>5, <1>7, <1>9 DEF ServerBetween, socket
<1>11. QED BY <1>1, <1>3, <1>6, <1>8, <1>10 DEF ServerIInv, ServerAt, ends

LEMMA ServerCompleteStep ==
    ASSUME ServerIInv, conn_last_packet_complete
    PROVE  ServerIInv'
<1> DEFINE i == Len(Found) + 1
           len == sent[i].len
           n == IF count < len THEN count ELSE len
           packet == Copy(Blank(len), 0, pos, n)
<1>1. /\ FramingTypeOK /\ CutInv /\ ~corrupt /\ pos \in Nat /\ read \in Nat
      /\ Reading /\ expect_bytes = 0 /\ ~length_incomplete
      /\ count \in Nat /\ count >= 2 /\ count = read - pos
  BY FoundTypes, StreamTypes DEF ServerIInv, conn_last_packet_complete, Reading, count
<1>2. /\ ServerBetween /\ Start(i) \in Nat /\ i \in 1 .. Len(sent) /\ sent[i].first = Start(i)
      /\ len \in Legal /\ LengthAt(Start(i)) = {len}
  BY <1>1, ServerNextFound
<1>3. Start(i) = pos
  BY <1>1, <1>2 DEF ServerBetween
<1>4. /\ recv_packet_list' = Append(recv_packet_list, packet)
      /\ expect_bytes' = len - n /\ pos' = pos + n
      /\ UNCHANGED <<socket, length_incomplete, length, ends>>
  BY <1>2, <1>3 DEF conn_last_packet_complete
<1>5. len \in Nat /\ 2 < len
  BY <1>2, LegalLength
<1> HIDE DEF i, len
<1>6. /\ n \in Nat /\ 2 <= n /\ n <= len /\ n <= read - pos /\ len - n \in Nat
      /\ n = len \/ n = read - pos
  BY <1>1, <1>5
<1> HIDE DEF n
<1>7. packet \in Packet /\ Len(packet) = len /\ packet[1] = pos
  <2>1. Blank(len) \in Packet /\ Len(Blank(len)) = len /\ 1 \in 1 .. len
    BY <1>5, BlankPacket
  <2>2. /\ packet \in Packet /\ Len(packet) = len
        /\ \A k \in 1 .. len :
            packet[k] = IF k > 0 /\ k <= 0 + n THEN pos + k - 0 - 1 ELSE Blank(len)[k]
    BY <1>1, <1>6, <2>1, CopyPacket
  <2> HIDE DEF packet
  <2>3. packet[1] = pos
    BY <1>1, <1>6, <2>1, <2>2
  <2>4. QED BY <2>2, <2>3
<1>8. i \in cut \/ (len - n = 0 /\ packet = Bytes(sent[i].first, len))
  <2>1. CASE n = len
    BY <1>1, <1>2, <1>3, <1>5, <2>1, CopyWhole
  <2>2. CASE n # len
    <3>1. sent[i].first < read /\ read < sent[i].first + len
      BY <1>1, <1>2, <1>3, <1>5, <1>6, <2>2
    <3>2. QED BY <1>1, <1>2, <3>1 DEF CutInv, len
  <2>3. QED BY <2>1, <2>2
<1> HIDE DEF packet
<1>9. /\ pos' \in 0 .. read /\ ~length_incomplete' /\ length_incomplete' \in BOOLEAN
      /\ length' \in Nat /\ expect_bytes' \in Nat /\ expect_bytes' < Len(packet)
  BY <1>1, <1>4, <1>5, <1>6, <1>7, FoundTypes
<1>10. /\ Len(Found) + 1 \in 1 .. Len(sent)
       /\ packet[1] = sent[Len(Found) + 1].first
       /\ Len(packet) = sent[Len(Found) + 1].len
       /\ Start(Len(Found) + 1) + Len(packet) = pos' + expect_bytes'
       /\ \/ Len(Found) + 1 \in cut
          \/ /\ expect_bytes' = 0
             /\ packet = Bytes(sent[Len(Found) + 1].first, sent[Len(Found) + 1].len)
  <2>1. Start(i) + Len(packet) = pos' + expect_bytes'
    BY <1>1, <1>3, <1>4, <1>5, <1>6, <1>7
  <2>2. QED BY <1>2, <1>3, <1>4, <1>7, <1>8, <2>1 DEF i, len
<1>11. UNCHANGED <<socket, ends>>
  BY <1>4
<1>12. QED BY <1>1, <1>4, <1>6, <1>7, <1>9, <1>10, <1>11, NewStep

\* Everything that has arrived was dealt with: the reader is between two packets.
LEMMA AtEnd ==
    ASSUME ServerIInv, ~corrupt, pos = arrived
    PROVE  ServerBetween /\ ~length_incomplete
<1>1. FramingTypeOK /\ StreamInv /\ CutInv /\ ServerAt
  BY FoundTypes DEF ServerIInv
<1>2. PICK a \in 0 .. Len(sent) : pos = Start(a + 1)
  BY DEF ServerIInv, ArrivedInv
<1>3. Len(Found) \in Nat /\ Len(Found) <= Len(sent) /\ Len(sent) \in Nat /\ pos \in Nat
  BY <1>1, FoundTypes, StreamTypes DEF ServerAt, Tiles
<1>4. ASSUME ServerWithin PROVE FALSE
  <2> DEFINE f == Len(Found)
  <2>1. f \in 1 .. Len(sent)
    <3>1. Len(recv_packet_list) # 0
      BY <1>1, <1>4, FoundTypes, EmptySeq DEF ServerWithin
    <3>2. f >= 1
      BY <1>1, <3>1, FoundTypes
    <3>3. QED BY <1>3, <3>2
  <2>2. /\ expect_bytes \in Nat /\ 0 < expect_bytes /\ expect_bytes < sent[f].len
        /\ Start(f + 1) = pos + expect_bytes
    <3>1. expect_bytes \in Nat
      BY <1>1, FoundTypes
    <3>2. Tiles(Found)
      BY <1>1 DEF ServerAt
    <3>3. Len(Found[f]) = sent[f].len
      BY <2>1, <3>2 DEF Tiles
    <3>4. QED BY <1>4, <3>1, <3>3 DEF ServerWithin
  <2>3. sent[f].len \in Nat
    BY <1>1, <2>1, StreamTypes, LegalLength
  <2> HIDE DEF f
  <2>4. /\ Start(f) \in Nat /\ Start(f + 1) = Start(f) + sent[f].len
        /\ Start(a + 1) <= Start(f) \/ Start(f + 1) <= Start(a + 1)
    BY <1>1, <2>1, BoundaryNotWithin
  <2>5. QED BY <1>2, <1>3, <2>2, <2>3, <2>4
<1>5. ServerBetween
  BY <1>1, <1>4 DEF ServerAt
<1>6. ASSUME length_incomplete PROVE FALSE
  <2> DEFINE f == Len(Found) + 1
  <2>1. /\ Start(f) + 1 = pos /\ f \in cut
    BY <1>5, <1>6 DEF ServerBetween
  <2>2. f \in 1 .. Len(sent)
    BY <1>1, <2>1, StreamTypes DEF FramingTypeOK
  <2>3. sent[f].len \in Nat /\ 2 < sent[f].len
    BY <1>1, <2>2, StreamTypes, LegalLength
  <2> HIDE DEF f
  <2>4. /\ Start(f) \in Nat /\ Start(f + 1) = Start(f) + sent[f].len
        /\ Start(a + 1) <= Start(f) \/ Start(f + 1) <= Start(a + 1)
    BY <1>1, <2>2, BoundaryNotWithin
  <2>5. QED BY <1>2, <1>3, <2>1, <2>3, <2>4
<1>7. length_incomplete \in BOOLEAN
  BY <1>1, FoundTypes
<1>8. QED BY <1>5, <1>6, <1>7

LEMMA ProcessStep ==
    ASSUME ServerIInv, process_packet
    PROVE  ServerIInv'
<1>1. /\ FramingTypeOK /\ ServerAt /\ ~corrupt /\ pos = arrived
      /\ handled' = Found /\ recv_packet_list' = <<>>
      /\ UNCHANGED <<socket, reader, open, corrupt>>
  BY FoundTypes DEF ServerIInv, process_packet, Found
<1>2. Found' = Found
  BY <1>1, FoundTypes, ConcatEmptySeq DEF Found
<1>3. FramingTypeOK'
  <2>1. <<>> \in Seq(Packet) /\ Found \in Seq(Packet)
    BY <1>1, FoundTypes, EmptySeq
  <2>2. QED BY <1>1, <2>1 DEF FramingTypeOK, Packet, socket, reader
<1>4. /\ StreamInv' /\ CutInv' /\ ArrivedInv'
      /\ Tiles(Found)' /\ Intact(Found)' /\ Tiles(handled)' /\ Intact(handled)'
  BY <1>1, <1>2, StreamFrame DEF ServerIInv, ServerAt, Tiles, Intact, socket
<1>5. Start(Len(Found) + 1)' = Start(Len(Found) + 1)
  BY <1>1, <1>2 DEF Start, End, socket
<1>6. ServerBetween
  BY <1>1, AtEnd
<1>7. ServerBetween'
  BY <1>1, <1>2, <1>5, <1>6 DEF ServerBetween, socket, reader
<1>8. QED BY <1>1, <1>3, <1>4, <1>7 DEF ServerIInv, ServerAt

LEMMA ServerStep ==
    ASSUME ServerIInv, ~MaySplit, ServerNext \/ UNCHANGED all
    PROVE  ServerIInv'
<1>1. CASE UNCHANGED all
  <2>1. UNCHANGED <<socket, reader, ends, recv_packet_list>>
    BY <1>1 DEF all
  <2>2. /\ FramingTypeOK' /\ StreamInv' /\ CutInv' /\ ArrivedInv'
        /\ open' /\ Tiles(handled)' /\ Intact(handled)'
    BY <2>1, StreamFrame DEF ServerIInv, FramingTypeOK, Tiles, Intact,
                socket, reader, ends
  <2>3. ServerAt => ServerAt'
    BY <2>1 DEF ServerAt, Tiles, Intact, ServerBetween, ServerWithin, Found, Start, End,
                socket, reader, ends
  <2>4. QED BY <2>1, <2>2, <2>3 DEF ServerIInv, ends
<1>2. CASE ServerNext
  BY <1>2, ServerSocketStep, ServerIncompleteStep, ServerOneByteStep, ServerFirstByteStep,
         ServerCompleteStep, ProcessStep
     DEF ServerNext
<1>3. QED BY <1>1, <1>2

-----------------------------------------------------------------------------
(* Both readers.                                                           *)

IInv ==
    /\ side \in {"client", "server"}
    /\ IF side = "client" THEN ClientIInv ELSE ServerIInv /\ lp = NULL

LEMMA Step ==
    ASSUME IInv, ~MaySplit, [Next]_all
    PROVE  IInv'
<1>1. CASE UNCHANGED all
  BY <1>1, ClientStep, ServerStep DEF IInv, all
<1>2. CASE side = "client" /\ ClientNext /\ UNCHANGED side
  BY <1>2, ClientStep DEF IInv
<1>3. CASE side = "server" /\ ServerNext /\ UNCHANGED <<lp, side>>
  BY <1>3, ServerStep DEF IInv
<1>4. QED BY <1>1, <1>2, <1>3 DEF Next

LEMMA Correct == ASSUME ~MaySplit PROVE Spec => []IInv
<1>1. Init => IInv
  BY ClientStart, ServerStart DEF Init, IInv
<1>2. IInv /\ [Next]_all => IInv'
  BY Step
<1>3. QED BY <1>1, <1>2, PTL DEF Spec

\* The reader still reads, and what was handed over is intact.
LEMMA StillOpen ==
    ASSUME IInv
    PROVE  /\ FramingTypeOK /\ StreamInv /\ open = TRUE
           /\ Tiles(handled) /\ Intact(handled)
<1>1. FramingTypeOK /\ StreamInv /\ open /\ Tiles(handled) /\ Intact(handled)
  BY ClientTypes DEF IInv, ClientIInv, ServerIInv
<1>2. open \in BOOLEAN
  BY <1>1 DEF FramingTypeOK
<1>3. QED BY <1>1, <1>2

LEMMA ClientAccounts ==
    ASSUME ClientIInv
    PROVE  ClientAccounted
<1>1. SUFFICES ASSUME ~corrupt
               PROVE  /\ (lp # NULL) = (expect_bytes > 0)
                      /\ lp # NULL => ~length_incomplete
                      /\ Framed(Found \o (IF lp = NULL THEN <<>> ELSE <<lp>>))
  BY DEF ClientAccounted, Found
<1>2. /\ ClientTypeOK /\ FramingTypeOK /\ StreamInv /\ Tiles(Found)
      /\ ClientBetween \/ ClientWithin
  BY <1>1, ClientTypes DEF ClientIInv, ClientAt
<1>3. CASE ClientBetween
  <2>1. Found \o <<>> = Found
    BY <1>2, ClientTypes, ConcatEmptySeq
  <2>2. Framed(Found)
    <3>1. /\ Extents(Found) = SubSeq(sent, 1, Len(Found))
          /\ End(Extents(Found)) = Start(Len(Found) + 1)
      BY <1>2, ClientTypes, TilesExtents
    <3>2. Start(Len(Found) + 1) + (IF length_incomplete THEN 1 ELSE 0)
              = pos + expect_bytes
      BY <1>2, <1>3, ClientTypes DEF ClientBetween
    <3>3. QED BY <3>1, <3>2 DEF Framed
  <2>3. QED BY <1>2, <1>3, <2>1, <2>2, ClientTypes DEF ClientBetween
<1>4. CASE ClientWithin
  <2> DEFINE ps == Append(Found, lp)
             n == Len(Found) + 1
  <2>1. Found \o <<lp>> = ps
    BY <1>2, ClientTypes, AppendIsConcat
  <2>2. ps \in Seq(Packet) /\ Len(ps) = n /\ Tiles(ps)
    BY <1>2, <1>4, ClientTypes, TilesNext DEF ClientWithin
  <2> HIDE DEF ps
  <2>3. /\ Extents(ps) = SubSeq(sent, 1, Len(ps))
        /\ End(Extents(ps)) = Start(n + 1)
    BY <1>2, <2>2, TilesExtents
  <2>4. /\ Start(n) = sent[n].first /\ Start(n + 1) = sent[n].first + sent[n].len
        /\ sent[n].len = Len(lp) /\ Start(n) + Len(lp) = pos + expect_bytes
    BY <1>2, <1>4, StreamTypes DEF ClientWithin, Start, StreamInv
  <2>5. pos + expect_bytes \in Nat
    BY <1>2, ClientTypes
  <2>6. End(Extents(ps)) + (IF length_incomplete THEN 1 ELSE 0) = pos + expect_bytes
    BY <1>4, <2>3, <2>4, <2>5 DEF ClientWithin
  <2>7. Framed(ps)
    BY <2>3, <2>6 DEF Framed
  <2>8. QED BY <1>2, <1>4, <2>1, <2>7, ClientTypes DEF ClientWithin
<1>5. QED BY <1>2, <1>3, <1>4

LEMMA ServerAccounts ==
    ASSUME ServerIInv
    PROVE  ServerAccounted
<1>1. SUFFICES ASSUME ~corrupt
               PROVE  /\ expect_bytes > 0 =>
                              ~length_incomplete /\ recv_packet_list # <<>>
                      /\ Framed(Found)
  BY DEF ServerAccounted, Found
<1>2. FramingTypeOK /\ StreamInv /\ Tiles(Found) /\ (ServerBetween \/ ServerWithin)
  BY <1>1 DEF ServerIInv, ServerAt
<1>3. expect_bytes > 0 => ~length_incomplete /\ recv_packet_list # <<>>
  BY <1>2 DEF ServerBetween, ServerWithin
<1>4. /\ Extents(Found) = SubSeq(sent, 1, Len(Found))
      /\ End(Extents(Found)) = Start(Len(Found) + 1)
  BY <1>2, FoundTypes, TilesExtents
<1>5. Start(Len(Found) + 1) + (IF length_incomplete THEN 1 ELSE 0)
          = pos + expect_bytes
  <2>1. pos \in Nat /\ expect_bytes \in Nat
    BY <1>2, FoundTypes
  <2>2. CASE ServerBetween
    BY <2>1, <2>2 DEF ServerBetween
  <2>3. CASE ServerWithin
    <3>1. Start(Len(Found) + 1) + 0 = pos + expect_bytes
      BY <2>1, <2>3 DEF ServerWithin
    <3>2. QED BY <2>3, <3>1 DEF ServerWithin
  <2>4. QED BY <1>2, <2>2, <2>3
<1>6. QED BY <1>3, <1>4, <1>5 DEF Framed

-----------------------------------------------------------------------------
(* The results.                                                            *)

\* What a reader keeps between two pieces has its type.
THEOREM TypeCorrect == ASSUME ~MaySplit PROVE Spec => []TypeOK
<1>1. ASSUME IInv PROVE TypeOK
  <2>1. FramingTypeOK /\ side \in {"client", "server"}
    BY <1>1, StillOpen DEF IInv
  <2>2. lp \in Packet
    BY <1>1, EmptySeq DEF IInv, ClientIInv, ClientTypeOK, NULL, Packet
  <2>3. QED BY <2>1, <2>2 DEF TypeOK, Packet
<1>2. QED BY <1>1, Correct, PTL

\* Whatever pieces the reads return, expect_bytes, length_incomplete and lp tell
\* what the last packet lacks, and no byte is lost or counted twice.
THEOREM AccountedCorrect == ASSUME ~MaySplit PROVE Spec => []Accounted
<1>1. ASSUME IInv PROVE Accounted
  BY <1>1, ClientAccounts, ServerAccounts DEF IInv, Accounted
<1>2. QED BY <1>1, Correct, PTL

\* A packet that one read has returned whole is handed over as it was sent.
THEOREM IntactCorrect == ASSUME ~MaySplit PROVE Spec => []WholeIsIntact
<1>1. ASSUME IInv PROVE WholeIsIntact
  <2>1. /\ Tiles(handled) /\ Intact(handled) /\ DOMAIN handled = 1 .. Len(handled)
        /\ Len(handled) \in Nat /\ FramingTypeOK
    BY <1>1, StillOpen, FoundTypes
  <2>2. QED BY <2>1, StreamTypes DEF WholeIsIntact, AsSent, Tiles, Intact
<1>2. QED BY <1>1, Correct, PTL

\* What a peer sends and the network brings is so of the packet stream.
LEMMA StreamPeer ==
    ASSUME FramingTypeOK, open' = open, ClientPeer \/ ServerPeer
    PROVE  Stream!Next
<1>1. ASSUME NEW len \in Legal, Send(len) PROVE Stream!Next
  <2>1. sent' = Append(sent, [first |-> End(sent), len |-> len])
        /\ UNCHANGED <<arrived, handled>>
    BY <1>1 DEF Send, ends
  <2>2. Stream!Send(len)
    BY <2>1 DEF Stream!Send, Stream!End, End
  <2>3. QED BY <2>2 DEF Stream!Next
<1>2. ASSUME NEW n \in 1 .. End(sent), Arrive(n) PROVE Stream!Next
  <2>1. arrived' = n /\ n > arrived /\ UNCHANGED <<sent, handled>>
    BY <1>2 DEF Arrive, ends
  <2>2. arrived' \in (arrived + 1) .. End(sent)
    BY <2>1, StreamTypes
  <2>3. Stream!Arrive
    BY <2>1, <2>2 DEF Stream!Arrive, Stream!End, End
  <2>4. QED BY <2>3 DEF Stream!Next
<1>3. QED BY <1>1, <1>2, ClientAssumption, ServerAssumption DEF ClientPeer, ServerPeer

\* All that was found is handed over.
LEMMA StreamHandOver ==
    ASSUME FramingTypeOK, StreamInv, Tiles(Found), open' = open,
           handled' = Found, UNCHANGED <<sent, arrived>>,
           Tiles(handled), Start(Len(Found) + 1) <= arrived
    PROVE  Stream!Next
<1>1. /\ Extents(Found) = SubSeq(sent, 1, Len(Found))
      /\ End(Extents(Found)) = Start(Len(Found) + 1)
  BY FoundTypes, TilesExtents
<1>2. Len(Extents(handled)) = Len(handled)
  BY FoundTypes, TilesExtents
<1>3. Len(Found) \in Len(handled) .. Len(sent)
  BY FoundTypes, StreamTypes DEF Tiles
<1>4. Stream!End(SubSeq(sent, 1, Len(Found))) <= arrived
  BY <1>1 DEF Stream!End, End
<1>5. Stream!HandOver
  BY <1>1, <1>2, <1>3, <1>4 DEF Stream!HandOver
<1>6. QED BY <1>5 DEF Stream!Next

\* However the packets are cut, they are handed over one by one and in order, none
\* before its last byte has arrived, and the peer is never cut off.
THEOREM StreamCorrect == ASSUME ~MaySplit PROVE Spec => StreamSpec
<1>1. Init => Stream!Init
  <2> SUFFICES ASSUME Init PROVE Stream!Init
    OBVIOUS
  <2>1. sent = <<>> /\ arrived = 0 /\ handled = <<>> /\ open = TRUE
    BY DEF Init, ClientInit, ServerInit, FramingInit
  <2>2. Extents(handled) = <<>>
    BY <2>1 DEF Extents
  <2>3. QED BY <2>1, <2>2 DEF Stream!Init
<1>2. ASSUME IInv, [Next]_all PROVE [Stream!Next]_(Stream!vars)
  <2>1. FramingTypeOK /\ StreamInv /\ Tiles(handled)
    BY <1>2, StillOpen
  <2>2. open' = open
    <3>1. IInv'
      BY <1>2, Step
    <3>2. QED BY <1>2, <3>1, StillOpen DEF IInv, ClientIInv, ServerIInv
  <2>3. CASE UNCHANGED <<sent, arrived, handled>>
    BY <2>2, <2>3 DEF Stream!vars
  <2>4. CASE take_packets /\ side = "client"
    <3>1. ClientAt /\ handled' = Found /\ UNCHANGED <<sent, arrived>>
      BY <1>2, <2>4 DEF IInv, ClientIInv, take_packets, Found, socket
    <3>2. Start(Len(Found) + 1) \in Nat
      BY <2>1, <3>1, FoundTypes, StreamTypes DEF ClientAt, Tiles, Start
    <3>3. ClientTypeOK
      BY <1>2, <2>4 DEF IInv, ClientIInv
    <3>4. Start(Len(Found) + 1) <= pos
      BY <3>1, <3>2, <3>3, ClientTypes DEF ClientAt, ClientBetween, ClientWithin
    <3>5. Start(Len(Found) + 1) <= arrived
      BY <2>1, <3>2, <3>4, StreamTypes
    <3>6. QED BY <2>1, <2>2, <3>1, <3>5, StreamHandOver DEF ClientAt
  <2>5. CASE process_packet /\ side = "server"
    <3>1. ServerIInv /\ ServerAt /\ handled' = Found /\ UNCHANGED <<sent, arrived>>
      BY <1>2, <2>5 DEF IInv, ServerIInv, process_packet, Found, socket
    <3>2. pos = arrived /\ ~corrupt /\ arrived \in Nat
      BY <2>1, <2>5, StreamTypes DEF process_packet
    <3>3. ServerBetween /\ ~length_incomplete
      BY <3>1, <3>2, AtEnd
    <3>4. Start(Len(Found) + 1) + 0 = arrived
      BY <3>2, <3>3 DEF ServerBetween
    <3>5. Start(Len(Found) + 1) \in Nat
      BY <2>1, <3>1, FoundTypes, StreamTypes DEF ServerAt, Tiles, Start
    <3>6. Start(Len(Found) + 1) <= arrived
      BY <3>2, <3>4, <3>5
    <3>7. QED BY <2>1, <2>2, <3>1, <3>6, StreamHandOver DEF ServerAt
  <2>6. QED
    <3>1. CASE UNCHANGED all
      BY <2>3, <3>1 DEF all, socket, ends
    <3>2. CASE ClientPeer \/ ServerPeer
      BY <2>1, <2>2, <3>2, StreamPeer
    <3>3. CASE Read
      BY <2>3, <3>3 DEF Read, stream, ends
    <3>4. CASE \/ client_last_packet_incomplete \/ client_last_packet_incomplete_1byte
               \/ client_first_byte \/ client_last_packet_complete
      BY <2>3, <3>4
         DEF client_last_packet_incomplete, client_last_packet_incomplete_1byte,
             client_first_byte, client_last_packet_complete,
             ReadError, Fail, Overrun, socket, ends
    <3>5. CASE \/ conn_last_packet_incomplete \/ conn_last_packet_incomplete_1byte
               \/ conn_first_byte \/ conn_last_packet_complete
      BY <2>3, <3>5
         DEF conn_last_packet_incomplete, conn_last_packet_incomplete_1byte,
             conn_first_byte, conn_last_packet_complete, Fail, Overrun, socket, ends
    <3>6. QED BY <1>2, <2>4, <2>5, <3>1, <3>2, <3>3, <3>4, <3>5
              DEF Next, ClientNext, ServerNext
<1>3. QED BY <1>1, <1>2, Correct, PTL DEF Spec, StreamSpec, Stream!Spec
=============================================================================
