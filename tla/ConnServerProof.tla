--------------------------- MODULE ConnServerProof ---------------------------
(***************************************************************************)
(* Proofs about ConnServer, for any number of users, blocks and packets.   *)
(***************************************************************************)
EXTENDS ConnServer, SequenceTheorems, FiniteSetTheorems, TLAPS

-----------------------------------------------------------------------------
(* Types.                                                                  *)

\* The packets in which the server tells of a uin.
LEMMA PacketType ==
    ASSUME NEW u \in Uin \cup {NoUin}
    PROVE  /\ Offline(u) \in Packets
           /\ \A cmd \in Request \cup {"CMD_LOGIN", "SRV_ERROR", "SRV_LOGIN_OK",
                                       "SRV_OTHER"} : Packet(cmd, u) \in Packets
  BY DEF Offline, Packet, Packets

LEMMA QueueType ==
    ASSUME TypeOK, NEW s \in Socket, NEW p \in Packets, Queue(s, p)
    PROVE  /\ send_packet_list' \in [Socket -> Seq(Packets)]
           /\ waiting' \in SUBSET Socket
<1>1. Append(send_packet_list[s], p) \in Seq(Packets)
  BY AppendProperties DEF TypeOK
<1>2. QED BY <1>1 DEF TypeOK, Queue

LEMMA SuffixType ==
    ASSUME NEW S, NEW q \in Seq(S), NEW n \in Nat
    PROVE  SubSeq(q, n + 1, Len(q)) \in Seq(S)
<1>1. Len(q) \in Nat /\ \A i \in (n + 1) .. Len(q) : q[i] \in S
  BY LenProperties, ElementOfSeq
<1>2. n + 1 \in Int /\ Len(q) \in Int
  BY <1>1
<1> HIDE DEF SubSeq
<1>3. QED BY <1>1, <1>2, SubSeqProperties

\* How many connections of a uin are closed.
LEMMA DeadOfUinType ==
    ASSUME NEW dead \in SUBSET Addr, NEW u
    PROVE  Cardinality({a \in dead : conn[a].uin = u}) \in Nat
<1>1. IsFiniteSet({a \in dead : conn[a].uin = u})
  BY AddrAssumption, FS_Subset
<1>2. QED BY <1>1, FS_CardinalityType

LEMMA CloseType ==
    ASSUME TypeOK, NEW dead \in SUBSET Addr, NEW off \in Seq(Packets),
           close_connections(dead, off)
    PROVE  /\ fd_conn_map' \in SUBSET Addr
           /\ conn' \in [Addr -> [peer : Uin \cup {NoUin}, uin : Uin \cup {NoUin},
                                  type : Type]]
           /\ uin_conn_map' \in [Uin -> Seq(Addr)]
           /\ send_packet_list' \in [Socket -> Seq(Packets)]
           /\ waiting' \in SUBSET Socket
<1>1. fd_conn_map' \in SUBSET Addr /\ waiting' \in SUBSET Socket
  BY DEF close_connections, TypeOK, Socket, Server
<1>2. conn' \in [Addr -> [peer : Uin \cup {NoUin}, uin : Uin \cup {NoUin},
                          type : Type]]
  BY DEF close_connections, TypeOK, Unused, conn_init, Type
<1>3. uin_conn_map' \in [Uin -> Seq(Addr)]
  <2>1. ASSUME NEW u \in Uin
        PROVE  SubSeq(uin_conn_map[u],
                      1 + Cardinality({a \in dead : conn[a].uin = u}),
                      Len(uin_conn_map[u])) \in Seq(Addr)
    <3> DEFINE n == Cardinality({a \in dead : conn[a].uin = u})
    <3>1. n \in Nat
      BY DeadOfUinType
    <3>2. uin_conn_map[u] \in Seq(Addr)
      BY DEF TypeOK
    <3> HIDE DEF n
    <3>3. SubSeq(uin_conn_map[u], n + 1, Len(uin_conn_map[u])) \in Seq(Addr)
      BY <3>1, <3>2, SuffixType
    <3>4. 1 + n = n + 1
      BY <3>1
    <3>5. QED BY <3>3, <3>4 DEF n
  <2>2. QED BY <2>1 DEF close_connections, EntriesLeft
<1>4. send_packet_list' \in [Socket -> Seq(Packets)]
  <2>1. ASSUME NEW s \in Socket
        PROVE  send_packet_list[s] \o off \in Seq(Packets)
    BY ConcatProperties DEF TypeOK
  <2>2. <<>> \in Seq(Packets)
    OBVIOUS
  <2>3. QED BY <2>1, <2>2 DEF close_connections, QueuesLeft, TypeOK
<1>5. QED BY <1>1, <1>2, <1>3, <1>4

\* A pass closes open connections, and reports each.
LEMMA PassArguments ==
    ASSUME TypeOK, NEW D \in SUBSET fd_conn_map, NEW dead \in SetToSeqs(D)
    PROVE  /\ ToSet(dead) \subseteq D
           /\ ToSet(dead) \in SUBSET Addr
           /\ [i \in DOMAIN dead |-> Offline(conn[dead[i]].uin)] \in Seq(Packets)
<1>1. IsFiniteSet(D) /\ Cardinality(D) \in Nat
  <2>1. D \in SUBSET Addr
    BY DEF TypeOK
  <2>2. IsFiniteSet(D)
    BY <2>1, AddrAssumption, FS_Subset
  <2>3. QED BY <2>2, FS_CardinalityType
<1>2. dead \in [1 .. Cardinality(D) -> D]
  BY DEF SetToSeqs
<1>3. ToSet(dead) \subseteq D
  BY <1>2 DEF ToSet
<1>4. \A i \in 1 .. Cardinality(D) : Offline(conn[dead[i]].uin) \in Packets
  <2>1. SUFFICES ASSUME NEW i \in 1 .. Cardinality(D)
                 PROVE  Offline(conn[dead[i]].uin) \in Packets
    OBVIOUS
  <2>2. dead[i] \in Addr
    BY <1>2 DEF TypeOK
  <2>3. conn[dead[i]].uin \in Uin \cup {NoUin}
    BY <2>2 DEF TypeOK
  <2>4. QED BY <2>3, PacketType
<1>5. [i \in 1 .. Cardinality(D) |-> Offline(conn[dead[i]].uin)] \in Seq(Packets)
  BY <1>1, <1>4, IsASeq
<1>6. QED BY <1>2, <1>3, <1>5 DEF TypeOK

\* A connection has a user at its other end, and its uin is his number or none.
PeerInv ==
    \A a \in fd_conn_map :
        conn[a].peer \in Uin /\ conn[a].uin \in {NoUin, conn[a].peer}

LEMMA TypeInit == Init => TypeOK
<1> SUFFICES ASSUME Init PROVE TypeOK
  OBVIOUS
<1>1. Unused \in [peer : Uin \cup {NoUin}, uin : Uin \cup {NoUin}, type : Type]
  BY DEF Unused, conn_init, Type
<1>2. QED BY <1>1 DEF Init, TypeOK

\* An event of a client's socket.
LEMMA ClientType ==
    ASSUME TypeOK, PeerInv, NEW a \in Addr, ClientEvent(a)
    PROVE  TypeOK'
<1>1. /\ conn[a].peer \in Uin \cup {NoUin} /\ conn[a].uin \in Uin \cup {NoUin}
      /\ "user" \in Socket /\ "status" \in Socket
  BY DEF TypeOK, Socket, Server
<1>2. ASSUME NEW u \in Uin, Accept(a, u) PROVE TypeOK'
  <2>1. conn_init(u) \in [peer : Uin \cup {NoUin}, uin : Uin \cup {NoUin},
                          type : Type]
    BY DEF conn_init, Type
  <2>2. QED BY <1>2, <2>1 DEF Accept, TypeOK
<1>3. CASE cmd_login(a)
  <2> DEFINE u == conn[a].peer
  <2>1. Queue("user", Packet("CMD_LOGIN", u))
    BY <1>3 DEF cmd_login
  <2>2. /\ send_packet_list' \in [Socket -> Seq(Packets)]
        /\ waiting' \in SUBSET Socket
    BY <1>1, <2>1, QueueType, PacketType
  <2>3. conn' \in [Addr -> [peer : Uin \cup {NoUin}, uin : Uin \cup {NoUin},
                            type : Type]]
    <3> DEFINE c == [conn EXCEPT ![a].type = "LOGIN_UNCOMPLETE"]
    <3>1. c \in [Addr -> [peer : Uin \cup {NoUin}, uin : Uin \cup {NoUin},
                          type : Type]]
      BY DEF TypeOK, Type
    <3>2. conn' = [c EXCEPT ![a].uin = u]
      BY <1>3 DEF cmd_login
    <3> HIDE DEF c
    <3>3. QED BY <1>1, <3>1, <3>2
  <2>4. uin_conn_map' \in [Uin -> Seq(Addr)]
    <3>1. \A w \in Uin : <<a>> \o uin_conn_map[w] \in Seq(Addr)
      <4>1. <<a>> \in Seq(Addr)
        OBVIOUS
      <4>2. QED BY <4>1, ConcatProperties DEF TypeOK
    <3>2. QED BY <1>3, <3>1 DEF cmd_login, TypeOK
  <2>5. QED BY <1>3, <2>2, <2>3, <2>4 DEF cmd_login, TypeOK
<1>4. CASE cmd_keep_alive(a)
  <2>1. conn[a].peer \in Uin
    BY <1>4 DEF cmd_keep_alive, LoggedIn, PeerInv
  <2>2. QED BY <1>4, <2>1 DEF cmd_keep_alive, TypeOK
<1>5. CASE cmd_logout(a)
  <2>1. <<Offline(conn[a].peer)>> \in Seq(Packets)
    BY <1>1, PacketType
  <2>2. close_connections({a}, <<Offline(conn[a].peer)>>)
    BY <1>5 DEF cmd_logout
  <2>3. QED BY <1>5, <2>1, <2>2, CloseType DEF cmd_logout, TypeOK
<1>6. ASSUME NEW cmd \in Request, cmd_forward(a, cmd) PROVE TypeOK'
  <2>1. Dest[cmd] \in Socket
    BY RequestAssumption DEF Dest, Socket, Server
  <2>2. /\ send_packet_list' \in [Socket -> Seq(Packets)]
        /\ waiting' \in SUBSET Socket
    BY <1>1, <1>6, <2>1, QueueType, PacketType DEF cmd_forward
  <2>3. QED BY <1>6, <2>2 DEF cmd_forward, TypeOK
<1>7. CASE error_handler(a)
  <2> DEFINE off == IF conn[a].type = "LOGIN_OK" THEN <<Offline(conn[a].uin)>> ELSE <<>>
  <2>1. off \in Seq(Packets)
    BY <1>1, PacketType
  <2>2. close_connections({a}, off)
    BY <1>7 DEF error_handler
  <2> HIDE DEF off
  <2>3. QED BY <1>7, <2>1, <2>2, CloseType DEF error_handler, TypeOK
<1>8. QED BY <1>2, <1>3, <1>4, <1>5, <1>6, <1>7 DEF ClientEvent

\* A packet of another server for a user who is known.
LEMMA KnownType ==
    ASSUME TypeOK, NEW u \in Uin, Known(u)
    PROVE  get_conn_by_uin(u) \in Addr
<1>1. uin_conn_map[u] \in Seq(Addr) /\ uin_conn_map[u] # <<>>
  BY DEF Known, TypeOK
<1>2. QED BY <1>1, HeadTailProperties DEF get_conn_by_uin

LEMMA DeliverType ==
    ASSUME TypeOK, NEW a \in Addr, NEW type \in Type, NEW p \in Packets,
           Deliver(a, type, p)
    PROVE  TypeOK'
<1>1. a \in Socket
  BY DEF Socket
<1>2. /\ send_packet_list' \in [Socket -> Seq(Packets)]
      /\ waiting' \in SUBSET Socket
  BY <1>1, QueueType DEF Deliver
<1>3. conn' \in [Addr -> [peer : Uin \cup {NoUin}, uin : Uin \cup {NoUin},
                          type : Type]]
  BY DEF Deliver, TypeOK
<1>4. QED BY <1>2, <1>3 DEF Deliver, TypeOK

LEMMA ServerEventDelivers ==
    ASSUME TypeOK, NEW u \in Uin, ServerEvent(u)
    PROVE  /\ Known(u)
           /\ \E type \in Type : \E p \in Packets :
                /\ p.uin = u
                /\ type = "LOGIN_OK" \/ type = "LOGIN_ERROR"
                /\ Deliver(get_conn_by_uin(u), type, p)
<1>1. \A cmd \in {"SRV_ERROR", "SRV_LOGIN_OK", "SRV_OTHER"} :
        Packet(cmd, u) \in Packets /\ Packet(cmd, u).uin = u
  BY PacketType DEF Packet
<1>2. "LOGIN_OK" \in Type /\ "LOGIN_ERROR" \in Type
  BY DEF Type
<1>3. QED
  BY <1>1, <1>2 DEF ServerEvent, srv_error, srv_login_ok, srv_other_packet

LEMMA WriteType ==
    ASSUME TypeOK, NEW s \in Socket, write_handler(s)
    PROVE  TypeOK'
<1>1. PICK n \in 0 .. Len(send_packet_list[s]) :
        send_packet_list' =
            [send_packet_list EXCEPT ![s] = SubSeq(@, n + 2, Len(@))]
  BY DEF write_handler
<1>2. Len(send_packet_list[s]) \in Nat
  BY LenProperties DEF TypeOK
<1>3. n + 1 \in Nat /\ (n + 1) + 1 = n + 2
  BY <1>2
<1>4. SubSeq(send_packet_list[s], (n + 1) + 1, Len(send_packet_list[s]))
        \in Seq(Packets)
  BY <1>3, SuffixType DEF TypeOK
<1>5. SubSeq(send_packet_list[s], n + 2, Len(send_packet_list[s]))
        \in Seq(Packets)
  BY <1>3, <1>4
<1>6. QED BY <1>1, <1>5 DEF write_handler, TypeOK

LEMMA PassType ==
    ASSUME TypeOK, NEW D \in SUBSET fd_conn_map, NEW dead \in SetToSeqs(D),
           timer_expire_time(dead)
    PROVE  TypeOK'
<1> DEFINE off == [i \in DOMAIN dead |-> Offline(conn[dead[i]].uin)]
<1>1. ToSet(dead) \in SUBSET Addr /\ off \in Seq(Packets)
  BY PassArguments
<1>2. close_connections(ToSet(dead), off)
  BY DEF timer_expire_time
<1> HIDE DEF off
<1>3. /\ fd_conn_map' \in SUBSET Addr
      /\ conn' \in [Addr -> [peer : Uin \cup {NoUin}, uin : Uin \cup {NoUin},
                             type : Type]]
      /\ uin_conn_map' \in [Uin -> Seq(Addr)]
      /\ send_packet_list' \in [Socket -> Seq(Packets)]
      /\ waiting' \in SUBSET Socket
  BY <1>1, <1>2, CloseType
<1>4. QED BY <1>3 DEF timer_expire_time, TypeOK

LEMMA TypeStep ==
    ASSUME TypeOK, PeerInv, [Next]_vars
    PROVE  TypeOK'
<1>1. ASSUME NEW a \in Addr, ClientEvent(a) PROVE TypeOK'
  BY <1>1, ClientType
<1>2. ASSUME NEW u \in Uin, ServerEvent(u) PROVE TypeOK'
  BY <1>2, ServerEventDelivers, KnownType, DeliverType
<1>3. ASSUME NEW s \in Socket, write_handler(s) PROVE TypeOK'
  BY <1>3, WriteType
<1>4. ASSUME NEW D \in SUBSET fd_conn_map, NEW dead \in SetToSeqs(D),
             timer_expire_time(dead)
      PROVE  TypeOK'
  BY <1>4, PassType
<1>5. CASE UNCHANGED vars
  BY <1>5 DEF vars, TypeOK
<1>6. QED BY <1>1, <1>2, <1>3, <1>4, <1>5 DEF Next

LEMMA PeerStep ==
    ASSUME TypeOK, PeerInv, [Next]_vars
    PROVE  PeerInv'
<1> USE DEF TypeOK
<1>1. ASSUME NEW a \in Addr, ClientEvent(a) PROVE PeerInv'
  <2>1. ASSUME NEW u \in Uin, Accept(a, u) PROVE PeerInv'
    BY <2>1 DEF Accept, conn_init, PeerInv
  <2>2. CASE cmd_login(a)
    <3>1. \A b \in Addr : /\ conn'[b].peer = conn[b].peer
                          /\ conn'[b].uin = IF b = a THEN conn[a].peer
                                            ELSE conn[b].uin
      BY <2>2 DEF cmd_login
    <3>2. QED BY <2>2, <3>1 DEF cmd_login, PeerInv
  <2>3. CASE cmd_keep_alive(a) \/ \E cmd \in Request : cmd_forward(a, cmd)
    BY <2>3 DEF cmd_keep_alive, cmd_forward, PeerInv
  <2>4. CASE cmd_logout(a) \/ error_handler(a)
    BY <2>4 DEF cmd_logout, error_handler, close_connections, PeerInv
  <2>5. QED BY <1>1, <2>1, <2>2, <2>3, <2>4 DEF ClientEvent
<1>2. ASSUME NEW u \in Uin, ServerEvent(u) PROVE PeerInv'
  <2>1. PICK a \in Addr, type \in Type, p \in Packets : Deliver(a, type, p)
    BY <1>2, ServerEventDelivers, KnownType
  <2>2. \A b \in Addr : conn'[b].peer = conn[b].peer /\ conn'[b].uin = conn[b].uin
    BY <2>1 DEF Deliver
  <2>3. QED BY <2>1, <2>2 DEF Deliver, PeerInv
<1>3. ASSUME NEW s \in Socket, write_handler(s) PROVE PeerInv'
  BY <1>3 DEF write_handler, PeerInv
<1>4. ASSUME NEW dead, timer_expire_time(dead) PROVE PeerInv'
  BY <1>4 DEF timer_expire_time, close_connections, PeerInv
<1>5. CASE UNCHANGED vars
  BY <1>5 DEF vars, PeerInv
<1>6. QED BY <1>1, <1>2, <1>3, <1>4, <1>5 DEF Next

\* Every reachable state of the connection server is well typed, also when
\* users have several connections (struct conn_server, struct connection).
THEOREM TypeCorrect == Spec => []TypeOK
<1>1. Init => PeerInv
  BY DEF Init, PeerInv
<1>2. TypeOK /\ PeerInv /\ [Next]_vars => TypeOK' /\ PeerInv'
  BY TypeStep, PeerStep
<1>3. QED BY <1>1, <1>2, TypeInit, PTL DEF Spec

-----------------------------------------------------------------------------
(* Queues and what epoll watches.                                          *)

\* What QueuesAreWatched says of one socket.
Watched(s) ==
    send_packet_list'[s] # <<>> /\ s \notin waiting' =>
        \/ Len(send_packet_list'[s]) < Len(send_packet_list[s])
        \/ send_packet_list'[s] = send_packet_list[s] /\ s \notin waiting

LEMMA QueueWatches ==
    ASSUME TypeOK, NEW t \in Socket, NEW p, Queue(t, p), NEW s \in Socket
    PROVE  Watched(s)
  BY DEF Queue, TypeOK, Watched

LEMMA CloseWatches ==
    ASSUME TypeOK, NEW dead, NEW off, close_connections(dead, off), NEW s \in Socket
    PROVE  Watched(s)
<1>1. send_packet_list'[s] = IF s \in dead THEN <<>>
                             ELSE IF s = "status" THEN send_packet_list[s] \o off
                             ELSE send_packet_list[s]
  BY DEF close_connections, QueuesLeft
<1>2. waiting' = (waiting \ dead) \cup (IF off = <<>> THEN {} ELSE {"status"})
  BY DEF close_connections
<1>3. off = <<>> => send_packet_list[s] \o off = send_packet_list[s]
  BY ConcatEmptySeq DEF TypeOK
<1>4. QED BY <1>1, <1>2, <1>3 DEF Watched

LEMMA WriteWatches ==
    ASSUME TypeOK, NEW t \in Socket, write_handler(t), NEW s \in Socket
    PROVE  Watched(s)
<1>1. PICK n \in 0 .. Len(send_packet_list[t]) :
        send_packet_list' =
            [send_packet_list EXCEPT ![t] = SubSeq(@, n + 2, Len(@))]
  BY DEF write_handler
<1>2. CASE s = t
  <2> DEFINE q == send_packet_list[s]
  <2>1. q \in Seq(Packets) /\ Len(q) \in Nat
    BY LenProperties DEF TypeOK
  <2>2. send_packet_list'[s] = SubSeq(q, n + 2, Len(q))
    BY <1>1, <1>2 DEF TypeOK
  <2>3. n \in 0 .. Len(q)
    BY <1>1, <1>2
  <2> HIDE DEF q
  <2>4. \A i \in (n + 2) .. Len(q) : q[i] \in Packets
    BY <2>1, <2>3, ElementOfSeq
  <2>5. Len(SubSeq(q, n + 2, Len(q)))
          = IF n + 2 <= Len(q) THEN Len(q) - (n + 2) + 1 ELSE 0
    BY <2>1, <2>3, <2>4, SubSeqProperties
  <2>6. n + 2 > Len(q) => SubSeq(q, n + 2, Len(q)) = <<>>
    BY <2>1, <2>3, SubSeqEmpty
  <2>7. SubSeq(q, n + 2, Len(q)) # <<>>
          => Len(SubSeq(q, n + 2, Len(q))) < Len(q)
    BY <2>1, <2>3, <2>5, <2>6
  <2>8. QED BY <2>2, <2>7 DEF Watched, q
<1>3. CASE s # t
  BY <1>1, <1>3 DEF write_handler, TypeOK, Watched
<1>4. QED BY <1>2, <1>3

LEMMA WatchedStep ==
    ASSUME TypeOK, [Next]_vars, NEW s \in Socket
    PROVE  Watched(s)
<1>1. ASSUME NEW a \in Addr, ClientEvent(a) PROVE Watched(s)
  <2>1. CASE \/ \E u \in Uin : Accept(a, u)
             \/ cmd_keep_alive(a)
    BY <2>1 DEF Accept, cmd_keep_alive, Watched
  <2>2. CASE cmd_login(a)
    BY <2>2, QueueWatches DEF cmd_login, Socket, Server
  <2>3. ASSUME NEW cmd \in Request, cmd_forward(a, cmd) PROVE Watched(s)
    <3>1. Dest[cmd] \in Socket
      BY RequestAssumption DEF Dest, Socket, Server
    <3>2. QED BY <2>3, <3>1, QueueWatches DEF cmd_forward
  <2>4. CASE cmd_logout(a)
    BY <2>4, CloseWatches DEF cmd_logout
  <2>5. CASE error_handler(a)
    BY <2>5, CloseWatches DEF error_handler
  <2>6. QED BY <1>1, <2>1, <2>2, <2>3, <2>4, <2>5 DEF ClientEvent
<1>2. ASSUME NEW u \in Uin, ServerEvent(u) PROVE Watched(s)
  <2>1. PICK a \in Addr, type \in Type, p \in Packets : Deliver(a, type, p)
    BY <1>2, ServerEventDelivers, KnownType
  <2>2. a \in Socket /\ Queue(a, p)
    BY <2>1 DEF Deliver, Socket
  <2>3. QED BY <2>2, QueueWatches
<1>3. ASSUME NEW t \in Socket, write_handler(t) PROVE Watched(s)
  BY <1>3, WriteWatches
<1>4. ASSUME NEW dead, timer_expire_time(dead) PROVE Watched(s)
  <2>1. PICK off : close_connections(ToSet(dead), off)
    BY <1>4 DEF timer_expire_time
  <2>2. QED BY <2>1, CloseWatches
<1>5. CASE UNCHANGED vars
  BY <1>5 DEF vars, Watched
<1>6. QED BY <1>1, <1>2, <1>3, <1>4, <1>5 DEF Next

\* Only a full buffer leaves packets behind at a socket that epoll does not
\* watch for EPOLLOUT, and the next packet for it has it watched again
\* (wait_for_write, write_handler).
THEOREM WatchedCorrect == Spec => QueuesAreWatched
<1>1. TypeOK /\ [Next]_vars =>
        [\A s \in Socket :
            send_packet_list'[s] # <<>> /\ s \notin waiting' =>
                \/ Len(send_packet_list'[s]) < Len(send_packet_list[s])
                \/ send_packet_list'[s] = send_packet_list[s] /\ s \notin waiting]_vars
  BY WatchedStep DEF Watched
<1>2. QED BY <1>1, TypeCorrect, PTL DEF Spec, QueuesAreWatched

-----------------------------------------------------------------------------
(* The directory and the queues, while a user logs in anew only after his  *)
(* last connection was closed.                                             *)

IInv == TypeOK /\ PeerInv /\ Directory /\ OnlyOwnPackets

LEMMA AppendSet ==
    ASSUME NEW S, NEW q \in Seq(S), NEW p \in S
    PROVE  ToSet(Append(q, p)) = ToSet(q) \cup {p}
<1>1. /\ Append(q, p) \in Seq(S) /\ Len(Append(q, p)) = Len(q) + 1
      /\ \A i \in 1 .. Len(q) : Append(q, p)[i] = q[i]
      /\ Append(q, p)[Len(q) + 1] = p
  BY AppendProperties
<1>2. /\ Len(q) \in Nat /\ DOMAIN q = 1 .. Len(q)
      /\ DOMAIN Append(q, p) = 1 .. (Len(q) + 1)
  BY <1>1, LenProperties
<1> HIDE DEF Append
<1>3. \A i \in 1 .. (Len(q) + 1) : i \in 1 .. Len(q) \/ i = Len(q) + 1
  BY <1>2
<1>4. \A i \in 1 .. Len(q) : i \in 1 .. (Len(q) + 1)
  BY <1>2
<1>5. Len(q) + 1 \in 1 .. (Len(q) + 1)
  BY <1>2
<1>6. ToSet(Append(q, p)) \subseteq ToSet(q) \cup {p}
  BY <1>1, <1>2, <1>3 DEF ToSet
<1>7. ToSet(q) \cup {p} \subseteq ToSet(Append(q, p))
  BY <1>1, <1>2, <1>4, <1>5 DEF ToSet
<1>8. QED BY <1>6, <1>7

LEMMA SuffixSet ==
    ASSUME NEW S, NEW q \in Seq(S), NEW n \in Nat
    PROVE  ToSet(SubSeq(q, n + 1, Len(q))) \subseteq ToSet(q)
<1> DEFINE r == SubSeq(q, n + 1, Len(q))
<1>1. Len(q) \in Nat /\ DOMAIN q = 1 .. Len(q)
  BY LenProperties
<1>2. \A i \in (n + 1) .. Len(q) : q[i] \in S
  BY <1>1, ElementOfSeq
<1>3. /\ r \in Seq(S)
      /\ Len(r) = IF n + 1 <= Len(q) THEN Len(q) - (n + 1) + 1 ELSE 0
      /\ \A i \in 1 .. (Len(q) - (n + 1) + 1) : r[i] = q[(n + 1) + i - 1]
  BY <1>1, <1>2, SubSeqProperties
<1>4. DOMAIN r = 1 .. Len(r)
  BY <1>3, LenProperties
<1> HIDE DEF r
<1>5. ASSUME NEW i \in DOMAIN r PROVE r[i] \in ToSet(q)
  <2>1. /\ i \in 1 .. (Len(q) - (n + 1) + 1)
        /\ (n + 1) + i - 1 \in 1 .. Len(q)
    <3>1. i \in 1 .. (IF n + 1 <= Len(q) THEN Len(q) - (n + 1) + 1 ELSE 0)
      BY <1>3, <1>4
    <3>2. n + 1 <= Len(q)
      BY <1>1, <3>1
    <3>3. QED BY <1>1, <3>1, <3>2
  <2>2. r[i] = q[(n + 1) + i - 1]
    BY <1>3, <2>1
  <2>3. QED BY <1>1, <2>1, <2>2 DEF ToSet
<1>6. QED BY <1>5 DEF ToSet, r

LEMMA EmptySet ==
    ToSet(<<>>) = {}
  BY DEF ToSet

LEMMA SingleSet ==
    ASSUME NEW x PROVE ToSet(<<x>>) = {x}
  BY DEF ToSet

\* What get_conn_by_uin finds is the open connection of the user.
LEMMA FoundIsOwn ==
    ASSUME IInv, NEW u \in Uin, Known(u)
    PROVE  LET a == get_conn_by_uin(u)
           IN  /\ a \in Addr /\ a \in fd_conn_map
               /\ conn[a].uin = u /\ conn[a].peer = u
               /\ uin_conn_map[u] = <<a>>
<1> DEFINE a == get_conn_by_uin(u)
<1>1. uin_conn_map[u] \in Seq(Addr) /\ uin_conn_map[u] # <<>>
  BY DEF Known, IInv, TypeOK
<1>2. a \in Addr
  BY KnownType DEF IInv
<1>3. a \in ToSet(uin_conn_map[u])
  <2>1. 1 \in DOMAIN uin_conn_map[u]
    BY <1>1, LenProperties, EmptySeq
  <2>2. a = uin_conn_map[u][1]
    BY <1>1 DEF get_conn_by_uin
  <2>3. QED BY <2>1, <2>2 DEF ToSet
<1> HIDE DEF a
<1>4. a \in fd_conn_map /\ conn[a].uin = u
  BY <1>3 DEF IInv, Directory
<1>5. uin_conn_map[u] = <<a>>
  BY <1>4 DEF IInv, Directory
<1>6. conn[a].peer = u
  BY <1>4, NoUinAssumption DEF IInv, PeerInv
<1>7. QED BY <1>2, <1>4, <1>5, <1>6 DEF a

\* The entries close_connection removes are those of the closed connections.
LEMMA EntriesLeftValue ==
    ASSUME IInv, NEW dead \in SUBSET fd_conn_map, NEW u \in Uin
    PROVE  EntriesLeft(dead)[u] =
             IF \E a \in dead : conn[a].uin = u THEN <<>> ELSE uin_conn_map[u]
<1> DEFINE here == {a \in dead : conn[a].uin = u}
<1>1. EntriesLeft(dead)[u] =
        SubSeq(uin_conn_map[u], 1 + Cardinality(here), Len(uin_conn_map[u]))
  BY DEF EntriesLeft
<1>2. CASE \E a \in dead : conn[a].uin = u
  <2>1. PICK a \in dead : conn[a].uin = u
    BY <1>2
  <2>2. \A b \in here : uin_conn_map[u] = <<b>>
    BY DEF IInv, Directory
  <2>3. uin_conn_map[u] = <<a>>
    BY <2>1, <2>2
  <2>4. here = {a}
    BY <2>1, <2>2, <2>3
  <2>5. Cardinality(here) = 1
    BY <2>4, FS_Singleton
  <2>6. SubSeq(<<a>>, 2, 1) = <<>>
    BY SubSeqEmpty
  <2> HIDE DEF here
  <2>7. EntriesLeft(dead)[u] = SubSeq(<<a>>, 1 + 1, Len(<<a>>))
    BY <1>1, <2>3, <2>5
  <2>8. EntriesLeft(dead)[u] = <<>>
    BY <2>6, <2>7
  <2>9. QED BY <1>2, <2>8
<1>3. CASE ~\E a \in dead : conn[a].uin = u
  <2>1. here = {}
    BY <1>3
  <2>2. Cardinality(here) = 0
    BY <2>1, FS_EmptySet
  <2>3. SubSeq(uin_conn_map[u], 1, Len(uin_conn_map[u])) = uin_conn_map[u]
    BY SubSeqFull DEF IInv, TypeOK
  <2> HIDE DEF here
  <2>4. QED BY <1>1, <1>3, <2>2, <2>3
<1>4. QED BY <1>2, <1>3

\* close_connection, once for each of some connections.
LEMMA CloseKeeps ==
    ASSUME IInv, TypeOK', NEW dead \in SUBSET fd_conn_map,
           NEW off, close_connections(dead, off), proc' = proc
    PROVE  IInv'
<1>1. /\ fd_conn_map' = fd_conn_map \ dead
      /\ \A a \in fd_conn_map' : a \in Addr /\ conn'[a] = conn[a]
  BY DEF close_connections, IInv, TypeOK
<1>2. \A u \in Uin : uin_conn_map'[u] =
        IF \E a \in dead : conn[a].uin = u THEN <<>> ELSE uin_conn_map[u]
  BY EntriesLeftValue DEF close_connections
<1>3. PeerInv'
  BY <1>1 DEF IInv, PeerInv
<1>4. Directory'
  <2>1. ASSUME NEW u \in Uin, NEW a \in ToSet(uin_conn_map'[u])
        PROVE  a \in fd_conn_map' /\ conn'[a].uin = u
    <3>1. ~\E b \in dead : conn[b].uin = u
      BY <1>2, <2>1, EmptySet
    <3>2. a \in ToSet(uin_conn_map[u])
      BY <1>2, <2>1, <3>1
    <3>3. a \in fd_conn_map /\ conn[a].uin = u
      BY <3>2 DEF IInv, Directory
    <3>4. QED BY <1>1, <3>1, <3>3
  <2>2. ASSUME NEW a \in fd_conn_map', NEW u \in Uin, conn'[a].uin = u
        PROVE  uin_conn_map'[u] = <<a>>
    <3>1. a \in fd_conn_map /\ a \notin dead /\ conn[a].uin = u
      BY <1>1, <2>2
    <3>2. uin_conn_map[u] = <<a>>
      BY <3>1 DEF IInv, Directory
    <3>3. \A b \in dead : conn[b].uin = u => uin_conn_map[u] = <<b>>
      BY DEF IInv, Directory
    <3>4. \A b \in dead : conn[b].uin # u
      BY <3>1, <3>2, <3>3
    <3>5. QED BY <1>2, <3>2, <3>4
  <2>3. proc' = "running"
    BY DEF IInv, Directory
  <2>4. QED BY <2>1, <2>2, <2>3 DEF Directory
<1>5. OnlyOwnPackets'
  <2>1. SUFFICES ASSUME NEW a \in Addr, NEW p \in ToSet(send_packet_list'[a])
                 PROVE  a \in fd_conn_map' /\ p.uin = conn'[a].peer
    BY DEF OnlyOwnPackets
  <2>2. a \in Socket /\ a # "status"
    BY AddrAssumption DEF Socket, Server
  <2>3. send_packet_list'[a] = IF a \in dead THEN <<>> ELSE send_packet_list[a]
    BY <2>2 DEF close_connections, QueuesLeft
  <2>4. a \notin dead /\ p \in ToSet(send_packet_list[a])
    BY <2>1, <2>3, EmptySet
  <2>5. a \in fd_conn_map /\ p.uin = conn[a].peer
    BY <2>4 DEF IInv, OnlyOwnPackets
  <2>6. QED BY <1>1, <2>4, <2>5
<1>6. QED BY <1>3, <1>4, <1>5 DEF IInv

\* A packet is queued for a server: the queues of the clients stay.
LEMMA ForwardKeeps ==
    ASSUME TypeOK, OnlyOwnPackets, NEW s \in Server, NEW p, Queue(s, p),
           \A a \in fd_conn_map : conn'[a].peer = conn[a].peer,
           UNCHANGED fd_conn_map
    PROVE  OnlyOwnPackets'
<1>1. \A a \in Addr : a \in Socket /\ a # s
  BY AddrAssumption DEF Socket
<1>2. \A a \in Addr : send_packet_list'[a] = send_packet_list[a]
  BY <1>1 DEF Queue, TypeOK
<1>3. QED BY <1>2 DEF OnlyOwnPackets

\* cmd_login gives the user his only entry.
LEMMA LoginKeeps ==
    ASSUME Overlap = FALSE, IInv, TypeOK', NEW a \in Addr, cmd_login(a)
    PROVE  IInv'
<1> DEFINE u == conn[a].peer
<1>1. /\ a \in fd_conn_map /\ u \in Uin
      /\ conn[a].uin = NoUin /\ uin_conn_map[u] = <<>>
      /\ Queue("user", Packet("CMD_LOGIN", u))
      /\ UNCHANGED <<proc, fd_conn_map, keep_alive_list>>
  BY DEF cmd_login, Readable, MayLogin, Known, IInv, PeerInv
<1>2. \A b \in Addr : /\ conn'[b].peer = conn[b].peer
                      /\ conn'[b].uin = IF b = a THEN u ELSE conn[b].uin
  BY DEF cmd_login, IInv, TypeOK
<1>3. uin_conn_map'[u] = <<a>>
  <2>1. <<a>> \o <<>> = <<a>>
    OBVIOUS
  <2>2. uin_conn_map'[u] = <<a>> \o uin_conn_map[u]
    BY <1>1 DEF cmd_login, IInv, TypeOK
  <2>3. QED BY <1>1, <2>1, <2>2
<1>4. \A w \in Uin \ {u} : uin_conn_map'[w] = uin_conn_map[w]
  BY <1>1 DEF cmd_login, IInv, TypeOK
<1>5. fd_conn_map \subseteq Addr
  BY DEF IInv, TypeOK
<1> HIDE DEF u
<1>6. PeerInv'
  <2>1. ASSUME NEW b \in fd_conn_map
        PROVE  conn'[b].peer \in Uin /\ conn'[b].uin \in {NoUin, conn'[b].peer}
    BY <1>2, <1>5 DEF IInv, PeerInv, u
  <2>2. QED BY <1>1, <2>1 DEF PeerInv
<1>7. Directory'
  <2>1. ASSUME NEW w \in Uin, NEW b \in ToSet(uin_conn_map'[w])
        PROVE  b \in fd_conn_map' /\ conn'[b].uin = w
    <3>1. CASE w = u
      <4>1. b = a
        BY <1>3, <2>1, <3>1, SingleSet
      <4>2. QED BY <1>1, <1>2, <3>1, <4>1
    <3>2. CASE w # u
      <4>1. b \in fd_conn_map /\ conn[b].uin = w
        BY <1>4, <2>1, <3>2 DEF IInv, Directory
      <4>2. b # a
        BY <1>1, <4>1, NoUinAssumption
      <4>3. QED BY <1>1, <1>2, <1>5, <4>1, <4>2
    <3>3. QED BY <3>1, <3>2
  <2>2. ASSUME NEW b \in fd_conn_map', NEW w \in Uin, conn'[b].uin = w
        PROVE  uin_conn_map'[w] = <<b>>
    <3>1. CASE b = a
      BY <1>1, <1>2, <1>3, <2>2, <3>1
    <3>2. CASE b # a
      <4>1. b \in fd_conn_map /\ conn[b].uin = w
        BY <1>1, <1>2, <1>5, <2>2, <3>2
      <4>2. uin_conn_map[w] = <<b>>
        BY <4>1 DEF IInv, Directory
      <4>3. w # u
        <5>1. <<b>> # <<>>
          OBVIOUS
        <5>2. QED BY <1>1, <4>2, <5>1
      <4>4. QED BY <1>4, <4>2, <4>3
    <3>3. QED BY <3>1, <3>2
  <2>3. proc' = "running"
    BY <1>1 DEF IInv, Directory
  <2>4. QED BY <2>1, <2>2, <2>3 DEF Directory
<1>8. OnlyOwnPackets'
  <2>1. "user" \in Server
    BY DEF Server
  <2>2. QED BY <1>1, <1>2, <1>5, <2>1, ForwardKeeps DEF IInv
<1>9. QED BY <1>6, <1>7, <1>8 DEF IInv

\* A handler that leaves the connections as they are and adds nothing to a
\* client's queue.
LEMMA FrameKeeps ==
    ASSUME IInv, TypeOK', UNCHANGED <<proc, fd_conn_map, conn, uin_conn_map>>,
           \A a \in Addr : ToSet(send_packet_list'[a]) \subseteq ToSet(send_packet_list[a])
    PROVE  IInv'
  BY DEF IInv, PeerInv, Directory, OnlyOwnPackets

\* An event of a client's socket.
LEMMA ClientKeeps ==
    ASSUME Overlap = FALSE, IInv, TypeOK', NEW a \in Addr, ClientEvent(a)
    PROVE  IInv'
<1>1. ASSUME NEW u \in Uin, Accept(a, u) PROVE IInv'
  <2>1. /\ a \notin fd_conn_map /\ fd_conn_map' = fd_conn_map \cup {a}
        /\ fd_conn_map \subseteq Addr
        /\ conn'[a].peer = u /\ conn'[a].uin = NoUin
        /\ \A b \in fd_conn_map : conn'[b] = conn[b]
        /\ UNCHANGED <<proc, uin_conn_map, send_packet_list>>
    BY <1>1 DEF Accept, conn_init, IInv, TypeOK
  <2>2. PeerInv'
    BY <2>1 DEF IInv, PeerInv
  <2>3. Directory'
    BY <2>1, NoUinAssumption DEF IInv, Directory
  <2>4. OnlyOwnPackets'
    BY <2>1 DEF IInv, OnlyOwnPackets
  <2>5. QED BY <2>2, <2>3, <2>4 DEF IInv
<1>2. CASE cmd_login(a)
  BY <1>2, LoginKeeps
<1>3. CASE cmd_keep_alive(a)
  BY <1>3, FrameKeeps DEF cmd_keep_alive
<1>4. CASE cmd_logout(a)
  <2>1. close_connections({a}, <<Offline(conn[a].peer)>>) /\ proc' = proc
    BY <1>4 DEF cmd_logout
  <2>2. {a} \in SUBSET fd_conn_map
    BY <1>4 DEF cmd_logout, LoggedIn
  <2>3. QED BY <2>1, <2>2, CloseKeeps
<1>5. ASSUME NEW cmd \in Request, cmd_forward(a, cmd) PROVE IInv'
  <2>1. Dest[cmd] \in Server
    BY RequestAssumption DEF Dest, Server
  <2>2. OnlyOwnPackets'
    BY <1>5, <2>1, ForwardKeeps DEF cmd_forward, IInv
  <2>3. QED BY <1>5, <2>2 DEF cmd_forward, IInv, PeerInv, Directory
<1>6. CASE error_handler(a)
  <2> DEFINE off == IF conn[a].type = "LOGIN_OK" THEN <<Offline(conn[a].uin)>> ELSE <<>>
  <2>1. close_connections({a}, off) /\ proc' = proc
    BY <1>6 DEF error_handler
  <2>2. {a} \in SUBSET fd_conn_map
    BY <1>6 DEF error_handler
  <2> HIDE DEF off
  <2>3. QED BY <2>1, <2>2, CloseKeeps
<1>7. QED BY <1>1, <1>2, <1>3, <1>4, <1>5, <1>6 DEF ClientEvent

\* A packet for a user goes to his own connection.
LEMMA ServerKeeps ==
    ASSUME IInv, TypeOK', NEW u \in Uin, ServerEvent(u)
    PROVE  IInv'
<1> DEFINE a == get_conn_by_uin(u)
<1>1. /\ a \in Addr /\ a \in fd_conn_map
      /\ conn[a].uin = u /\ conn[a].peer = u
  BY ServerEventDelivers, FoundIsOwn DEF IInv
<1>2. PICK type \in Type, p \in Packets : p.uin = u /\ Deliver(a, type, p)
  BY ServerEventDelivers DEF IInv
<1> HIDE DEF a
<1>3. /\ \A b \in Addr : conn'[b].peer = conn[b].peer /\ conn'[b].uin = conn[b].uin
      /\ Queue(a, p)
      /\ UNCHANGED <<proc, fd_conn_map, uin_conn_map>>
      /\ fd_conn_map \subseteq Addr
  BY <1>1, <1>2 DEF Deliver, IInv, TypeOK
<1>4. PeerInv' /\ Directory'
  <2>1. \A b \in fd_conn_map :
            conn'[b].peer = conn[b].peer /\ conn'[b].uin = conn[b].uin
    BY <1>3
  <2>2. PeerInv'
    BY <1>3, <2>1 DEF IInv, PeerInv
  <2>3. proc' = "running"
    BY <1>3 DEF IInv, Directory
  <2>4. \A w \in Uin : \A b \in ToSet(uin_conn_map'[w]) :
            b \in fd_conn_map' /\ conn'[b].uin = w
    BY <1>3, <2>1 DEF IInv, Directory
  <2>5. \A b \in fd_conn_map' : \A w \in Uin :
            conn'[b].uin = w => uin_conn_map'[w] = <<b>>
    <3>1. \A b \in fd_conn_map : \A w \in Uin :
            conn[b].uin = w => uin_conn_map[w] = <<b>>
      BY DEF IInv, Directory
    <3>2. QED BY <1>3, <2>1, <3>1
  <2>6. QED BY <2>2, <2>3, <2>4, <2>5 DEF Directory
<1>5. OnlyOwnPackets'
  <2>1. SUFFICES ASSUME NEW b \in Addr, NEW q \in ToSet(send_packet_list'[b])
                 PROVE  b \in fd_conn_map' /\ q.uin = conn'[b].peer
    BY DEF OnlyOwnPackets
  <2>2. b \in Socket /\ a \in Socket
    BY <1>1 DEF Socket
  <2>3. CASE b = a
    <3>1. send_packet_list'[a] = Append(send_packet_list[a], p)
      BY <1>3, <2>2 DEF Queue, IInv, TypeOK
    <3>2. q \in ToSet(send_packet_list[a]) \/ q = p
      BY <2>1, <2>2, <2>3, <3>1, AppendSet DEF IInv, TypeOK
    <3>3. q.uin = u
      BY <1>1, <1>2, <3>2 DEF IInv, OnlyOwnPackets
    <3>4. QED BY <1>1, <1>3, <2>3, <3>3
  <2>4. CASE b # a
    <3>1. send_packet_list'[b] = send_packet_list[b]
      BY <1>3, <2>2, <2>4 DEF Queue, IInv, TypeOK
    <3>2. b \in fd_conn_map /\ q.uin = conn[b].peer
      BY <2>1, <3>1 DEF IInv, OnlyOwnPackets
    <3>3. QED BY <1>3, <3>2
  <2>5. QED BY <2>3, <2>4
<1>6. QED BY <1>4, <1>5 DEF IInv

LEMMA WriteKeeps ==
    ASSUME IInv, TypeOK', NEW s \in Socket, write_handler(s)
    PROVE  IInv'
<1>1. PICK n \in 0 .. Len(send_packet_list[s]) :
        send_packet_list' =
            [send_packet_list EXCEPT ![s] = SubSeq(@, n + 2, Len(@))]
  BY DEF write_handler
<1>2. Len(send_packet_list[s]) \in Nat
  BY LenProperties DEF IInv, TypeOK
<1>3. n + 1 \in Nat /\ (n + 1) + 1 = n + 2
  BY <1>2
<1>4. ToSet(SubSeq(send_packet_list[s], (n + 1) + 1, Len(send_packet_list[s])))
        \subseteq ToSet(send_packet_list[s])
  BY <1>3, SuffixSet DEF IInv, TypeOK
<1>5. ToSet(SubSeq(send_packet_list[s], n + 2, Len(send_packet_list[s])))
        \subseteq ToSet(send_packet_list[s])
  BY <1>3, <1>4
<1>6. \A a \in Addr :
        ToSet(send_packet_list'[a]) \subseteq ToSet(send_packet_list[a])
  BY <1>1, <1>5 DEF IInv, TypeOK, Socket
<1>7. QED BY <1>6, FrameKeeps DEF write_handler

\* Whoever has sent a keep-alive packet and is still known has an open
\* connection: timer_mark_alive is given no freed block.
LEMMA PassKeeps ==
    ASSUME IInv, TypeOK', NEW D \in SUBSET fd_conn_map, NEW dead \in SetToSeqs(D),
           timer_expire_time(dead)
    PROVE  IInv'
<1>1. ToSet(dead) \in SUBSET fd_conn_map
  BY PassArguments DEF IInv
<1>2. \A u \in keep_alive_list : Known(u) => get_conn_by_uin(u) \in fd_conn_map
  BY FoundIsOwn DEF IInv, TypeOK
<1>3. proc' = proc
  BY <1>2 DEF timer_expire_time
<1>4. PICK off : close_connections(ToSet(dead), off)
  BY DEF timer_expire_time
<1>5. QED BY <1>1, <1>3, <1>4, CloseKeeps

LEMMA InitIInv == Init => IInv
<1> SUFFICES ASSUME Init PROVE IInv
  OBVIOUS
<1>1. PeerInv /\ Directory
  BY EmptySet DEF Init, PeerInv, Directory
<1>2. OnlyOwnPackets
  BY EmptySet DEF Init, OnlyOwnPackets, Socket
<1>3. QED BY <1>1, <1>2, TypeInit DEF IInv

LEMMA NextIInv ==
    ASSUME Overlap = FALSE, IInv, [Next]_vars
    PROVE  IInv'
<1>1. TypeOK'
  BY TypeStep DEF IInv
<1>2. ASSUME NEW a \in Addr, ClientEvent(a) PROVE IInv'
  BY <1>1, <1>2, ClientKeeps
<1>3. ASSUME NEW u \in Uin, ServerEvent(u) PROVE IInv'
  BY <1>1, <1>3, ServerKeeps
<1>4. ASSUME NEW s \in Socket, write_handler(s) PROVE IInv'
  BY <1>1, <1>4, WriteKeeps
<1>5. ASSUME NEW D \in SUBSET fd_conn_map, NEW dead \in SetToSeqs(D),
             timer_expire_time(dead)
      PROVE  IInv'
  BY <1>1, <1>5, PassKeeps
<1>6. CASE UNCHANGED vars
  BY <1>1, <1>6, FrameKeeps DEF vars
<1>7. QED BY <1>2, <1>3, <1>4, <1>5, <1>6 DEF Next

\* While users log in anew only after their last connection was closed, the uin
\* of a user leads to his open connection and to nothing else, and no handler
\* touches a freed block (cmd_login, close_connection, timer_expire_time).
THEOREM DirectoryCorrect ==
    ASSUME Overlap = FALSE
    PROVE  Spec => []Directory
<1>1. IInv /\ [Next]_vars => IInv'
  BY NextIInv
<1>2. IInv => Directory
  BY DEF IInv
<1>3. QED BY <1>1, <1>2, InitIInv, PTL DEF Spec

\* Then what waits for a client is meant for its user, whatever block its
\* connection is in and whoever had that block before (conn_destroy, srv_*).
THEOREM OwnPacketsCorrect ==
    ASSUME Overlap = FALSE
    PROVE  Spec => []OnlyOwnPackets
<1>1. IInv /\ [Next]_vars => IInv'
  BY NextIInv
<1>2. IInv => OnlyOwnPackets
  BY DEF IInv
<1>3. QED BY <1>1, <1>2, InitIInv, PTL DEF Spec

-----------------------------------------------------------------------------
(* The switchboard: while users log in anew only after their last          *)
(* connection was closed, the connection server implements Switchboard,    *)
(* and tells the status server of no user that he is offline while he is   *)
(* logged in.                                                              *)

\* Nothing has come for a connection that has not sent CMD_LOGIN.
LineInv ==
    \A a \in fd_conn_map :
        conn[a].uin = NoUin =>
            conn[a].type = "NOT_LOGIN" /\ ToSet(send_packet_list[a]) = {}

JInv == IInv /\ LineInv

LEMMA NoElement ==
    ASSUME NEW S, NEW q \in Seq(S), ToSet(q) = {}
    PROVE  q = <<>>
<1>1. SUFFICES ASSUME q # <<>> PROVE FALSE
  OBVIOUS
<1>2. Len(q) \in Nat \ {0} /\ DOMAIN q = 1 .. Len(q)
  BY <1>1, EmptySeq, LenProperties
<1>3. 1 \in DOMAIN q
  BY <1>2
<1>4. q[1] \in ToSet(q)
  BY <1>3 DEF ToSet
<1>5. QED BY <1>4

\* A queue that nothing waits in before a write event has nothing after it.
LEMMA WriteShrinks ==
    ASSUME TypeOK, NEW s \in Socket, write_handler(s), NEW t \in Socket
    PROVE  /\ ToSet(send_packet_list'[t]) \subseteq ToSet(send_packet_list[t])
           /\ \E n \in 0 .. Len(send_packet_list[t]) :
                send_packet_list'[t] =
                    SubSeq(send_packet_list[t], n + 1, Len(send_packet_list[t]))
<1> DEFINE q == send_packet_list[t]
<1>1. q \in Seq(Packets) /\ Len(q) \in Nat
  BY LenProperties DEF TypeOK
<1>2. PICK n \in 0 .. Len(send_packet_list[s]) :
        send_packet_list' =
            [send_packet_list EXCEPT ![s] = SubSeq(@, n + 2, Len(@))]
  BY DEF write_handler
<1>3. \E m \in 0 .. Len(q) : send_packet_list'[t] = SubSeq(q, m + 1, Len(q))
  <2>1. CASE t = s
    <3>1. send_packet_list'[t] = SubSeq(q, n + 2, Len(q)) /\ n \in 0 .. Len(q)
      BY <1>2, <2>1 DEF TypeOK
    <3> HIDE DEF q
    <3>2. CASE n < Len(q)
      <4>1. n + 1 \in 0 .. Len(q) /\ (n + 1) + 1 = n + 2
        BY <1>1, <3>1, <3>2
      <4>2. QED BY <3>1, <4>1
    <3>3. CASE n = Len(q)
      <4>1. SubSeq(q, n + 2, Len(q)) = <<>> /\ SubSeq(q, n + 1, Len(q)) = <<>>
        BY <1>1, <3>3, SubSeqEmpty
      <4>2. QED BY <3>1, <4>1
    <3>4. QED BY <1>1, <3>1, <3>2, <3>3
  <2>2. CASE t # s
    <3>1. send_packet_list'[t] = q
      BY <1>2, <2>2 DEF TypeOK
    <3> HIDE DEF q
    <3>2. SubSeq(q, 0 + 1, Len(q)) = q
      BY <1>1, SubSeqFull
    <3>3. 0 \in 0 .. Len(q)
      BY <1>1
    <3>4. QED BY <3>1, <3>2, <3>3
  <2>3. QED BY <2>1, <2>2
<1> HIDE DEF q
<1>4. PICK m \in 0 .. Len(q) : send_packet_list'[t] = SubSeq(q, m + 1, Len(q))
  BY <1>3
<1>5. m \in Nat
  BY <1>1
<1>6. ToSet(send_packet_list'[t]) \subseteq ToSet(q)
  BY <1>1, <1>4, <1>5, SuffixSet
<1>7. QED BY <1>3, <1>6 DEF q

LEMMA LineStep ==
    ASSUME JInv, IInv', [Next]_vars
    PROVE  LineInv'
<1> USE DEF JInv, IInv, TypeOK
<1>0. \A b \in Addr : b \in Socket /\ b \notin Server
  BY AddrAssumption DEF Socket
<1>1. ASSUME NEW a \in Addr, ClientEvent(a) PROVE LineInv'
  <2>1. ASSUME NEW u \in Uin, Accept(a, u) PROVE LineInv'
    <3>1. ToSet(send_packet_list[a]) = {}
      BY <2>1 DEF Accept, OnlyOwnPackets
    <3>2. QED BY <2>1, <3>1 DEF Accept, conn_init, LineInv
  <2>2. CASE cmd_login(a)
    <3>1. /\ conn'[a].uin \in Uin
          /\ \A b \in Addr \ {a} : conn'[b] = conn[b]
          /\ fd_conn_map' = fd_conn_map
      BY <2>2 DEF cmd_login, PeerInv
    <3>2. \A b \in Addr : send_packet_list'[b] = send_packet_list[b]
      BY <1>0, <2>2 DEF cmd_login, Queue, Server
    <3>3. QED BY <3>1, <3>2, NoUinAssumption DEF LineInv
  <2>3. CASE cmd_keep_alive(a)
    BY <2>3 DEF cmd_keep_alive, LineInv
  <2>4. ASSUME NEW cmd \in Request, cmd_forward(a, cmd) PROVE LineInv'
    <3>1. Dest[cmd] \in Server
      BY RequestAssumption DEF Dest, Server
    <3>2. \A b \in Addr : send_packet_list'[b] = send_packet_list[b]
      BY <1>0, <2>4, <3>1 DEF cmd_forward, Queue
    <3>3. QED BY <2>4, <3>2 DEF cmd_forward, LineInv
  <2>5. ASSUME NEW dead, NEW off, close_connections(dead, off) PROVE LineInv'
    <3>1. \A b \in fd_conn_map' :
            /\ b \in fd_conn_map /\ b \in Addr
            /\ conn'[b] = conn[b] /\ send_packet_list'[b] = send_packet_list[b]
      BY <1>0, <2>5 DEF close_connections, QueuesLeft, Server
    <3>2. QED BY <3>1 DEF LineInv
  <2>6. CASE cmd_logout(a) \/ error_handler(a)
    BY <2>5, <2>6 DEF cmd_logout, error_handler
  <2>7. QED BY <1>1, <2>1, <2>2, <2>3, <2>4, <2>6 DEF ClientEvent
<1>2. ASSUME NEW u \in Uin, ServerEvent(u) PROVE LineInv'
  <2> DEFINE a == get_conn_by_uin(u)
  <2>1. a \in Addr /\ conn[a].uin = u
    BY <1>2, ServerEventDelivers, FoundIsOwn
  <2>2. PICK type \in Type, p \in Packets : Deliver(a, type, p)
    BY <1>2, ServerEventDelivers
  <2> HIDE DEF a
  <2>3. /\ conn'[a].uin = u
        /\ \A b \in Addr \ {a} : conn'[b] = conn[b]
                                 /\ send_packet_list'[b] = send_packet_list[b]
        /\ fd_conn_map' = fd_conn_map
    BY <1>0, <2>1, <2>2 DEF Deliver, Queue
  <2>4. QED BY <2>3, NoUinAssumption DEF LineInv
<1>3. ASSUME NEW s \in Socket, write_handler(s) PROVE LineInv'
  <2>1. \A b \in Addr :
          ToSet(send_packet_list'[b]) \subseteq ToSet(send_packet_list[b])
    BY <1>0, <1>3, WriteShrinks
  <2>2. QED BY <1>3, <2>1 DEF write_handler, LineInv
<1>4. ASSUME NEW dead, timer_expire_time(dead) PROVE LineInv'
  <2>1. \A b \in fd_conn_map' :
          /\ b \in fd_conn_map /\ b \in Addr
          /\ conn'[b] = conn[b] /\ send_packet_list'[b] = send_packet_list[b]
    BY <1>0, <1>4 DEF timer_expire_time, close_connections, QueuesLeft, Server
  <2>2. QED BY <2>1 DEF LineInv
<1>5. CASE UNCHANGED vars
  BY <1>5 DEF vars, LineInv
<1>6. QED BY <1>1, <1>2, <1>3, <1>4, <1>5 DEF Next

-----------------------------------------------------------------------------
(* The lines, by the connections they stand for.                           *)

Lines   == [u \in Uin |-> Line(u)]
Inboxes == [u \in Uin |-> Inbox(u)]
Outboxes == [s \in Server |-> send_packet_list[s]]

\* A user whose connection has sent CMD_LOGIN is on the line.
LEMMA LineValue ==
    ASSUME IInv, NEW u \in Uin, NEW a \in fd_conn_map, conn[a].uin = u
    PROVE  /\ Known(u) /\ get_conn_by_uin(u) = a
           /\ Line(u) = LineOf[conn[a].type] /\ Line(u) # "none"
           /\ Inbox(u) = send_packet_list[a]
<1>1. uin_conn_map[u] = <<a>>
  BY DEF IInv, Directory
<1>2. <<a>> # <<>> /\ Head(<<a>>) = a
  OBVIOUS
<1>3. Known(u) /\ get_conn_by_uin(u) = a
  BY <1>1, <1>2 DEF Known, get_conn_by_uin
<1>4. conn[a].type \in Type
  BY DEF IInv, TypeOK
<1>5. LineOf[conn[a].type] # "none"
  BY <1>4 DEF LineOf, Type
<1>6. QED BY <1>3, <1>5 DEF Line, Inbox

LEMMA LineValueNext ==
    ASSUME IInv', NEW u \in Uin, NEW a \in fd_conn_map', conn'[a].uin = u
    PROVE  /\ Known(u)' /\ get_conn_by_uin(u)' = a
           /\ Line(u)' = LineOf[conn'[a].type] /\ Line(u)' # "none"
           /\ Inbox(u)' = send_packet_list'[a]
<1>1. uin_conn_map'[u] = <<a>>
  BY DEF IInv, Directory
<1>2. <<a>> # <<>> /\ Head(<<a>>) = a
  OBVIOUS
<1>3. Known(u)' /\ get_conn_by_uin(u)' = a
  BY <1>1, <1>2 DEF Known, get_conn_by_uin
<1>4. conn'[a].type \in Type
  BY DEF IInv, TypeOK
<1>5. LineOf[conn'[a].type] # "none"
  BY <1>4 DEF LineOf, Type
<1>6. QED BY <1>3, <1>5 DEF Line, Inbox

\* Nobody else is.
LEMMA NoLine ==
    ASSUME IInv, NEW u \in Uin, \A a \in fd_conn_map : conn[a].uin # u
    PROVE  ~Known(u) /\ Line(u) = "none" /\ Inbox(u) = <<>>
<1>1. ~Known(u)
  BY FoundIsOwn
<1>2. QED BY <1>1 DEF Line, Inbox

\* A line is the same after a step that leaves the user's entry and connection
\* as they are.
LEMMA LineStays ==
    ASSUME IInv, NEW u \in Uin, uin_conn_map'[u] = uin_conn_map[u],
           \A a \in fd_conn_map : conn[a].uin = u =>
                /\ conn'[a].type = conn[a].type
                /\ send_packet_list'[a] = send_packet_list[a]
    PROVE  Line(u)' = Line(u) /\ Inbox(u)' = Inbox(u)
<1>1. Known(u)' = Known(u)
  BY DEF Known
<1>2. CASE Known(u)
  <2> DEFINE a == get_conn_by_uin(u)
  <2>1. a \in fd_conn_map /\ conn[a].uin = u
    BY <1>2, FoundIsOwn
  <2>2. get_conn_by_uin(u)' = a
    BY DEF get_conn_by_uin
  <2> HIDE DEF a
  <2>3. /\ Line(u)' = LineOf[conn'[a].type]
        /\ Inbox(u)' = send_packet_list'[a]
    BY <1>1, <1>2, <2>2 DEF Line, Inbox
  <2>4. /\ Line(u) = LineOf[conn[a].type]
        /\ Inbox(u) = send_packet_list[a]
    BY <2>1, LineValue
  <2>5. QED BY <2>1, <2>3, <2>4
<1>3. CASE ~Known(u)
  BY <1>1, <1>3 DEF Line, Inbox
<1>4. QED BY <1>2, <1>3

\* What close_connection does to the lines.
LEMMA CloseLines ==
    ASSUME IInv, NEW dead \in SUBSET fd_conn_map, NEW off,
           close_connections(dead, off), NEW u \in Uin
    PROVE  IF \E a \in dead : conn[a].uin = u
           THEN uin_conn_map'[u] = <<>> /\ Line(u)' = "none" /\ Inbox(u)' = <<>>
           ELSE Line(u)' = Line(u) /\ Inbox(u)' = Inbox(u)
<1>1. uin_conn_map'[u] =
        IF \E a \in dead : conn[a].uin = u THEN <<>> ELSE uin_conn_map[u]
  BY EntriesLeftValue DEF close_connections
<1>2. CASE \E a \in dead : conn[a].uin = u
  <2>1. uin_conn_map'[u] = <<>>
    BY <1>1, <1>2
  <2>2. ~Known(u)'
    BY <2>1 DEF Known
  <2>3. QED BY <1>2, <2>1, <2>2 DEF Line, Inbox
<1>3. CASE ~\E a \in dead : conn[a].uin = u
  <2>1. ASSUME NEW a \in fd_conn_map, conn[a].uin = u
        PROVE  conn'[a].type = conn[a].type
               /\ send_packet_list'[a] = send_packet_list[a]
    <3>1. a \in Addr /\ a \notin dead /\ a \in Socket /\ a # "status"
      BY <1>3, <2>1, AddrAssumption DEF IInv, TypeOK, Socket, Server
    <3>2. QED BY <3>1 DEF close_connections, QueuesLeft
  <2>2. uin_conn_map'[u] = uin_conn_map[u]
    BY <1>1, <1>3
  <2>3. Line(u)' = Line(u) /\ Inbox(u)' = Inbox(u)
    BY <2>1, <2>2, LineStays
  <2>4. QED BY <1>3, <2>3
<1>4. QED BY <1>2, <1>3

LEMMA CloseOutboxes ==
    ASSUME IInv, NEW dead \in SUBSET fd_conn_map, NEW off \in Seq(Packets),
           close_connections(dead, off)
    PROVE  /\ send_packet_list'["status"] = send_packet_list["status"] \o off
           /\ Outboxes' = [Outboxes EXCEPT !["status"] = @ \o off]
           /\ off = <<>> => Outboxes' = Outboxes
<1>1. \A s \in Server : s \in Socket /\ s \notin dead
  BY AddrAssumption DEF IInv, TypeOK, Socket
<1>2. \A s \in Server : send_packet_list'[s] =
            IF s = "status" THEN send_packet_list[s] \o off ELSE send_packet_list[s]
  BY <1>1 DEF close_connections, QueuesLeft
<1>3. "status" \in Server
  BY DEF Server
<1>4. off = <<>> => send_packet_list["status"] \o off = send_packet_list["status"]
  BY <1>1, <1>3, ConcatEmptySeq DEF IInv, TypeOK
<1>5. QED BY <1>2, <1>3, <1>4 DEF Outboxes

\* A packet is queued for a server.
LEMMA ForwardOutboxes ==
    ASSUME TypeOK, NEW s \in Server, NEW p, Queue(s, p)
    PROVE  /\ Outboxes' = [Outboxes EXCEPT ![s] = Append(@, p)]
           /\ \A a \in Addr : send_packet_list'[a] = send_packet_list[a]
<1>1. s \in Socket /\ \A a \in Addr : a \in Socket /\ a # s
  BY AddrAssumption DEF Socket
<1>2. \A t \in Server : t \in Socket
  BY DEF Socket
<1>3. QED BY <1>1, <1>2 DEF Queue, TypeOK, Outboxes

-----------------------------------------------------------------------------
(* Every step is a step of the switchboard, or is not to be seen there.    *)

NothingSeen == UNCHANGED <<Lines, Inboxes, Outboxes>>

LEMMA NothingSeenIsStutter ==
    ASSUME NothingSeen PROVE UNCHANGED Board!vars
  BY DEF NothingSeen, Lines, Inboxes, Outboxes, Board!vars

LEMMA AcceptUnseen ==
    ASSUME JInv, NEW a \in Addr, NEW u \in Uin, Accept(a, u)
    PROVE  NothingSeen
<1>1. /\ UNCHANGED <<uin_conn_map, send_packet_list>>
      /\ \A b \in fd_conn_map : conn'[b] = conn[b]
  BY DEF Accept, JInv, IInv, TypeOK
<1>2. \A w \in Uin : Line(w)' = Line(w) /\ Inbox(w)' = Inbox(w)
  BY <1>1, LineStays DEF JInv
<1>3. QED BY <1>1, <1>2 DEF NothingSeen, Lines, Inboxes, Outboxes

LEMMA LoginSignsIn ==
    ASSUME Overlap = FALSE, JInv, JInv', NEW a \in Addr, cmd_login(a)
    PROVE  \E u \in Uin : Board!SignIn(u)
<1>0. PICK u \in Uin : u = conn[a].peer
  BY DEF cmd_login, Readable, JInv, IInv, PeerInv
<1>1. /\ a \in fd_conn_map
      /\ conn[a].uin = NoUin /\ ~Known(u)
      /\ Queue("user", Packet("CMD_LOGIN", u))
      /\ UNCHANGED fd_conn_map
  BY <1>0 DEF cmd_login, Readable, MayLogin
<1>2. /\ conn'[a].uin = u /\ conn'[a].type = "LOGIN_UNCOMPLETE"
      /\ \A b \in fd_conn_map \ {a} : conn'[b] = conn[b]
      /\ \A w \in Uin \ {u} : uin_conn_map'[w] = uin_conn_map[w]
  BY <1>0, <1>1 DEF cmd_login, JInv, IInv, TypeOK
<1>3. /\ Outboxes' = [Outboxes EXCEPT !["user"] = Append(@, Packet("CMD_LOGIN", u))]
      /\ \A b \in Addr : send_packet_list'[b] = send_packet_list[b]
  BY <1>1, ForwardOutboxes DEF Server, JInv, IInv
<1>4. send_packet_list[a] = <<>>
  <2>1. a \in Socket /\ send_packet_list[a] \in Seq(Packets)
    BY DEF Socket, JInv, IInv, TypeOK
  <2>2. QED BY <1>1, <2>1, NoElement DEF JInv, LineInv
<1>5. Line(u) = "none" /\ Inbox(u) = <<>>
  BY <1>1 DEF Line, Inbox
<1>6. Line(u)' = "incomplete" /\ Inbox(u)' = <<>>
  BY <1>1, <1>2, <1>3, <1>4, LineValueNext DEF JInv, LineOf
<1>7. \A w \in Uin \ {u} : Line(w)' = Line(w) /\ Inbox(w)' = Inbox(w)
  <2>1. SUFFICES ASSUME NEW w \in Uin \ {u}
                 PROVE  Line(w)' = Line(w) /\ Inbox(w)' = Inbox(w)
    OBVIOUS
  <2>2. ASSUME NEW b \in fd_conn_map, conn[b].uin = w
        PROVE  conn'[b].type = conn[b].type
               /\ send_packet_list'[b] = send_packet_list[b]
    <3>1. b # a /\ b \in Addr
      BY <1>1, <2>2, NoUinAssumption DEF JInv, IInv, TypeOK
    <3>2. QED BY <1>2, <1>3, <3>1
  <2>3. QED BY <1>2, <2>2, LineStays DEF JInv
<1>8. Lines' = [Lines EXCEPT ![u] = "incomplete"] /\ Lines[u] = "none"
  BY <1>1, <1>5, <1>6, <1>7 DEF Lines
<1>9. Inboxes' = Inboxes
  BY <1>5, <1>6, <1>7 DEF Inboxes
<1>10. Board!SignIn(u)
  BY <1>3, <1>8, <1>9
     DEF Board!SignIn, Board!Forward, Board!Packet, Packet, Lines, Inboxes, Outboxes
<1>11. QED BY <1>1, <1>10

\* The end of one connection: the line of its user, if it has one, is hung up.
LEMMA CloseHangsUp ==
    ASSUME JInv, JInv', NEW a \in fd_conn_map, NEW off,
           close_connections({a}, off),
           off = IF conn[a].type = "LOGIN_OK" THEN <<Offline(conn[a].uin)>> ELSE <<>>
    PROVE  NothingSeen \/ \E u \in Uin : Board!HangUp(u)
<1>0. /\ {a} \in SUBSET fd_conn_map /\ a \in Addr
      /\ conn[a].uin \in Uin \cup {NoUin} /\ conn[a].type \in Type
  BY DEF JInv, IInv, TypeOK
<1>1. off \in Seq(Packets)
  BY <1>0, PacketType
<1>2. /\ Outboxes' = [Outboxes EXCEPT !["status"] = @ \o off]
      /\ off = <<>> => Outboxes' = Outboxes
  BY <1>0, <1>1, CloseOutboxes DEF JInv
<1>3. \A w \in Uin : IF w = conn[a].uin
                    THEN Line(w)' = "none" /\ Inbox(w)' = <<>>
                    ELSE Line(w)' = Line(w) /\ Inbox(w)' = Inbox(w)
  <2> SUFFICES ASSUME NEW w \in Uin
               PROVE  IF w = conn[a].uin
                      THEN Line(w)' = "none" /\ Inbox(w)' = <<>>
                      ELSE Line(w)' = Line(w) /\ Inbox(w)' = Inbox(w)
    OBVIOUS
  <2>1. IF \E b \in {a} : conn[b].uin = w
        THEN uin_conn_map'[w] = <<>> /\ Line(w)' = "none" /\ Inbox(w)' = <<>>
        ELSE Line(w)' = Line(w) /\ Inbox(w)' = Inbox(w)
    BY <1>0, CloseLines DEF JInv
  <2>2. QED BY <2>1
<1>4. CASE conn[a].uin = NoUin
  <2>1. off = <<>>
    BY <1>4 DEF JInv, LineInv
  <2>2. \A w \in Uin : Line(w)' = Line(w) /\ Inbox(w)' = Inbox(w)
    BY <1>3, <1>4, NoUinAssumption
  <2>3. NothingSeen
    BY <1>2, <2>1, <2>2 DEF NothingSeen, Lines, Inboxes
  <2>4. QED BY <2>3
<1>5. CASE conn[a].uin \in Uin
  <2> DEFINE u == conn[a].uin
  <2>1. Line(u) = LineOf[conn[a].type] /\ Line(u) # "none"
    BY <1>5, LineValue DEF JInv
  <2>2. Line(u) = "ok" <=> conn[a].type = "LOGIN_OK"
    BY <1>0, <2>1 DEF LineOf, Type
  <2> HIDE DEF u
  <2>3. Lines' = [Lines EXCEPT ![u] = "none"] /\ Lines[u] = Line(u)
    BY <1>3, <1>5 DEF Lines, u
  <2>4. Inboxes' = [Inboxes EXCEPT ![u] = <<>>]
    BY <1>3, <1>5 DEF Inboxes, u
  <2>5. IF Lines[u] = "ok"
        THEN Outboxes' = [Outboxes EXCEPT !["status"] = Append(@, Offline(u))]
        ELSE Outboxes' = Outboxes
    <3>1. CASE conn[a].type = "LOGIN_OK"
      <4>1. off = <<Offline(u)>> /\ Offline(u) \in Packets
        BY <1>0, <3>1, PacketType DEF u
      <4>2. Outboxes["status"] \in Seq(Packets)
        BY DEF Outboxes, Server, Socket, JInv, IInv, TypeOK
      <4>3. Append(Outboxes["status"], Offline(u)) = Outboxes["status"] \o off
        BY <4>1, <4>2, AppendIsConcat
      <4>4. QED BY <1>2, <2>2, <2>3, <3>1, <4>3
    <3>2. CASE conn[a].type # "LOGIN_OK"
      BY <1>2, <2>2, <2>3, <3>2
    <3>3. QED BY <3>1, <3>2
  <2>6. Board!HangUp(u)
    BY <2>1, <2>3, <2>4, <2>5
       DEF Board!HangUp, Board!Forward, Board!Offline, Board!Packet, Offline,
           Packet, Lines, Inboxes, Outboxes
  <2>7. QED BY <1>5, <2>6 DEF u
<1>6. QED BY <1>0, <1>4, <1>5

\* Whoever is logged in has sent CMD_LOGIN, in his own name.
LEMMA LoggedInOnLine ==
    ASSUME JInv, NEW a \in Addr, LoggedIn(a)
    PROVE  /\ a \in fd_conn_map /\ conn[a].peer \in Uin
           /\ conn[a].uin = conn[a].peer /\ Line(conn[a].peer) = "ok"
<1>1. /\ a \in fd_conn_map /\ conn[a].type = "LOGIN_OK"
      /\ conn[a].peer \in Uin /\ conn[a].uin \in {NoUin, conn[a].peer}
  BY DEF LoggedIn, JInv, IInv, PeerInv
<1>2. conn[a].uin # NoUin
  BY <1>1 DEF JInv, LineInv
<1>3. Line(conn[a].peer) = LineOf["LOGIN_OK"]
  BY <1>1, <1>2, LineValue DEF JInv
<1>4. QED BY <1>1, <1>2, <1>3 DEF LineOf

LEMMA KeepAliveUnseen ==
    ASSUME JInv, NEW a \in Addr, cmd_keep_alive(a)
    PROVE  NothingSeen
<1>1. UNCHANGED <<uin_conn_map, send_packet_list, conn>>
  BY DEF cmd_keep_alive
<1>2. \A w \in Uin : Line(w)' = Line(w) /\ Inbox(w)' = Inbox(w)
  BY <1>1, LineStays DEF JInv
<1>3. QED BY <1>1, <1>2 DEF NothingSeen, Lines, Inboxes, Outboxes

LEMMA ForwardAsks ==
    ASSUME JInv, NEW a \in Addr, NEW cmd \in Request, cmd_forward(a, cmd)
    PROVE  \E u \in Uin : Board!Ask(u, cmd)
<1>1. LoggedIn(a)
  BY DEF cmd_forward
<1>2. PICK u \in Uin : u = conn[a].peer
  BY <1>1, LoggedInOnLine
<1>3. Line(u) = "ok"
  BY <1>1, <1>2, LoggedInOnLine
<1>4. Queue(Dest[cmd], Packet(cmd, u)) /\ UNCHANGED <<conn, uin_conn_map>>
  BY <1>2 DEF cmd_forward
<1>5. Dest[cmd] \in Server
  BY RequestAssumption DEF Dest, Server
<1>6. /\ Outboxes' = [Outboxes EXCEPT ![Dest[cmd]] = Append(@, Packet(cmd, u))]
      /\ \A b \in Addr : send_packet_list'[b] = send_packet_list[b]
  BY <1>4, <1>5, ForwardOutboxes DEF JInv, IInv
<1>7. \A b \in fd_conn_map : conn'[b] = conn[b]
                             /\ send_packet_list'[b] = send_packet_list[b]
  BY <1>4, <1>6 DEF JInv, IInv, TypeOK
<1>8. \A w \in Uin : Line(w)' = Line(w) /\ Inbox(w)' = Inbox(w)
  BY <1>4, <1>7, LineStays DEF JInv
<1>9. Lines' = Lines /\ Inboxes' = Inboxes /\ Lines[u] = "ok"
  BY <1>3, <1>8 DEF Lines, Inboxes
<1>10. Board!Ask(u, cmd)
  BY <1>6, <1>9
     DEF Board!Ask, Board!Forward, Board!Packet, Packet, Lines, Inboxes, Outboxes
<1>11. QED BY <1>10

LEMMA LogoutHangsUp ==
    ASSUME JInv, JInv', NEW a \in Addr, cmd_logout(a)
    PROVE  NothingSeen \/ \E u \in Uin : Board!HangUp(u)
<1>1. LoggedIn(a) /\ close_connections({a}, <<Offline(conn[a].peer)>>)
  BY DEF cmd_logout
<1>2. a \in fd_conn_map /\ conn[a].uin = conn[a].peer /\ conn[a].type = "LOGIN_OK"
  BY <1>1, LoggedInOnLine DEF LoggedIn
<1>3. QED BY <1>1, <1>2, CloseHangsUp

LEMMA ErrorHangsUp ==
    ASSUME JInv, JInv', NEW a \in Addr, error_handler(a)
    PROVE  NothingSeen \/ \E u \in Uin : Board!HangUp(u)
  BY CloseHangsUp DEF error_handler

\* A packet for a user goes to his line, and to no other.
LEMMA DeliverReaches ==
    ASSUME JInv, JInv', NEW u \in Uin, Known(u), NEW type \in Type, NEW p \in Packets,
           Deliver(get_conn_by_uin(u), type, p)
    PROVE  /\ Lines' = [Lines EXCEPT ![u] = LineOf[type]]
           /\ Inboxes' = [Inboxes EXCEPT ![u] = Append(@, p)]
           /\ Outboxes' = Outboxes
           /\ Lines[u] = Line(u) /\ Line(u) # "none"
<1>1. PICK a \in Addr : a = get_conn_by_uin(u)
  BY FoundIsOwn DEF JInv, IInv, TypeOK
<1>2. a \in fd_conn_map /\ conn[a].uin = u
  BY <1>1, FoundIsOwn DEF JInv
<1>3. a \in Socket /\ a \notin Server /\ Server \subseteq Socket
      /\ \A b \in Addr : b \in Socket
  BY AddrAssumption DEF Socket
<1>4. /\ conn' = [conn EXCEPT ![a].type = type]
      /\ send_packet_list' = [send_packet_list EXCEPT ![a] = Append(@, p)]
      /\ UNCHANGED <<fd_conn_map, uin_conn_map>>
  BY <1>1 DEF Deliver, Queue
<1>5. conn'[a].uin = u /\ conn'[a].type = type
      /\ send_packet_list'[a] = Append(send_packet_list[a], p)
  BY <1>2, <1>3, <1>4 DEF JInv, IInv, TypeOK
<1>6. Line(u) # "none" /\ Inbox(u) = send_packet_list[a]
  BY <1>2, LineValue DEF JInv
<1>7. Line(u)' = LineOf[type] /\ Inbox(u)' = Append(send_packet_list[a], p)
  BY <1>2, <1>4, <1>5, LineValueNext DEF JInv
<1>8. \A w \in Uin \ {u} : Line(w)' = Line(w) /\ Inbox(w)' = Inbox(w)
  <2>1. SUFFICES ASSUME NEW w \in Uin \ {u}
                 PROVE  Line(w)' = Line(w) /\ Inbox(w)' = Inbox(w)
    OBVIOUS
  <2>2. ASSUME NEW b \in fd_conn_map, conn[b].uin = w
        PROVE  conn'[b].type = conn[b].type
               /\ send_packet_list'[b] = send_packet_list[b]
    <3>1. b # a /\ b \in Addr
      BY <1>2, <2>1, <2>2 DEF JInv, IInv, TypeOK
    <3>2. QED BY <1>3, <1>4, <3>1 DEF JInv, IInv, TypeOK
  <2>3. QED BY <1>4, <2>2, LineStays DEF JInv
<1>9. Outboxes' = Outboxes
  BY <1>3, <1>4 DEF Outboxes, JInv, IInv, TypeOK
<1>10. QED BY <1>6, <1>7, <1>8, <1>9 DEF Lines, Inboxes

LEMMA ServerReaches ==
    ASSUME JInv, JInv', NEW u \in Uin, ServerEvent(u)
    PROVE  \/ Board!Verdict(u, "SRV_LOGIN_OK", "ok")
           \/ Board!Verdict(u, "SRV_ERROR", "error")
           \/ Board!Answer(u)
<1>1. \A cmd \in {"SRV_LOGIN_OK", "SRV_ERROR", "SRV_OTHER"} : Packet(cmd, u) \in Packets
  BY PacketType
<1>2. CASE srv_login_ok(u)
  <2>1. /\ Lines' = [Lines EXCEPT ![u] = LineOf["LOGIN_OK"]]
        /\ Inboxes' = [Inboxes EXCEPT ![u] = Append(@, Packet("SRV_LOGIN_OK", u))]
        /\ Outboxes' = Outboxes /\ Lines[u] # "none"
    BY <1>1, <1>2, DeliverReaches DEF srv_login_ok, Type
  <2>2. LineOf["LOGIN_OK"] = "ok"
    BY DEF LineOf
  <2>3. Board!Verdict(u, "SRV_LOGIN_OK", "ok")
    BY <2>1, <2>2
       DEF Board!Verdict, Board!Packet, Packet, Lines, Inboxes, Outboxes
  <2>4. QED BY <2>3
<1>3. CASE srv_error(u)
  <2>1. /\ Lines' = [Lines EXCEPT ![u] = LineOf["LOGIN_ERROR"]]
        /\ Inboxes' = [Inboxes EXCEPT ![u] = Append(@, Packet("SRV_ERROR", u))]
        /\ Outboxes' = Outboxes /\ Lines[u] # "none"
    BY <1>1, <1>3, DeliverReaches DEF srv_error, Type
  <2>2. LineOf["LOGIN_ERROR"] = "error"
    BY DEF LineOf
  <2>3. Board!Verdict(u, "SRV_ERROR", "error")
    BY <2>1, <2>2
       DEF Board!Verdict, Board!Packet, Packet, Lines, Inboxes, Outboxes
  <2>4. QED BY <2>3
<1>4. CASE srv_other_packet(u)
  <2>1. /\ Lines' = [Lines EXCEPT ![u] = LineOf["LOGIN_OK"]]
        /\ Inboxes' = [Inboxes EXCEPT ![u] = Append(@, Packet("SRV_OTHER", u))]
        /\ Outboxes' = Outboxes /\ Lines[u] = Line(u)
    BY <1>1, <1>4, DeliverReaches DEF srv_other_packet, Type
  <2>2. PICK a \in fd_conn_map : conn[a].uin = u /\ conn[a].type = "LOGIN_OK"
    BY <1>4, FoundIsOwn DEF srv_other_packet, LoggedIn, JInv
  <2>3. Line(u) = "ok" /\ LineOf["LOGIN_OK"] = "ok"
    BY <2>2, LineValue DEF JInv, LineOf
  <2>4. Lines' = Lines /\ Lines[u] = "ok"
    BY <2>1, <2>3 DEF Lines
  <2>5. Board!Answer(u)
    BY <2>1, <2>4 DEF Board!Answer, Board!Packet, Packet, Lines, Inboxes, Outboxes
  <2>6. QED BY <2>5
<1>5. QED BY <1>2, <1>3, <1>4 DEF ServerEvent

\* What was appended to a queue is found after what was there before.
LEMMA TailOfConcat ==
    ASSUME NEW S, NEW q \in Seq(S), NEW r \in Seq(S)
    PROVE  SubSeq(q \o r, Len(q) + 1, Len(q \o r)) = r
<1> DEFINE t == q \o r
           k == Len(q)
           n == Len(r)
<1>1. /\ k \in Nat /\ n \in Nat /\ Len(t) = k + n
      /\ \A i \in 1 .. k + n : t[i] = IF i <= k THEN q[i] ELSE r[i - k]
      /\ \A i \in 1 .. n : r[i] \in S
  BY ConcatProperties, LenProperties, ElementOfSeq
<1> HIDE DEF t, k, n
<1>2. \A i \in 1 .. n : t[k + i] = r[i]
  BY <1>1
<1>3. \A i \in k + 1 .. k + n : t[i] \in S
  <2>1. SUFFICES ASSUME NEW i \in k + 1 .. k + n PROVE t[i] \in S
    OBVIOUS
  <2>2. i - k \in 1 .. n /\ k + (i - k) = i
    BY <1>1
  <2>3. QED BY <1>1, <1>2, <2>2
<1>4. PICK lo \in Int, hi \in Int : lo = k + 1 /\ hi = k + n
  BY <1>1
<1> HIDE DEF SubSeq
<1>5. /\ SubSeq(t, lo, hi) \in Seq(S)
      /\ Len(SubSeq(t, lo, hi)) = (IF lo <= hi THEN hi - lo + 1 ELSE 0)
      /\ \A i \in 1 .. hi - lo + 1 : SubSeq(t, lo, hi)[i] = t[lo + i - 1]
  BY <1>3, <1>4, SubSeqProperties
<1> DEFINE w == SubSeq(t, lo, hi)
<1>6. w \in Seq(S) /\ \A i \in 1 .. hi - lo + 1 : w[i] = t[lo + i - 1]
  BY <1>5
<1>7. Len(w) = IF lo <= hi THEN hi - lo + 1 ELSE 0
  BY <1>5
<1> HIDE DEF w
<1>8. Len(w) = n
  BY <1>1, <1>4, <1>7
<1>9. \A i \in 1 .. n : w[i] = r[i]
  <2>1. SUFFICES ASSUME NEW i \in 1 .. n PROVE w[i] = r[i]
    OBVIOUS
  <2>2. i \in 1 .. hi - lo + 1 /\ lo + i - 1 = k + i
    BY <1>1, <1>4
  <2>3. QED BY <1>2, <1>6, <2>2
<1>10. w = r
  BY <1>6, <1>8, <1>9, SeqEqual DEF n
<1>11. QED BY <1>1, <1>4, <1>10 DEF w, t, k

LEMMA WriteSends ==
    ASSUME JInv, NEW s \in Socket, write_handler(s)
    PROVE  Board!Send
<1>0. Addr \subseteq Socket /\ Server \subseteq Socket
  BY DEF Socket
<1>1. UNCHANGED <<conn, uin_conn_map>>
  BY DEF write_handler
<1>2. \A t \in Socket : Board!Suffix(send_packet_list'[t], send_packet_list[t])
  BY WriteShrinks DEF Board!Suffix, JInv, IInv
<1>3. \A u \in Uin : Line(u)' = Line(u) /\ Board!Suffix(Inbox(u)', Inbox(u))
  <2>1. SUFFICES ASSUME NEW u \in Uin
                 PROVE  Line(u)' = Line(u) /\ Board!Suffix(Inbox(u)', Inbox(u))
    OBVIOUS
  <2>2. Known(u)' = Known(u) /\ Line(u)' = Line(u)
    BY <1>1 DEF Known, Line, get_conn_by_uin
  <2>3. CASE Known(u)
    <3>1. PICK a \in Addr : a = get_conn_by_uin(u)
      BY <2>3, FoundIsOwn DEF JInv
    <3>2. Inbox(u) = send_packet_list[a] /\ Inbox(u)' = send_packet_list'[a]
      BY <1>1, <2>2, <2>3, <3>1 DEF Inbox, get_conn_by_uin
    <3>3. QED BY <1>0, <1>2, <2>2, <3>2
  <2>4. CASE ~Known(u)
    <3>1. Inbox(u) = <<>> /\ Inbox(u)' = <<>>
      BY <2>2, <2>4 DEF Inbox
    <3>2. Len(<<>>) = 0 /\ SubSeq(<<>>, 0 + 1, 0) = <<>> /\ 0 \in 0 .. 0
      BY SubSeqEmpty
    <3>3. Board!Suffix(<<>>, <<>>)
      BY <3>2 DEF Board!Suffix
    <3>4. QED BY <2>2, <3>1, <3>3
  <2>5. QED BY <2>3, <2>4
<1>4. Lines' = Lines /\ \A u \in Uin : Board!Suffix(Inboxes'[u], Inboxes[u])
  BY <1>3 DEF Lines, Inboxes
<1>5. \A t \in Server : Board!Suffix(Outboxes'[t], Outboxes[t])
  BY <1>0, <1>2 DEF Outboxes
<1>6. /\ Inboxes' = [u \in Uin |-> Inboxes'[u]]
      /\ Outboxes' = [t \in Server |-> Outboxes'[t]]
  BY DEF Inboxes, Outboxes
<1>7. QED BY <1>4, <1>5, <1>6 DEF Board!Send, Lines, Inboxes, Outboxes

\* A pass reports the uins of the connections it closes, and each user once.
LEMMA PassReports ==
    ASSUME JInv, NEW D \in SUBSET fd_conn_map, NEW dead \in SetToSeqs(D),
           NEW off, off = [i \in DOMAIN dead |-> Offline(conn[dead[i]].uin)]
    PROVE  /\ \A i \in DOMAIN off :
                /\ off[i] \in {Offline(u) : u \in Uin \cup {NoUin}}
                /\ \A j \in DOMAIN off :
                        i # j /\ off[i] = off[j] => off[i] = Offline(NoUin)
           /\ \A u \in Uin : (\E i \in DOMAIN off : off[i] = Offline(u))
                                <=> \E a \in ToSet(dead) : conn[a].uin = u
<1>1. \A i \in DOMAIN dead :
        /\ dead[i] \in fd_conn_map
        /\ conn[dead[i]].uin \in Uin \cup {NoUin}
        /\ \A j \in DOMAIN dead : i # j => dead[i] # dead[j]
  BY DEF SetToSeqs, JInv, IInv, TypeOK
<1>2. DOMAIN off = DOMAIN dead
      /\ \A i \in DOMAIN dead : off[i] = Offline(conn[dead[i]].uin)
  OBVIOUS
<1>3. \A u, w : Offline(u) = Offline(w) => u = w
  <2>1. \A u : Offline(u).uin = u
    BY DEF Offline, Packet
  <2>2. QED BY <2>1
<1>4. ASSUME NEW i \in DOMAIN dead, NEW j \in DOMAIN dead, i # j, off[i] = off[j]
      PROVE  off[i] = Offline(NoUin)
  <2>1. conn[dead[i]].uin = conn[dead[j]].uin
    BY <1>2, <1>3, <1>4
  <2>2. ASSUME conn[dead[i]].uin \in Uin PROVE FALSE
    <3>1. /\ uin_conn_map[conn[dead[i]].uin] = <<dead[i]>>
          /\ uin_conn_map[conn[dead[i]].uin] = <<dead[j]>>
      BY <1>1, <2>1, <2>2 DEF JInv, IInv, Directory
    <3>2. dead[i] = dead[j]
      BY <3>1
    <3>3. QED BY <1>1, <1>4, <3>2
  <2>3. QED BY <1>1, <1>2, <2>2
<1>5. \A u \in Uin : (\E i \in DOMAIN off : off[i] = Offline(u))
                        <=> \E a \in ToSet(dead) : conn[a].uin = u
  <2>1. SUFFICES ASSUME NEW u \in Uin
                 PROVE  (\E i \in DOMAIN dead : conn[dead[i]].uin = u)
                            <=> \E a \in ToSet(dead) : conn[a].uin = u
    BY <1>2, <1>3
  <2>2. QED BY DEF ToSet
<1>6. QED BY <1>1, <1>2, <1>4, <1>5

LEMMA PassCuts ==
    ASSUME JInv, JInv', NEW D \in SUBSET fd_conn_map, NEW dead \in SetToSeqs(D),
           timer_expire_time(dead)
    PROVE  Board!Cut
<1>1. PICK off : off = [i \in DOMAIN dead |-> Offline(conn[dead[i]].uin)]
  OBVIOUS
<1>2. /\ off \in Seq(Packets) /\ ToSet(dead) \in SUBSET fd_conn_map
      /\ close_connections(ToSet(dead), off)
  BY <1>1, PassArguments DEF timer_expire_time, JInv, IInv
<1> DEFINE old == Outboxes["status"]
           new == SubSeq(Outboxes'["status"], Len(old) + 1, Len(Outboxes'["status"]))
           cut == {u \in Uin : \E i \in DOMAIN new : new[i] = Offline(u)}
<1>3. Outboxes' = [Outboxes EXCEPT !["status"] = old \o off]
  BY <1>2, CloseOutboxes DEF JInv
<1>4. new = off
  <2>1. old \in Seq(Packets) /\ Outboxes'["status"] = old \o off
    BY <1>3 DEF Outboxes, Server, Socket, JInv, IInv, TypeOK
  <2>2. QED BY <1>2, <2>1, TailOfConcat
<1> HIDE DEF new
<1>5. \A i \in DOMAIN new :
        /\ new[i] \in {Offline(u) : u \in Uin \cup {NoUin}}
        /\ \A j \in DOMAIN new : i # j /\ new[i] = new[j] => new[i] = Offline(NoUin)
  BY <1>1, <1>4, PassReports
<1>6. \A u \in Uin : u \in cut <=> \E a \in ToSet(dead) : conn[a].uin = u
  BY <1>1, <1>4, PassReports
<1> HIDE DEF cut
<1>7. \A u \in Uin : IF u \in cut THEN Line(u)' = "none" /\ Inbox(u)' = <<>>
                     ELSE Line(u)' = Line(u) /\ Inbox(u)' = Inbox(u)
  BY <1>2, <1>6, CloseLines DEF JInv
<1>8. \A u \in cut : Line(u) # "none"
  BY <1>2, <1>6, LineValue DEF JInv, cut
<1>9. /\ \A u \in cut : Lines[u] # "none"
      /\ Lines' = [u \in Uin |-> IF u \in cut THEN "none" ELSE Lines[u]]
      /\ Inboxes' = [u \in Uin |-> IF u \in cut THEN <<>> ELSE Inboxes[u]]
  <2>1. cut \subseteq Uin
    BY DEF cut
  <2>2. QED BY <1>7, <1>8, <2>1 DEF Lines, Inboxes
<1>10. Outboxes' = [Outboxes EXCEPT !["status"] = old \o new]
  BY <1>3, <1>4
<1>11. QED
  BY <1>5, <1>9, <1>10
     DEF Board!Cut, Board!Offline, Board!Packet, Offline, Packet, cut, new,
         Lines, Inboxes, Outboxes

-----------------------------------------------------------------------------
(* Theorems.                                                               *)

LEMMA InitJInv == Init => JInv
<1> SUFFICES ASSUME Init PROVE JInv
  OBVIOUS
<1>1. LineInv
  BY DEF Init, LineInv
<1>2. QED BY <1>1, InitIInv DEF JInv

LEMMA NextJInv ==
    ASSUME Overlap = FALSE, JInv, [Next]_vars
    PROVE  JInv'
  BY NextIInv, LineStep DEF JInv

LEMMA InitBoard == Init => Board!Init
<1> SUFFICES ASSUME Init PROVE Board!Init
  OBVIOUS
<1>1. \A u \in Uin : Line(u) = "none" /\ Inbox(u) = <<>>
  BY DEF Init, Line, Inbox, Known
<1>2. \A s \in Server : send_packet_list[s] = <<>>
  BY DEF Init, Socket
<1>3. QED BY <1>1, <1>2 DEF Board!Init

LEMMA StepBoard ==
    ASSUME Overlap = FALSE, JInv, JInv', [Next]_vars
    PROVE  [Board!Next]_(Board!vars)
<1>1. ASSUME NothingSeen PROVE UNCHANGED Board!vars
  BY <1>1, NothingSeenIsStutter
<1>2. ASSUME NEW u \in Uin,
             \/ Board!SignIn(u) \/ Board!HangUp(u) \/ Board!Answer(u)
             \/ \E cmd \in Request : Board!Ask(u, cmd)
             \/ Board!Verdict(u, "SRV_LOGIN_OK", "ok")
             \/ Board!Verdict(u, "SRV_ERROR", "error")
      PROVE  Board!Next
  BY <1>2 DEF Board!Next
<1>3. ASSUME NEW a \in Addr, ClientEvent(a) PROVE [Board!Next]_(Board!vars)
  <2>1. ASSUME NEW u \in Uin, Accept(a, u) PROVE NothingSeen
    BY <2>1, AcceptUnseen
  <2>2. CASE cmd_login(a)
    BY <1>2, <2>2, LoginSignsIn
  <2>3. CASE cmd_keep_alive(a)
    BY <1>1, <2>3, KeepAliveUnseen
  <2>4. CASE cmd_logout(a)
    BY <1>1, <1>2, <2>4, LogoutHangsUp
  <2>5. ASSUME NEW cmd \in Request, cmd_forward(a, cmd) PROVE Board!Next
    BY <1>2, <2>5, ForwardAsks
  <2>6. CASE error_handler(a)
    BY <1>1, <1>2, <2>6, ErrorHangsUp
  <2>7. QED BY <1>1, <1>3, <2>1, <2>2, <2>3, <2>4, <2>5, <2>6 DEF ClientEvent
<1>4. ASSUME NEW u \in Uin, ServerEvent(u) PROVE Board!Next
  BY <1>2, <1>4, ServerReaches
<1>5. ASSUME NEW s \in Socket, write_handler(s) PROVE Board!Next
  BY <1>5, WriteSends DEF Board!Next
<1>6. ASSUME NEW D \in SUBSET fd_conn_map, NEW dead \in SetToSeqs(D),
             timer_expire_time(dead)
      PROVE  Board!Next
  BY <1>6, PassCuts DEF Board!Next
<1>7. CASE UNCHANGED vars
  <2>1. \A u \in Uin : Line(u)' = Line(u) /\ Inbox(u)' = Inbox(u)
    BY <1>7 DEF vars, Line, Inbox, Known, get_conn_by_uin
  <2>2. NothingSeen
    BY <1>7, <2>1 DEF vars, NothingSeen, Lines, Inboxes, Outboxes
  <2>3. QED BY <1>1, <2>2
<1>8. QED BY <1>3, <1>4, <1>5, <1>6, <1>7 DEF Next

\* While users log in anew only after their last connection was closed, the
\* connection server is a switchboard: whatever blocks the connections are in
\* and in whatever order packets, write events, broken connections and passes
\* of the timer come, a line for each user is all that can be seen.
THEOREM SwitchboardCorrect ==
    ASSUME Overlap = FALSE
    PROVE  Spec => SwitchboardSpec
<1>1. JInv /\ [Next]_vars => JInv'
  BY NextJInv
<1>2. JInv /\ JInv' /\ [Next]_vars => [Board!Next]_(Board!vars)
  BY StepBoard
<1>3. QED
  BY <1>1, <1>2, InitJInv, InitBoard, PTL DEF Spec, SwitchboardSpec, Board!Spec

\* A handler that does not queue anything for the status server reports nobody.
LEMMA NothingReported ==
    ASSUME TypeOK, TypeOK',
           Len(send_packet_list'["status"]) <= Len(send_packet_list["status"])
    PROVE  ToSet(NewReports) = {}
<1> DEFINE q == send_packet_list["status"]
           r == send_packet_list'["status"]
<1>1. q \in Seq(Packets) /\ r \in Seq(Packets)
  BY DEF TypeOK, Socket, Server
<1>2. Len(q) \in Nat /\ Len(r) \in Nat /\ Len(r) <= Len(q)
  BY <1>1, LenProperties
<1> HIDE DEF q, r
<1>3. SubSeq(r, Len(q) + 1, Len(r)) = <<>>
  BY <1>1, <1>2, SubSeqEmpty
<1>4. QED BY <1>3, EmptySet DEF NewReports, q, r

LEMMA CloseReports ==
    ASSUME JInv, JInv', NEW dead \in SUBSET fd_conn_map, NEW off \in Seq(Packets),
           close_connections(dead, off), NEW u \in Uin,
           Offline(u) \in ToSet(NewReports),
           Offline(u) \in ToSet(off) => \E a \in dead : conn[a].uin = u
    PROVE  \A a \in fd_conn_map' : conn'[a].uin # u
<1>1. send_packet_list["status"] \in Seq(Packets)
  BY DEF JInv, IInv, TypeOK, Socket, Server
<1>2. send_packet_list'["status"] = send_packet_list["status"] \o off
  BY CloseOutboxes DEF JInv
<1>3. NewReports = off
  BY <1>1, <1>2, TailOfConcat DEF NewReports
<1>4. uin_conn_map'[u] = <<>>
  BY <1>3, CloseLines DEF JInv
<1>5. SUFFICES ASSUME NEW a \in fd_conn_map', conn'[a].uin = u PROVE FALSE
  OBVIOUS
<1>6. uin_conn_map'[u] = <<a>>
  BY <1>5 DEF JInv, IInv, Directory
<1>7. QED BY <1>4, <1>6

\* A user who is newly reported offline is not logged in.
ReportTrue(u) ==
    Offline(u) \in ToSet(NewReports) =>
        \A a \in fd_conn_map' : conn'[a].uin = u => conn'[a].type # "LOGIN_OK"

LEMMA UnreportedTrue ==
    ASSUME JInv, JInv', NEW u,
           Len(send_packet_list'["status"]) <= Len(send_packet_list["status"])
    PROVE  ReportTrue(u)
<1>1. ToSet(NewReports) = {}
  BY NothingReported DEF JInv, IInv
<1>2. QED BY <1>1 DEF ReportTrue

LEMMA StatusKept ==
    ASSUME JInv, JInv', NEW u,
           send_packet_list'["status"] = send_packet_list["status"]
    PROVE  ReportTrue(u)
<1>1. send_packet_list["status"] \in Seq(Packets)
  BY DEF JInv, IInv, TypeOK, Socket, Server
<1>2. Len(send_packet_list["status"]) \in Nat
  BY <1>1, LenProperties
<1>3. Len(send_packet_list'["status"]) <= Len(send_packet_list["status"])
  BY <1>2
<1>4. QED BY <1>3, UnreportedTrue

\* A packet is queued at another socket than that of the status server.
LEMMA QueueElsewhere ==
    ASSUME TypeOK, NEW s \in Socket, s # "status", NEW p, Queue(s, p)
    PROVE  send_packet_list'["status"] = send_packet_list["status"]
  BY DEF TypeOK, Queue, Socket, Server

LEMMA ClientReports ==
    ASSUME JInv, JInv', NEW a \in Addr, ClientEvent(a), NEW u \in Uin
    PROVE  ReportTrue(u)
<1>0. "user" \in Socket /\ \A s \in Server : s \in Socket
  BY DEF Socket, Server
<1>1. CASE (\E w \in Uin : Accept(a, w)) \/ cmd_keep_alive(a)
  BY <1>1, StatusKept DEF Accept, cmd_keep_alive
<1>2. CASE cmd_login(a)
  <2>1. send_packet_list'["status"] = send_packet_list["status"]
    BY <1>0, <1>2, QueueElsewhere DEF cmd_login, JInv, IInv
  <2>2. QED BY <2>1, StatusKept
<1>3. ASSUME NEW cmd \in Request, cmd_forward(a, cmd) PROVE ReportTrue(u)
  <2>1. Dest[cmd] \in Server /\ Dest[cmd] # "status"
    BY RequestAssumption DEF Dest, Server
  <2>2. send_packet_list'["status"] = send_packet_list["status"]
    BY <1>0, <1>3, <2>1, QueueElsewhere DEF cmd_forward, JInv, IInv
  <2>3. QED BY <2>2, StatusKept
<1>4. ASSUME a \in fd_conn_map, NEW off, close_connections({a}, off),
             off \in {<<>>, <<Offline(conn[a].uin)>>}
      PROVE  ReportTrue(u)
  <2>1. conn[a].uin \in Uin \cup {NoUin} /\ {a} \in SUBSET fd_conn_map
    BY <1>4 DEF JInv, IInv, TypeOK
  <2>2. off \in Seq(Packets)
    <3>1. Offline(conn[a].uin) \in Packets
      BY <2>1, PacketType
    <3>2. <<>> \in Seq(Packets) /\ <<Offline(conn[a].uin)>> \in Seq(Packets)
      BY <3>1
    <3>3. QED BY <1>4, <3>2
  <2>3. Offline(u) \in ToSet(off) => conn[a].uin = u
    BY <1>4, EmptySet, SingleSet DEF Offline, Packet
  <2>4. QED BY <1>4, <2>1, <2>2, <2>3, CloseReports DEF ReportTrue
<1>5. CASE cmd_logout(a)
  <2>1. LoggedIn(a) /\ close_connections({a}, <<Offline(conn[a].peer)>>)
    BY <1>5 DEF cmd_logout
  <2>2. a \in fd_conn_map /\ conn[a].uin = conn[a].peer
    BY <2>1, LoggedInOnLine
  <2>3. QED BY <1>4, <2>1, <2>2
<1>6. CASE error_handler(a)
  BY <1>4, <1>6 DEF error_handler
<1>7. QED BY <1>1, <1>2, <1>3, <1>5, <1>6 DEF ClientEvent

LEMMA StepReports ==
    ASSUME JInv, JInv', [Next]_vars, NEW u \in Uin
    PROVE  ReportTrue(u)
<1>1. ASSUME NEW w \in Uin, ServerEvent(w) PROVE ReportTrue(u)
  <2>1. PICK type \in Type, p \in Packets : Deliver(get_conn_by_uin(w), type, p)
    BY <1>1, ServerEventDelivers DEF JInv, IInv
  <2>2. PICK a \in Addr : a = get_conn_by_uin(w)
    <3>1. Known(w)
      BY <1>1 DEF ServerEvent, srv_error, srv_login_ok, srv_other_packet
    <3>2. QED BY <3>1, FoundIsOwn DEF JInv
  <2>3. Queue(a, p) /\ a \in Socket /\ a # "status"
    BY <2>1, <2>2, AddrAssumption DEF Deliver, Socket, Server
  <2>4. send_packet_list'["status"] = send_packet_list["status"]
    BY <2>3, QueueElsewhere DEF JInv, IInv
  <2>5. QED BY <2>4, StatusKept
<1>2. ASSUME NEW s \in Socket, write_handler(s) PROVE ReportTrue(u)
  <2> DEFINE q == send_packet_list["status"]
             r == send_packet_list'["status"]
  <2>1. q \in Seq(Packets) /\ "status" \in Socket
    BY DEF JInv, IInv, TypeOK, Socket, Server
  <2>2. PICK n \in 0 .. Len(q) : r = SubSeq(q, n + 1, Len(q))
    BY <1>2, <2>1, WriteShrinks DEF JInv, IInv
  <2> HIDE DEF q, r
  <2>3. Len(r) <= Len(q)
    BY <2>1, <2>2
  <2>4. QED BY <2>3, UnreportedTrue DEF q, r
<1>3. ASSUME NEW D \in SUBSET fd_conn_map, NEW dead \in SetToSeqs(D),
             timer_expire_time(dead)
      PROVE  ReportTrue(u)
  <2>1. PICK off : off = [i \in DOMAIN dead |-> Offline(conn[dead[i]].uin)]
    OBVIOUS
  <2>2. /\ off \in Seq(Packets) /\ ToSet(dead) \in SUBSET fd_conn_map
        /\ close_connections(ToSet(dead), off)
    BY <1>3, <2>1, PassArguments DEF timer_expire_time, JInv, IInv
  <2>3. Offline(u) \in ToSet(off) => \E i \in DOMAIN off : off[i] = Offline(u)
    BY DEF ToSet
  <2>4. Offline(u) \in ToSet(off) => \E a \in ToSet(dead) : conn[a].uin = u
    BY <2>1, <2>3, PassReports
  <2>5. QED BY <2>2, <2>4, CloseReports DEF ReportTrue
<1>4. CASE UNCHANGED vars
  BY <1>4, StatusKept DEF vars
<1>5. QED BY <1>1, <1>2, <1>3, <1>4, ClientReports DEF Next

\* Then no user is reported offline while a connection of his is logged in
\* (send_offline_to_status before close_connection).
THEOREM OfflineCorrect ==
    ASSUME Overlap = FALSE
    PROVE  Spec => OfflineIsTrue
<1>1. JInv /\ [Next]_vars => JInv'
  BY NextJInv
<1>2. JInv /\ JInv' /\ [Next]_vars =>
        \A u \in Uin :
            Offline(u) \in ToSet(NewReports) =>
                \A a \in fd_conn_map' : conn'[a].uin = u => conn'[a].type # "LOGIN_OK"
  BY StepReports DEF ReportTrue
<1>3. QED
  BY <1>1, <1>2, InitJInv, PTL DEF Spec, OfflineIsTrue
=============================================================================
