----------------------------- MODULE ConnServer -----------------------------
(***************************************************************************)
(* The connection server (conn/conn_packet.c, conn/conn_network.c,         *)
(* include/conn_server.h): the connections of the clients, the map from    *)
(* user numbers to connections, and the packets that wait to be sent to    *)
(* the clients and to the user, contact, message and status servers.       *)
(*                                                                         *)
(* One thread, one event at a time: an action is one packet of a read      *)
(* event, or one whole write event, error event or pass of the timer.      *)
(* Which connections a pass finds dead is the matter of ConnTimer: here    *)
(* it may be any.  The other servers may send anything at any time.        *)
(* A packet that is only thrown away (of a client that has not logged in,  *)
(* of a command nobody knows, for a user nobody knows) changes nothing and *)
(* has no action.                                                          *)
(***************************************************************************)
EXTENDS Naturals, FiniteSets, SequencesExt

CONSTANTS
    Uin,        \* the user numbers
    NoUin,      \* 0, the uin of a connection before CMD_LOGIN
    Addr,       \* the blocks of conn_allocator
    Request,    \* commands that are passed on: the domain of Dest, or a part
    Overlap,    \* may a user log in while the server still has an earlier
                \* connection of his that he has lost?
    MayBlock,   \* may a socket buffer be full when a packet is written?
    MaxQueue    \* bound: most packets waiting at each socket

ASSUME NoUinAssumption == NoUin \notin Uin
ASSUME FlagAssumption == Overlap \in BOOLEAN /\ MayBlock \in BOOLEAN
Server == {"user", "contact", "message", "status"}
Socket == Addr \cup Server
ASSUME AddrAssumption == Addr \cap Server = {} /\ IsFiniteSet(Addr)
ASSUME QueueAssumption == MaxQueue \in [Socket -> Nat]

\* Where cmd_packet_handler passes a command on to.
Dest ==
    [CMD_SET_NICK           |-> "user",
     CMD_ADD_CONTACT        |-> "contact",
     CMD_ADD_CONTACT_REPLY  |-> "contact",
     CMD_CONTACT_LIST       |-> "contact",
     CMD_CONTACT_INFO_MULTI |-> "contact",
     CMD_MESSAGE            |-> "message",
     CMD_OFFLINE_MSG        |-> "message"]
ASSUME RequestAssumption == Request \subseteq DOMAIN Dest

VARIABLES
    proc,               \* "running", or "corrupt": see timer_expire_time
    fd_conn_map,        \* the open client connections
    conn,               \* for each block: who is at the other end of the
                        \* socket, and the uin and type of struct connection
    uin_conn_map,       \* for each uin its entries, newest first
    keep_alive_list,    \* the uins of the queued keep-alive packets
    send_packet_list,   \* for each socket: the packets waiting to be written
    waiting             \* the sockets epoll watches for EPOLLOUT, and not for
                        \* EPOLLIN

vars == <<proc, fd_conn_map, conn, uin_conn_map, keep_alive_list,
          send_packet_list, waiting>>

Type == {"NOT_LOGIN", "LOGIN_OK", "LOGIN_UNCOMPLETE", "LOGIN_ERROR"}

\* Mutant: the type is left as memset has set it.
conn_init_NoType(u) == [peer |-> u, uin |-> NoUin, type |-> "UNSET"]

\* conn_init on a socket that user u has connected.
conn_init(u) == [peer |-> u, uin |-> NoUin, type |-> "NOT_LOGIN"]
Unused == conn_init(NoUin)

Packet(cmd, u) == [cmd |-> cmd, uin |-> u]
Packets ==
    [cmd : Request \cup {"CMD_LOGIN", "OFFLINE", "SRV_ERROR", "SRV_LOGIN_OK",
                         "SRV_OTHER"},
     uin : Uin \cup {NoUin}]

TypeOK ==
    /\ proc \in {"running", "corrupt"}
    /\ fd_conn_map \in SUBSET Addr
    /\ conn \in [Addr -> [peer : Uin \cup {NoUin}, uin : Uin \cup {NoUin},
                          type : Type]]
    /\ uin_conn_map \in [Uin -> Seq(Addr)]
    /\ keep_alive_list \in SUBSET Uin
    /\ send_packet_list \in [Socket -> Seq(Packets)]
    /\ waiting \in SUBSET Socket

\* conn_server_init.
Init ==
    /\ proc = "running"
    /\ fd_conn_map = {}
    /\ conn = [a \in Addr |-> Unused]
    /\ uin_conn_map = [u \in Uin |-> <<>>]
    /\ keep_alive_list = {}
    /\ send_packet_list = [s \in Socket |-> <<>>]
    /\ waiting = {}

-----------------------------------------------------------------------------
(* Helpers: how the handlers change the connections and the queues.        *)

\* get_conn_by_uin finds the newest entry: HASH_ADD puts it first.
Known(u) == uin_conn_map[u] # <<>>
get_conn_by_uin(u) == Head(uin_conn_map[u])

\* Mutant: wait_for_write is not called.
Queue_NotWatched(s, p) ==
    /\ send_packet_list' = [send_packet_list EXCEPT ![s] = Append(@, p)]
    /\ UNCHANGED waiting

\* list_add_tail on the send queue of a socket, and wait_for_write.
Queue(s, p) ==
    /\ send_packet_list' = [send_packet_list EXCEPT ![s] = Append(@, p)]
    /\ waiting' = waiting \cup {s}

Offline(u) == Packet("OFFLINE", u)

\* Mutant: the entry of the uin is not removed.
EntriesLeft_All(dead) == uin_conn_map

\* The entry of a uin that close_connection removes is the one HASH_FIND finds,
\* once for each connection of that uin.
EntriesLeft(dead) ==
    [u \in Uin |->
        SubSeq(uin_conn_map[u], 1 + Cardinality({a \in dead : conn[a].uin = u}),
               Len(uin_conn_map[u]))]

\* Mutant: conn_destroy is not called.
QueuesLeft_All(dead, off) ==
    [send_packet_list EXCEPT !["status"] = @ \o off]

\* conn_destroy drops what was to be sent to the closed connections; the
\* packets off are for the status server.
QueuesLeft(dead, off) ==
    [s \in Socket |->
        IF s \in dead THEN <<>>
        ELSE IF s = "status" THEN send_packet_list[s] \o off
        ELSE send_packet_list[s]]

\* close_connection for the connections of the set dead, after the packets off
\* were queued; their blocks are free to be used again.
close_connections(dead, off) ==
    /\ fd_conn_map' = fd_conn_map \ dead
    /\ conn' = [a \in Addr |-> IF a \in dead THEN Unused ELSE conn[a]]
    /\ uin_conn_map' = EntriesLeft(dead)
    /\ send_packet_list' = QueuesLeft(dead, off)
    /\ waiting' = (waiting \ dead) \cup (IF off = <<>> THEN {} ELSE {"status"})

-----------------------------------------------------------------------------
(* Events of client sockets.                                               *)

\* accept_handler, for one connection.  Which unused block the allocator gives
\* out is left open.
Accept(a, u) ==
    /\ a \notin fd_conn_map
    /\ fd_conn_map' = fd_conn_map \cup {a}
    /\ conn' = [conn EXCEPT ![a] = conn_init(u)]
    /\ UNCHANGED <<proc, uin_conn_map, keep_alive_list, send_packet_list, waiting>>

\* A client sends CMD_LOGIN once, first of all (client.c:557); the uin of a
\* packet is that of the user who sends it (client_user.c:219-230).
MayLogin(a) ==
    /\ conn[a].uin = NoUin
    /\ Overlap \/ ~Known(conn[a].peer)

\* A packet comes in a read event, and wait_for_write turns those off.
Readable(a) == a \in fd_conn_map \ waiting

cmd_login(a) ==
    /\ Readable(a)
    /\ MayLogin(a)
    /\ LET u == conn[a].peer
       IN  /\ conn' = [conn EXCEPT ![a].type = "LOGIN_UNCOMPLETE", ![a].uin = u]
           /\ uin_conn_map' = [uin_conn_map EXCEPT ![u] = <<a>> \o @]
           /\ Queue("user", Packet("CMD_LOGIN", u))
    /\ UNCHANGED <<proc, fd_conn_map, keep_alive_list>>

\* Every other command is for those who have logged in.
LoggedIn(a) == a \in fd_conn_map /\ conn[a].type = "LOGIN_OK"

cmd_keep_alive(a) ==
    /\ Readable(a) /\ LoggedIn(a)
    /\ keep_alive_list' = keep_alive_list \cup {conn[a].peer}
    /\ UNCHANGED <<proc, fd_conn_map, conn, uin_conn_map, send_packet_list, waiting>>

\* Mutant: the connection is not closed.
cmd_logout_StaysOpen(a) ==
    /\ Readable(a) /\ LoggedIn(a)
    /\ Queue("status", Offline(conn[a].peer))
    /\ UNCHANGED <<proc, fd_conn_map, conn, uin_conn_map, keep_alive_list>>

cmd_logout(a) ==
    /\ Readable(a) /\ LoggedIn(a)
    /\ close_connections({a}, <<Offline(conn[a].peer)>>)
    /\ UNCHANGED <<proc, keep_alive_list>>

\* cmd_user, cmd_contact and cmd_message.
cmd_forward(a, cmd) ==
    /\ Readable(a) /\ LoggedIn(a)
    /\ Queue(Dest[cmd], Packet(cmd, conn[a].peer))
    /\ UNCHANGED <<proc, fd_conn_map, conn, uin_conn_map, keep_alive_list>>

\* The client has closed the connection, it broke, or what came is no packet:
\* read_handler or write_handler calls error_handler, or epoll_loop does.
error_handler(a) ==
    /\ a \in fd_conn_map
    /\ close_connections({a},
            IF conn[a].type = "LOGIN_OK" THEN <<Offline(conn[a].uin)>> ELSE <<>>)
    /\ UNCHANGED <<proc, keep_alive_list>>

-----------------------------------------------------------------------------
(* Packets of the other servers.  A packet that is queued at a connection  *)
(* that is closed is lost with the block: conn_init empties the list.      *)

Deliver(a, type, p) ==
    /\ a \in fd_conn_map
    /\ conn' = [conn EXCEPT ![a].type = type]
    /\ Queue(a, p)
    /\ UNCHANGED <<proc, fd_conn_map, uin_conn_map, keep_alive_list>>

srv_error(u) ==
    Known(u) /\ Deliver(get_conn_by_uin(u), "LOGIN_ERROR", Packet("SRV_ERROR", u))

srv_login_ok(u) ==
    Known(u) /\ Deliver(get_conn_by_uin(u), "LOGIN_OK", Packet("SRV_LOGIN_OK", u))

\* Mutant: it is not tested whether the user is logged in.
srv_other_packet_Unchecked(u) ==
    /\ Known(u)
    /\ Deliver(get_conn_by_uin(u), conn[get_conn_by_uin(u)].type,
               Packet("SRV_OTHER", u))

srv_other_packet(u) ==
    /\ Known(u)
    /\ LoggedIn(get_conn_by_uin(u))
    /\ Deliver(get_conn_by_uin(u), "LOGIN_OK", Packet("SRV_OTHER", u))

-----------------------------------------------------------------------------
\* write_handler: everything is written, or the buffer is full after n packets:
\* the next one is then lost, and the rest stays on the list.  In either case
\* the socket is watched for reading from now on.
write_handler(s) ==
    /\ s \in waiting
    /\ \E n \in 0 .. Len(send_packet_list[s]) :
        /\ n < Len(send_packet_list[s]) => MayBlock
        /\ send_packet_list' =
            [send_packet_list EXCEPT ![s] = SubSeq(@, n + 2, Len(@))]
    /\ waiting' = waiting \ {s}
    /\ UNCHANGED <<proc, fd_conn_map, conn, uin_conn_map, keep_alive_list>>

\* timer_expire_time: the connections of those who sent a keep-alive packet are
\* put on the wheel anew; then the dead ones are closed, in the order dead.
\* timer_mark_alive on a closed connection unlinks its block from the free list
\* of the allocator and puts it on the wheel: the model stops there.
timer_expire_time(dead) ==
    /\ proc' = IF \E u \in keep_alive_list :
                    Known(u) /\ get_conn_by_uin(u) \notin fd_conn_map
               THEN "corrupt" ELSE proc
    /\ keep_alive_list' = {}
    /\ close_connections(ToSet(dead),
            [i \in DOMAIN dead |-> Offline(conn[dead[i]].uin)])

-----------------------------------------------------------------------------
Bounded == \A s \in Socket : Len(send_packet_list'[s]) <= MaxQueue[s]

ClientEvent(a) ==
    \/ \E u \in Uin : Accept(a, u)
    \/ cmd_login(a) \/ cmd_keep_alive(a) \/ cmd_logout(a)
    \/ \E cmd \in Request : cmd_forward(a, cmd)
    \/ error_handler(a)

\* Which of the servers the packet comes from is left open.
ServerEvent(u) ==
    /\ ~(Server \subseteq waiting)
    /\ srv_error(u) \/ srv_login_ok(u) \/ srv_other_packet(u)

Next ==
    /\ proc = "running"
    /\ \/ \E a \in Addr : ClientEvent(a)
       \/ \E u \in Uin : ServerEvent(u)
       \/ \E s \in Socket : write_handler(s)
       \/ \E D \in SUBSET fd_conn_map : \E dead \in SetToSeqs(D) :
            timer_expire_time(dead)
    /\ Bounded

Spec == Init /\ [][Next]_vars

-----------------------------------------------------------------------------
(* Properties.                                                             *)

\* The user of a connection is found by his number, and nothing else is: each
\* entry of uin_conn_map leads to an open connection with that uin, each
\* connection that has sent CMD_LOGIN has exactly one entry, and no handler
\* touches a block that was freed (cmd_login, close_connection,
\* timer_expire_time).
Directory ==
    /\ proc = "running"
    /\ \A u \in Uin : \A a \in ToSet(uin_conn_map[u]) :
        a \in fd_conn_map /\ conn[a].uin = u
    /\ \A a \in fd_conn_map : \A u \in Uin :
        conn[a].uin = u => uin_conn_map[u] = <<a>>

\* What waits to be sent to a client is meant for its user: nothing is left
\* over from an earlier connection in the same block, and no reply that comes
\* after its asker has gone reaches somebody else (conn_destroy, srv_*).
OnlyOwnPackets ==
    \A a \in Addr : \A p \in ToSet(send_packet_list[a]) :
        a \in fd_conn_map /\ p.uin = conn[a].peer

\* The status server hears that a user is offline only when no connection of
\* his is logged in any more (send_offline_to_status before close_connection).
NewReports ==
    SubSeq(send_packet_list'["status"], Len(send_packet_list["status"]) + 1,
           Len(send_packet_list'["status"]))
OfflineIsTrue ==
    [][\A u \in Uin :
        Offline(u) \in ToSet(NewReports) =>
            \A a \in fd_conn_map' : conn'[a].uin = u => conn'[a].type # "LOGIN_OK"]_vars

\* Packets wait at a socket that nobody watches only when a write event has
\* found the buffer full and left them there: every other handler that leaves
\* packets on a list has the socket watched, and one that adds to the packets
\* left there has it watched again (wait_for_write, conn_destroy).
QueuesAreWatched ==
    [][\A s \in Socket :
        send_packet_list'[s] # <<>> /\ s \notin waiting' =>
            \/ Len(send_packet_list'[s]) < Len(send_packet_list[s])
            \/ send_packet_list'[s] = send_packet_list[s] /\ s \notin waiting]_vars

\* get_conn_by_uin promises to "only return the _SAFE_ conn"
\* (conn_server.h:57).
FoundIsSafe ==
    \A u \in Uin : Known(u) => get_conn_by_uin(u) \in fd_conn_map

\* If a user logs in anew only after his last connection was closed, the server
\* is a switchboard.
LineOf ==
    [NOT_LOGIN |-> "incomplete", LOGIN_UNCOMPLETE |-> "incomplete",
     LOGIN_OK |-> "ok", LOGIN_ERROR |-> "error"]
Line(u)  == IF Known(u) THEN LineOf[conn[get_conn_by_uin(u)].type] ELSE "none"
Inbox(u) == IF Known(u) THEN send_packet_list[get_conn_by_uin(u)] ELSE <<>>

Board ==
    INSTANCE Switchboard WITH
        Nobody <- NoUin,
        line   <- [u \in Uin |-> Line(u)],
        inbox  <- [u \in Uin |-> Inbox(u)],
        outbox <- [s \in Server |-> send_packet_list[s]]

SwitchboardSpec == Board!Spec
=============================================================================
