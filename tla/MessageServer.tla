---------------------------- MODULE MessageServer ----------------------------
(***************************************************************************)
(* The message server (server/message.c, server/message_db.c): a list of   *)
(* messages for each user that wait until the status server has told where *)
(* the user is, the table offline_msg of messages for users who are not    *)
(* there, and the connection servers that have introduced themselves.      *)
(*                                                                         *)
(* One thread: an action is the handling of one packet.  The status server *)
(* answers the requests in the order in which they were made (its socket   *)
(* is one TCP stream each way), with what is true when it answers.         *)
(* A message for a user number that is too big changes nothing.  Of a text *)
(* the model has the length, in units of its own: three of the server's    *)
(* buffers have room for so much of it.                                    *)
(***************************************************************************)
EXTENDS Naturals, FiniteSets, SequencesExt

CONSTANTS
    Uin,            \* the users
    Con,            \* the connection servers, by their address
    NoCon,          \* where a user is who is not online
    FriendType,     \* the types of CMD_MSG_FRIEND
    NULL,
    Length,         \* the lengths of chat texts
    QueryRoom,      \* the longest text that query_str has room for
    ColumnRoom,     \* the longest in the column of offline_msg
    PacketRoom,     \* what the texts in a SRV_OFFLINE_MSG may have together
    Chances,        \* sets of what may happen in a behaviour (see `may`)
    MaxMsg,         \* bound: most messages
    MaxAgain        \* bound: most messages sent to a user before a delete fails

ASSUME UinAssumption == IsFiniteSet(Uin)
ASSUME ConAssumption == NoCon \notin Con
ASSUME TypeAssumption == "chat" \notin FriendType

ASSUME LengthAssumption == Length \subseteq Nat

\* Friend messages are sent; a statement fails in the database; a connection
\* server goes away; texts are sent for which query_str has no room.
Chance == {"friend", "failure", "leave", "long"}
ASSUME ChanceAssumption == Chances \subseteq SUBSET Chance
ASSUME MsgAssumption == MaxMsg \in Nat /\ MaxAgain \in Nat

Message ==
    [id : 1 .. MaxMsg, from : Uin, to : Uin, type : {"chat"} \cup FriendType,
     len : Nat]

Long(m) == m.len > QueryRoom

\* A row of offline_msg: its type, and what its text was put together from.
Row == [type : {"chat"} \cup FriendType, text : Seq(Message)]
ASSUME NULLAssumption == NULL \notin Row

VARIABLES
    map,            \* map: the waiting messages of each user, newest first
    offline_msg,    \* the table: for each receiver and sender a row, or NULL
    conns_head,     \* the connection servers that con_to_fd finds
    requests,       \* CMD_GET_STATUS on the way to the status server
    replies,        \* REP_STATUS on the way back
    place,          \* what the status server knows: where each user is
    accepted,       \* how many messages have been accepted
    sent,           \* for each user: the messages sent to him, in order
    running,        \* the process has not died
    may             \* what may happen: chosen at the start

vars == <<map, offline_msg, conns_head, requests, replies, place, accepted, sent,
          running, may>>

TypeOK ==
    /\ map \in [Uin -> Seq(Message)]
    /\ offline_msg \in [Uin -> [Uin -> Row \cup {NULL}]]
    /\ conns_head \in SUBSET Con
    /\ requests \in Seq(Uin)
    /\ replies \in Seq([uin : Uin, con : Con \cup {NoCon}])
    /\ place \in [Uin -> Con \cup {NoCon}]
    /\ accepted \in 0 .. MaxMsg
    /\ sent \in [Uin -> Seq(Message)]
    /\ running \in BOOLEAN
    /\ may \in Chances

Init ==
    /\ map = [u \in Uin |-> <<>>]
    /\ offline_msg = [u \in Uin |-> [w \in Uin |-> NULL]]
    /\ conns_head = {}
    /\ requests = <<>>
    /\ replies = <<>>
    /\ place = [u \in Uin |-> NoCon]
    /\ accepted = 0
    /\ sent = [u \in Uin |-> <<>>]
    /\ running = TRUE
    /\ may \in Chances

-----------------------------------------------------------------------------
(* The database.                                                           *)

TextLength(row) ==
    IF row = NULL THEN 0 ELSE FoldFunction(LAMBDA m, n : m.len + n, 0, row.text)

\* message_store, or message_update when there is a row with the same key: the
\* text goes to the end of that row, if the column has room, the type is lost.
Stored(rows, m) ==
    LET row == rows[m.from]
    IN  IF row = NULL
        THEN [rows EXCEPT ![m.from] = [type |-> m.type, text |-> <<m>>]]
        ELSE IF TextLength(row) + m.len > ColumnRoom THEN rows
        ELSE [rows EXCEPT ![m.from] = [type |-> row.type, text |-> Append(row.text, m)]]

\* The rows of a user after store_offline_msg, that takes no notice of what
\* message_update returns, but for the messages whose statements have failed.
StoredAll(rows, msgs, failed) ==
    LET r[i \in 0 .. Len(msgs)] ==
            IF i = 0 THEN rows
            ELSE IF i \in failed THEN r[i - 1] ELSE Stored(r[i - 1], msgs[i])
    IN  r[Len(msgs)]

\* The chat messages in a text: a SelectSeq, in a form that can be proved about.
Chats(text) ==
    LET c[i \in 0 .. Len(text)] ==
            IF i = 0 THEN <<>>
            ELSE IF text[i].type = "chat" THEN Append(c[i - 1], text[i]) ELSE c[i - 1]
    IN  c[Len(text)]

\* What a row tells its receiver (message_get): a friend message has no text,
\* and what has been put to a chat text has no type.
Told(row) ==
    IF row = NULL THEN <<>>
    ELSE IF row.type = "chat" THEN Chats(row.text)
    ELSE <<Head(row.text)>>

\* What the rows tell that come in this order at the places that are told.
Telling(rows, order, told) ==
    [i \in DOMAIN order |-> IF i \in told THEN Told(rows[order[i]]) ELSE <<>>]

\* The place in the packet that the rows before the i-th have taken: a row that
\* did not fit was the end of a packet, a text that is not told takes none.
Filled(rows, order, unfit, i) ==
    FoldFunctionOnSet(+, 0,
        [j \in DOMAIN order |->
            IF rows[order[j]] # NULL /\ rows[order[j]].type # "chat" THEN 0
            ELSE TextLength(rows[order[j]])],
        {j \in 1 .. i - 1 : \A k \in unfit : k < i => k < j})

\* The rows that message_get fetches and finds no place for: they are skipped.
Packed(rows, order, unfit) ==
    \A i \in DOMAIN order :
        i \in unfit <=>
            /\ rows[order[i]] # NULL
            /\ Filled(rows, order, unfit, i) + TextLength(rows[order[i]]) > PacketRoom

\* The process dies, and nobody starts it again (main.c): what is in memory is
\* gone.
Dies ==
    /\ running' = FALSE
    /\ map' = [u \in Uin |-> <<>>]
    /\ UNCHANGED <<conns_head, requests, replies, place, accepted, may>>

-----------------------------------------------------------------------------
(* The packets.                                                            *)

\* Mutant: the status server is not asked.
cmd_message_NoAsk(from, to, type, len) ==
    /\ running
    /\ accepted < MaxMsg
    /\ accepted' = accepted + 1
    /\ LET m == [id |-> accepted + 1, from |-> from, to |-> to, type |-> type,
                len |-> len]
       IN  map' = [map EXCEPT ![to] = <<m>> \o @]
    /\ UNCHANGED <<offline_msg, conns_head, requests, replies, place, sent, running, may>>

\* CMD_MESSAGE of a client or CMD_MSG_FRIEND of the contact server, new_msg and
\* request_status.
cmd_message(from, to, type, len) ==
    /\ running
    /\ accepted < MaxMsg
    /\ accepted' = accepted + 1
    /\ LET m == [id |-> accepted + 1, from |-> from, to |-> to, type |-> type,
                len |-> len]
       IN  map' = [map EXCEPT ![to] = <<m>> \o @]
    /\ requests' = Append(requests, to)
    /\ UNCHANGED <<offline_msg, conns_head, replies, place, sent, running, may>>

\* Mutant: the list is not emptied.
send_msg_Keep ==
    /\ running
    /\ replies # <<>>
    /\ LET u == Head(replies).uin
       IN  /\ Head(replies).con \in conns_head
           /\ sent' = [sent EXCEPT ![u] = @ \o map[u]]
    /\ replies' = Tail(replies)
    /\ UNCHANGED <<map, offline_msg, conns_head, requests, place, accepted, running, may>>

\* REP_STATUS for a user who is online: send_msg.  What waits for a user of a
\* connection server that con_to_fd does not find goes on waiting.
send_msg ==
    /\ running
    /\ replies # <<>>
    /\ LET u == Head(replies).uin
           c == Head(replies).con
       IN  /\ c # NoCon
           /\ IF c \in conns_head
              THEN /\ sent' = [sent EXCEPT ![u] = @ \o map[u]]
                   /\ map' = [map EXCEPT ![u] = <<>>]
              ELSE UNCHANGED <<map, sent>>
    /\ replies' = Tail(replies)
    /\ UNCHANGED <<offline_msg, conns_head, requests, place, accepted, running, may>>

\* Mutant: the list is not emptied.
store_offline_msg_Keep ==
    /\ running
    /\ replies # <<>>
    /\ LET u == Head(replies).uin
       IN  /\ Head(replies).con = NoCon
           /\ offline_msg' = [offline_msg EXCEPT ![u] = StoredAll(@, map[u], {})]
    /\ replies' = Tail(replies)
    /\ UNCHANGED <<map, conns_head, requests, place, accepted, sent, running, may>>

\* REP_STATUS for a user who is not.  What becomes of a statement that is longer
\* than query_str is left open, if the process survives it.
store_offline_msg ==
    /\ running
    /\ replies # <<>>
    /\ LET u == Head(replies).uin
       IN  /\ Head(replies).con = NoCon
           /\ \E failed \in SUBSET DOMAIN map[u] :
               /\ \A i \in failed : "failure" \in may \/ Long(map[u][i])
               /\ offline_msg' =
                    [offline_msg EXCEPT ![u] = StoredAll(@, map[u], failed)]
           /\ map' = [map EXCEPT ![u] = <<>>]
    /\ replies' = Tail(replies)
    /\ UNCHANGED <<conns_head, requests, place, accepted, sent, running, may>>

\* It has overwritten the stack, and the process dies of the i-th message.
overrun_query ==
    /\ running
    /\ replies # <<>>
    /\ LET u == Head(replies).uin
       IN  /\ Head(replies).con = NoCon
           /\ \E i \in DOMAIN map[u], failed \in SUBSET DOMAIN map[u] :
               /\ Long(map[u][i])
               /\ \A j \in DOMAIN map[u] :
                    /\ j > i => j \in failed
                    /\ j < i /\ j \in failed => "failure" \in may \/ Long(map[u][j])
               /\ offline_msg' =
                    [offline_msg EXCEPT ![u] = StoredAll(@, map[u], failed)]
    /\ Dies
    /\ UNCHANGED sent

\* CMD_OFFLINE_MSG of a user who is logged in: the rows are sent in the order
\* in which the database gives them, and deleted, unless that fails.
cmd_offline_msg(u) ==
    /\ running
    /\ place[u] \in conns_head
    /\ \E order \in SetToSeqs(Uin) :
        /\ Packed(offline_msg[u], order, {})
        /\ sent' = [sent EXCEPT ![u] =
                @ \o FlattenSeq(Telling(offline_msg[u], order, DOMAIN order))]
    /\ \/ offline_msg' = [offline_msg EXCEPT ![u] = [w \in Uin |-> NULL]]
       \/ /\ "failure" \in may /\ Len(sent'[u]) <= MaxAgain
          /\ UNCHANGED offline_msg
    /\ UNCHANGED <<map, conns_head, requests, replies, place, accepted, running, may>>

\* A row does not fit.  It is skipped but still counted (rows): after the packets
\* before the last such row have been sent, message_get goes past the end of the
\* result and reads through NULL.  Nothing has been deleted.
overrun_rows(u) ==
    /\ running
    /\ place[u] \in conns_head
    /\ \E order \in SetToSeqs(Uin) : \E unfit \in SUBSET DOMAIN order :
        /\ Packed(offline_msg[u], order, unfit)
        /\ \E last \in unfit :
            /\ \A i \in unfit : i <= last
            /\ sent' = [sent EXCEPT ![u] =
                    @ \o FlattenSeq(Telling(offline_msg[u], order,
                                            (1 .. last) \ unfit))]
    /\ Dies
    /\ UNCHANGED offline_msg

\* CMD_CONN_INFO: a connection server introduces itself (add_con).
cmd_conn_info(c) ==
    /\ running
    /\ c \notin conns_head
    /\ conns_head' = conns_head \cup {c}
    /\ UNCHANGED <<map, offline_msg, requests, replies, place, accepted, sent, running, may>>

\* The socket of a connection server is at its end (del_con).
del_con(c) ==
    /\ running
    /\ "leave" \in may
    /\ c \in conns_head
    /\ conns_head' = conns_head \ {c}
    /\ UNCHANGED <<map, offline_msg, requests, replies, place, accepted, sent, running, may>>

-----------------------------------------------------------------------------
(* The status server and the users.                                        *)

\* Mutant: the answer has the status, not the address.
GetStatus_Flag ==
    /\ requests # <<>>
    /\ replies' = Append(replies, [uin |-> Head(requests),
                                   con |-> place[Head(requests)] # NoCon])
    /\ requests' = Tail(requests)
    /\ UNCHANGED <<map, offline_msg, conns_head, place, accepted, sent, running, may>>

\* get_status of the status server.
GetStatus ==
    /\ requests # <<>>
    /\ replies' = Append(replies, [uin |-> Head(requests),
                                   con |-> place[Head(requests)]])
    /\ requests' = Tail(requests)
    /\ UNCHANGED <<map, offline_msg, conns_head, place, accepted, sent, running, may>>

\* A user logs in, by a connection server that has introduced itself: it does
\* so before it serves anybody (conn_server.c:108).
LogIn(u, c) ==
    /\ place[u] = NoCon
    /\ c \in conns_head
    /\ place' = [place EXCEPT ![u] = c]
    /\ UNCHANGED <<map, offline_msg, conns_head, requests, replies, accepted, sent, running, may>>

LogOut(u) ==
    /\ place[u] # NoCon
    /\ place' = [place EXCEPT ![u] = NoCon]
    /\ UNCHANGED <<map, offline_msg, conns_head, requests, replies, accepted, sent, running, may>>

Next ==
    \/ \E from, to \in Uin, len \in Length :
        (len > QueryRoom => "long" \in may) /\ cmd_message(from, to, "chat", len)
    \/ \E from, to \in Uin, type \in FriendType :
        "friend" \in may /\ cmd_message(from, to, type, 0)
    \/ send_msg
    \/ store_offline_msg \/ overrun_query
    \/ \E u \in Uin : cmd_offline_msg(u) \/ overrun_rows(u)
    \/ \E c \in Con : cmd_conn_info(c) \/ del_con(c)
    \/ GetStatus
    \/ \E u \in Uin : LogOut(u) \/ \E c \in Con : LogIn(u, c)

Spec == Init /\ [][Next]_vars

\* Both servers wait for packets and handle each that comes.
Fairness == WF_vars(GetStatus) /\ WF_vars(send_msg \/ store_offline_msg \/ overrun_query)
FairSpec == Spec /\ Fairness

-----------------------------------------------------------------------------
(* Properties.                                                             *)

Waiting(u) == ToSet(map[u])
Kept(u) == UNION {ToSet(offline_msg[u][w].text) : w \in {v \in Uin : offline_msg[u][v] # NULL}}

\* As long as connection servers stay, whoever has messages waiting has been
\* asked about, and the answer will come: no list is left with no packet on the
\* way that leads to it.
WaitingIsAsked ==
    "leave" \notin may => \A u \in Uin :
        map[u] # <<>> =>
            \/ u \in ToSet(requests)
            \/ \E r \in ToSet(replies) : r.uin = u

\* As long as connection servers stay, a message does not wait for ever: it is
\* sent or given to the database, unless the server dies.
WaitingEnds ==
    \A u \in Uin : (map[u] # <<>> /\ "leave" \notin may) ~> map[u] = <<>>

\* With no friend messages and no failing database, each user has a mailbox, as
\* long as the server lives.  Chats are lost only for their length: where one is
\* too long for query_str, or another of its sender has taken the room in his
\* column (message_store, message_update); and with the server, which dies of
\* such a text or of more messages than a packet holds (message_get).
Boxes ==
    INSTANCE Mailboxes WITH
        box  <- [u \in Uin |-> Waiting(u) \cup Kept(u)],
        sent <- sent,
        running <- running
Sound == may \subseteq {"leave", "long"}
MailboxSpec ==
    /\ Sound => Boxes!Init
    /\ [][Sound => Boxes!Next]_(Boxes!vars)

\* The comment "delete offline messages that have been sent" (message.c:294):
\* what leaves the table has been sent to its receiver.
DeletedWasSent ==
    [][\A u \in Uin :
        Kept(u) \subseteq Kept(u)' \cup ToSet(sent'[u])]_vars
=============================================================================
