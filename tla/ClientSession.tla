---------------------------- MODULE ClientSession ----------------------------
(***************************************************************************)
(* The client above its packet reader (client/client_user.c,               *)
(* client/client.c): requests that wait for their replies, messages that   *)
(* come in between, and what the user is shown of them.                    *)
(*                                                                         *)
(* One thread: while it waits for a reply it does nothing else, and it     *)
(* waits for one recv, or 30 seconds.  The network delivers packets at any *)
(* time; how the reader finds them is the subject of ClientReader, and here*)
(* a recv returns some of the packets that have come.                      *)
(***************************************************************************)
EXTENDS Integers, SequencesExt

CONSTANTS
    Sender,         \* the users that messages come from
    Script,         \* what each of them sends: the types of his messages
    Nobody,         \* the chat_uin before there is one
    MaxRequests,    \* bound: requests that the client sends, and the errors below
    MaxDetails,     \* bound: CMD_CONTACT_INFO_MULTI for one contact list
    MaxErrors       \* bound: SRV_ERRORs that answer somebody else

ASSUME NobodyAssumption == Nobody \notin Sender
ASSUME BoundAssumption ==
    {MaxRequests, MaxDetails, MaxErrors} \subseteq Nat /\ 3 + MaxDetails <= MaxRequests

VARIABLES
    phase,      \* main: in ui_login, in select_loop before or after the input, ended
    todo,       \* the requests that the user's command has still to send
    waiting,    \* the request in wait_for_reply, or none
    recv_list,  \* packets that the reader has found
    wait_list,  \* packets that wait_for_reply has taken for replies
    msg_list,   \* messages that wait_for_reply has put aside
    msg_map,    \* messages by sender, in the order of their first
    msg_count,  \* the static variable of ui_show_msg_list_notice
    mode,       \* what the next input is taken for
    chat_uin,   \* whom the user talks to, or whose request he is asked about
    net,        \* packets that have come and are not read
    requests,   \* requests that the servers have not answered
    stored,     \* offline messages, at the message server
    sent,       \* how many messages each user has sent
    line,       \* the type of the connection, at the connection server
    asked,      \* how many requests the client has sent
    shown,      \* history: the messages that the user has seen, by sender
    announced,  \* history: the senders in the last list that he has seen
    emptied,    \* history: since then all messages of one were read
    gaveUp,     \* history: a request was given up
    wrong,      \* history: a request got the reply to another
    lost,       \* history: messages were dropped, or freed unread
    accused     \* history: how many SRV_ERRORs answered somebody else

lists == <<recv_list, wait_list, msg_list, msg_map>>
screen == <<msg_count, mode, chat_uin, shown, announced, emptied>>
servers == <<net, requests, stored, sent, line>>
history == <<gaveUp, wrong, lost, accused>>
vars == <<phase, todo, waiting, lists, screen, servers, asked, history>>

Command == {"CMD_LOGIN", "CMD_SET_NICK", "CMD_ADD_CONTACT", "CMD_CONTACT_LIST",
            "CMD_CONTACT_INFO_MULTI", "CMD_OFFLINE_MSG"}
Type == {"REQUEST", "ACCEPT", "CHAT"}
Message == [from : Sender, n : Nat, type : Type]
ASSUME ScriptAssumption == Script \in [Sender -> Seq(Type)]
Asked == [cmd : Command, id : 1 .. MaxRequests]
None == [cmd |-> "none", id |-> 0]

\* A CMD_ADD_CONTACT that somebody else has sent.
Foreign == [cmd |-> "CMD_ADD_CONTACT", id |-> 0]

\* A reply or SRV_ERROR, to which request; SRV_OFFLINE_MSG, and SRV_OFFLINE_MSG_DONE
\* as the reply to CMD_OFFLINE_MSG, have messages, as has SRV_MESSAGE.
Packet == [kind : {"reply", "error", "offline", "message"},
           to : Asked \cup {None, Foreign}, msgs : Seq(Message)]

\* The messages of one sender.
Filed == [uin : Sender, msgs : Seq(Message) \ {<<>>}]

TypeOK ==
    /\ phase \in {"login", "input", "poll", "ended"}
    /\ todo \in Seq(Command)
    /\ waiting \in Asked \cup {None}
    /\ {recv_list, wait_list, net} \subseteq Seq(Packet)
    /\ msg_list \in Seq(Packet)
    /\ msg_map \in Seq(Filed)
    /\ msg_count \in Nat
    /\ mode \in {"COMMAND", "CHAT", "AUTH"}
    /\ chat_uin \in Sender \cup {Nobody}
    /\ requests \in Seq(Asked)
    /\ stored \in Seq(Message)
    /\ sent \in [Sender -> Nat] /\ \A s \in Sender : sent[s] <= Len(Script[s])
    /\ line \in {"incomplete", "ok", "error"}
    /\ asked \in 0 .. MaxRequests
    /\ shown \in [Sender -> Seq(Nat)]
    /\ announced \in Seq(Sender)
    /\ {emptied, gaveUp, wrong, lost} \subseteq BOOLEAN
    /\ accused \in 0 .. MaxErrors

\* main: some messages may be waiting at the message server.
Init ==
    /\ phase = "login"
    /\ todo = <<"CMD_LOGIN", "CMD_CONTACT_LIST", "CMD_OFFLINE_MSG">>
    /\ waiting = None
    /\ recv_list = <<>> /\ wait_list = <<>> /\ msg_list = <<>> /\ msg_map = <<>>
    /\ msg_count = 0 /\ mode = "COMMAND" /\ chat_uin = Nobody
    /\ net = <<>> /\ requests = <<>>
    /\ \E s \in Sender : \E n \in 0 .. Len(Script[s]) :
        /\ stored = [i \in 1 .. n |-> [from |-> s, n |-> i, type |-> Script[s][i]]]
        /\ sent = [t \in Sender |-> IF t = s THEN n ELSE 0]
    /\ line = "incomplete" /\ asked = 0
    /\ shown = [s \in Sender |-> <<>>]
    /\ announced = <<>> /\ emptied = FALSE
    /\ gaveUp = FALSE /\ wrong = FALSE /\ lost = FALSE /\ accused = 0

-----------------------------------------------------------------------------
(* The servers, through the connection server: as long as the client is there. *)

Replied(kind, r, msgs) == [kind |-> kind, to |-> r, msgs |-> msgs]

\* The messages that are stored fill the last packet, or others before it.
OfflineAnswer(r) ==
    \E k \in 0 .. (IF stored = <<>> THEN 0 ELSE Len(stored) - 1) :
        net' = net \o (IF k = 0 THEN <<>>
                       ELSE <<Replied("offline", None, SubSeq(stored, 1, k))>>)
                   \o <<Replied("reply", r, SubSeq(stored, k + 1, Len(stored)))>>

\* The reply: srv_login_ok, and when the connection is logged in srv_other_packet,
\* put it in the client's queue.
Reply(r) ==
    /\ r.cmd = "CMD_LOGIN" \/ line = "ok"
    /\ line' = "ok"
    /\ \/ r.cmd = "CMD_OFFLINE_MSG" /\ OfflineAnswer(r) /\ stored' = <<>>
       \/ /\ r.cmd # "CMD_OFFLINE_MSG"
          /\ net' = Append(net, Replied("reply", r, <<>>))
          /\ UNCHANGED stored
    /\ UNCHANGED lost

\* SRV_ERROR, in answer to these only, and of CMD_ADD_CONTACT only when the user has
\* named himself.  srv_error lets it through, and nothing else after it.
Error(r) ==
    /\ r.cmd \in {"CMD_LOGIN", "CMD_ADD_CONTACT"}
    /\ line' = "error"
    /\ net' = Append(net, Replied("error", r, <<>>))
    /\ UNCHANGED <<stored, lost>>

\* Nothing comes: SRV_ERROR for CMD_ADD_CONTACT has gone to the one who was named;
\* or after an SRV_ERROR cmd_packet_handler has dropped the request, or
\* srv_other_packet the reply.
Nothing(r) ==
    /\ r.cmd = "CMD_ADD_CONTACT" \/ (r.cmd # "CMD_LOGIN" /\ line # "ok")
    /\ \/ UNCHANGED <<stored, lost>>
       \/ /\ r.cmd = "CMD_OFFLINE_MSG"
          /\ stored' = <<>>
          /\ lost' = (lost \/ stored # <<>>)
    /\ UNCHANGED <<net, line>>

\* A request is answered after the earlier ones of its kind, or never.
Answer(i) ==
    LET r == requests[i]
    IN  /\ phase # "ended"
        /\ \A j \in 1 .. i - 1 : requests[j].cmd # r.cmd
        /\ requests' = RemoveAt(requests, i)
        /\ Reply(r) \/ Error(r) \/ Nothing(r)
        /\ UNCHANGED <<phase, todo, waiting, lists, screen, sent, asked, gaveUp, wrong, accused>>

\* Somebody asks in vain to add the user: friend_packet sends SRV_ERROR to the user
\* and not to him.  Of offline messages that are on their way, only those come that
\* were before it.
ForeignError ==
    /\ asked > 0 /\ phase # "ended"
    /\ accused < MaxErrors /\ asked + accused < MaxRequests
    /\ accused' = accused + 1
    /\ line' = "error"
    /\ \/ /\ net' = Append(net, Replied("error", Foreign, <<>>))
          /\ UNCHANGED <<requests, stored, lost>>
       \/ /\ line = "ok"
          /\ \E i \in DOMAIN requests, k \in 1 .. Len(stored) - 1 :
                /\ requests[i].cmd = "CMD_OFFLINE_MSG"
                /\ requests' = RemoveAt(requests, i)
                /\ net' = net \o <<Replied("offline", None, SubSeq(stored, 1, k)),
                                   Replied("error", Foreign, <<>>)>>
          /\ stored' = <<>>
          /\ lost' = TRUE
    /\ UNCHANGED <<phase, todo, waiting, lists, screen, sent, asked, gaveUp, wrong>>

\* Somebody sends a message to the user, who is online; earlier ones are stored.
\* srv_other_packet drops it while the connection is not logged in.
Send(s) ==
    /\ asked > 0 /\ phase # "ended"
    /\ sent[s] < Len(Script[s])
    /\ sent' = [sent EXCEPT ![s] = @ + 1]
    /\ \/ /\ line = "ok"
          /\ net' = Append(net, Replied("message", None,
                        <<[from |-> s, n |-> sent[s] + 1, type |-> Script[s][sent[s] + 1]]>>))
          /\ UNCHANGED lost
       \/ line # "ok" /\ lost' = TRUE /\ UNCHANGED net
    /\ UNCHANGED <<phase, todo, waiting, lists, screen, requests, stored, line, asked,
                   gaveUp, wrong, accused>>

\* Some of the packets that have come, in their order, and what is left.
Batches == IF net = <<>> THEN {0} ELSE 1 .. Len(net)
Batch(n) == SubSeq(net, 1, n)
Rest(n) == SubSeq(net, n + 1, Len(net))
-----------------------------------------------------------------------------
(* Packets and messages.                                                   *)

\* Those of q that are so: a SelectSeq, in a form that can be proved about.
Those(q, Test(_)) ==
    FlattenSeq([i \in DOMAIN q |-> IF Test(q[i]) THEN <<q[i]>> ELSE <<>>])

IsMessage(p) == p.kind = "message"
IsOther(p) == ~IsMessage(p)

MsgsIn(packets) == FlattenSeq([i \in DOMAIN packets |-> packets[i].msgs])

\* Mutant: the message is put before the others.
File_First(map, m) ==
    LET at == {i \in DOMAIN map : map[i].uin = m.from}
    IN  IF at = {} THEN Append(map, [uin |-> m.from, msgs |-> <<m>>])
        ELSE [i \in DOMAIN map |->
                IF i \in at THEN [map[i] EXCEPT !.msgs = <<m>> \o @] ELSE map[i]]

\* read_message_from_buffer: a message is filed under its sender.
File(map, m) ==
    LET at == {i \in DOMAIN map : map[i].uin = m.from}
    IN  IF at = {} THEN Append(map, [uin |-> m.from, msgs |-> <<m>>])
        ELSE [i \in DOMAIN map |->
                IF i \in at THEN [map[i] EXCEPT !.msgs = Append(@, m)] ELSE map[i]]
FileAll(map, msgs) ==
    LET f[i \in 0 .. Len(msgs)] == IF i = 0 THEN map ELSE File(f[i - 1], msgs[i])
    IN  f[Len(msgs)]

Senders(map) == [i \in DOMAIN map |-> map[i].uin]

\* Mutant: the sender stays, without messages.
Unfile_Keep(map, i) == [map EXCEPT ![i].msgs = <<>>]

\* HASH_DEL, when the messages of the i-th sender have been read.
Unfile(map, i) == RemoveAt(map, i)

-----------------------------------------------------------------------------
(* Requests.                                                               *)

\* The user interface sends the next request and waits.  After SRV_ERROR
\* cmd_packet_handler takes nothing but CMD_LOGIN.
request ==
    /\ waiting = None
    /\ todo # <<>>
    /\ LET r == [cmd |-> Head(todo), id |-> asked + 1]
       IN  /\ waiting' = r
           /\ requests' = IF line = "error" /\ r.cmd # "CMD_LOGIN" THEN requests
                          ELSE Append(requests, r)
    /\ asked' = asked + 1
    /\ todo' = Tail(todo)
    /\ UNCHANGED <<phase, lists, screen, net, stored, sent, line, history>>

\* wait_for_reply: what it takes for a reply to the request.
Taken(p) ==
    \/ p.kind \in {"reply", "error"} /\ p.to.cmd = waiting.cmd
    \/ p.kind = "offline" /\ waiting.cmd = "CMD_OFFLINE_MSG"

\* The part of wait_for_reply that its callers share: one recv, or none for 30
\* seconds.
Waited(n) ==
    /\ net' = Rest(n)
    /\ recv_list' = <<>>
    /\ msg_list' = msg_list \o Those(recv_list \o Batch(n), IsMessage)

\* What it has for a reply then.
Found(n) == wait_list \o Those(recv_list \o Batch(n), Taken)

\* What the user interface does when a request has failed, or was the last: in
\* ui_login it gives up or goes on to the loop.
Done(ok) ==
    /\ phase' = IF phase = "login" /\ (~ok \/ todo = <<>>)
                THEN IF ok THEN "input" ELSE "ended" ELSE phase
    /\ todo' = IF ok THEN todo ELSE <<>>
    /\ waiting' = None

\* Mutant: the reply stays on the list.
wait_for_reply_Keep(n) ==
    /\ waiting # None /\ waiting.cmd # "CMD_OFFLINE_MSG"
    /\ Waited(n)
    /\ LET found == Found(n)
       IN
        /\ IF found = <<>>
           THEN Done(FALSE) /\ gaveUp' = TRUE /\ UNCHANGED wrong
           ELSE /\ wrong' = (wrong \/ Head(found).to # waiting)
                /\ Done(Head(found).kind = "reply" /\ Head(found).to.cmd = waiting.cmd)
                /\ UNCHANGED gaveUp
        /\ wait_list' = found
    /\ UNCHANGED <<msg_map, screen, requests, stored, sent, line, asked, lost, accused>>

\* login, set_nick, add_contact, contact_list, contact_info_multi: the first of
\* what was taken is the reply.  get_contacts asks for the details of so many
\* contacts at a time.
wait_for_reply(n) ==
    /\ waiting # None /\ waiting.cmd # "CMD_OFFLINE_MSG"
    /\ Waited(n)
    /\ LET found == Found(n)
       IN
        /\ IF found = <<>>
           THEN Done(FALSE) /\ gaveUp' = TRUE /\ UNCHANGED <<wait_list, wrong>>
           ELSE LET p == Head(found)
                    ok == p.kind = "reply" /\ p.to.cmd = waiting.cmd
                IN  /\ wait_list' = Tail(found)
                    /\ wrong' = (wrong \/ p.to # waiting)
                    /\ IF ok /\ waiting.cmd = "CMD_CONTACT_LIST"
                       THEN /\ \E k \in 0 .. MaxDetails :
                                todo' = [i \in 1 .. k |-> "CMD_CONTACT_INFO_MULTI"] \o todo
                            /\ waiting' = None
                            /\ UNCHANGED phase
                       ELSE Done(ok)
                    /\ UNCHANGED gaveUp
    /\ UNCHANGED <<msg_map, screen, requests, stored, sent, line, asked, lost, accused>>

\* get_offline_msg: without the last packet of the reply all is freed; with it
\* ui_show_offline_msg_list shows who has sent something.
get_offline_msg(n) ==
    /\ waiting.cmd = "CMD_OFFLINE_MSG"
    /\ Waited(n)
    /\ LET found == Found(n)
       IN
        /\ IF \E i \in DOMAIN found : found[i].kind = "reply"
           THEN /\ msg_map' = FileAll(msg_map, MsgsIn(found))
                /\ announced' = Senders(msg_map')
                /\ Done(TRUE)
                /\ UNCHANGED <<gaveUp, lost>>
           ELSE /\ Done(FALSE)
                /\ gaveUp' = TRUE
                /\ lost' = (lost \/ MsgsIn(found) # <<>>)
                /\ UNCHANGED <<msg_map, announced>>
        /\ wait_list' = <<>>
    /\ UNCHANGED <<msg_count, mode, chat_uin, shown, emptied, requests, stored, sent, line,
                   asked, wrong, accused>>

-----------------------------------------------------------------------------
(* The screen.                                                             *)

Seen(m) == shown' = [shown EXCEPT ![m.from] = Append(@, m.n)]

\* select_loop, before the input of the user: which may be none.
Input ==
    /\ phase = "input" /\ todo = <<>> /\ waiting = None
    /\ phase' = "poll"
    /\ UNCHANGED <<waiting, recv_list, wait_list, msg_list, servers, asked, history>>

no_input == Input /\ UNCHANGED <<todo, msg_map, screen>>

\* command_input: ui_set_nick, ui_add_contact, ui_show_contacts.
ui_command ==
    /\ Input /\ mode = "COMMAND"
    /\ \E cmd \in {"CMD_SET_NICK", "CMD_ADD_CONTACT", "CMD_CONTACT_LIST"} :
        /\ todo' = <<cmd>>
        /\ asked + accused + 1 + (IF cmd = "CMD_CONTACT_LIST" THEN MaxDetails ELSE 0)
                <= MaxRequests
    /\ UNCHANGED <<msg_map, screen>>

\* ui_chat.
ui_chat(s) ==
    /\ Input /\ mode = "COMMAND"
    /\ mode' = "CHAT"
    /\ chat_uin' = s
    /\ UNCHANGED <<todo, msg_map, msg_count, shown, announced, emptied>>

\* ui_show_message, ui_print_message: the first message of the i-th sender.
ui_show_message(i) ==
    /\ Input /\ mode = "COMMAND"
    /\ LET m == Head(msg_map[i].msgs)
           last == Len(msg_map[i].msgs) = 1
       IN  /\ Seen(m)
           /\ mode' = CASE m.type = "REQUEST" -> "AUTH"
                        [] m.type = "CHAT" -> "CHAT"
                        [] OTHER -> mode
           /\ chat_uin' = IF m.type = "ACCEPT" THEN chat_uin ELSE m.from
           /\ msg_map' = IF last THEN Unfile(msg_map, i)
                         ELSE [msg_map EXCEPT ![i].msgs = Tail(@)]
           /\ emptied' = (emptied \/ last)
    /\ UNCHANGED <<todo, msg_count, announced>>

\* chat_input, auth_input: \q, or yes or no; cmd_message and
\* cmd_add_contact_reply wait for no reply.
ui_back ==
    /\ Input /\ mode # "COMMAND"
    /\ mode' = "COMMAND"
    /\ UNCHANGED <<todo, msg_map, chat_uin, msg_count, shown, announced, emptied>>

\* ui_quit_program.
ui_quit ==
    /\ phase = "input" /\ todo = <<>> /\ waiting = None /\ mode = "COMMAND"
    /\ phase' = "ended"
    /\ UNCHANGED <<todo, waiting, lists, screen, servers, asked, history>>

\* Mutant: the list is shown only when it has become shorter.
Notice_Shorter(map) ==
    IF Len(map) >= msg_count THEN UNCHANGED <<msg_count, announced, emptied>>
    ELSE /\ msg_count' = Len(map)
         /\ announced' = Senders(map)
         /\ emptied' = FALSE

\* ui_show_msg_list_notice: the list is shown if the number of senders has changed.
Notice(map) ==
    IF Len(map) = msg_count THEN UNCHANGED <<msg_count, announced, emptied>>
    ELSE /\ msg_count' = Len(map)
         /\ announced' = Senders(map)
         /\ emptied' = FALSE

\* Mutant: messages are read in command mode only.
select_loop_Command(n) ==
    /\ phase = "poll" /\ todo = <<>> /\ waiting = None
    /\ phase' = "input"
    /\ IF mode = "COMMAND"
       THEN /\ net' = Rest(n)
            /\ msg_map' = FileAll(msg_map, MsgsIn(msg_list
                                    \o Those(recv_list \o Batch(n), IsMessage)))
            /\ Notice(msg_map')
            /\ msg_list' = <<>>
       ELSE UNCHANGED <<net, msg_map, msg_list, msg_count, announced, emptied>>
    /\ UNCHANGED <<todo, waiting, recv_list, wait_list, mode, chat_uin, requests,
                   stored, sent, line, shown, asked, history>>

\* The rest of the loop: read_online_message, then the notice, or in chat mode
\* ui_show_chat_message.
select_loop(n) ==
    /\ phase = "poll" /\ todo = <<>> /\ waiting = None
    /\ phase' = "input"
    /\ net' = Rest(n)
    /\ LET batch == recv_list \o Batch(n)
           chat(map) == {i \in DOMAIN map : mode = "CHAT" /\ map[i].uin = chat_uin}
       IN  /\ recv_list' = Those(batch, IsOther)
           /\ \E map \in {FileAll(msg_map, MsgsIn(msg_list \o Those(batch, IsMessage)))} :
              \/ mode = "COMMAND" /\ Notice(map) /\ msg_map' = map /\ UNCHANGED shown
              \/ /\ mode # "COMMAND" /\ chat(map) = {}
                 /\ msg_map' = map
                 /\ UNCHANGED <<msg_count, announced, emptied, shown>>
              \/ \E i \in chat(map) :
                 /\ shown' = [shown EXCEPT ![chat_uin] = @ \o
                                [j \in DOMAIN map[i].msgs |-> map[i].msgs[j].n]]
                 /\ msg_map' = Unfile(map, i)
                 /\ emptied' = TRUE
                 /\ UNCHANGED <<msg_count, announced>>
    /\ msg_list' = <<>>
    /\ UNCHANGED <<todo, waiting, wait_list, mode, chat_uin, requests, stored, sent,
                   line, asked, history>>

Receive == \E n \in Batches : wait_for_reply(n) \/ get_offline_msg(n) \/ select_loop(n)

Next ==
    \/ \E i \in DOMAIN requests : Answer(i)
    \/ ForeignError
    \/ \E s \in Sender : Send(s)
    \/ request
    \/ Receive
    \/ no_input
    \/ ui_command
    \/ \E s \in Sender : ui_chat(s)
    \/ \E i \in DOMAIN msg_map : ui_show_message(i)
    \/ ui_back
    \/ ui_quit

\* The client goes on: select and recv return in time whatever happens.
Spec == Init /\ [][Next]_vars
FairSpec == Spec /\ WF_vars(request) /\ WF_vars(Receive) /\ WF_vars(no_input)

-----------------------------------------------------------------------------
(* Properties.                                                             *)

\* A request gets the reply to itself and not to an earlier one, and in ui_login it
\* always does; later, unless a request has been given up, whose reply comes with
\* the next of its kind (wait_for_reply), or an SRV_ERROR has come that answers
\* somebody else, which passes for the reply to the user's own CMD_ADD_CONTACT.
ReplyIsOwn ==
    /\ wrong => gaveUp \/ accused > 0
    /\ phase = "login" => ~wrong

\* Of the messages in q, those from s.
From(s, q) ==
    FlattenSeq([i \in DOMAIN q |-> IF q[i].from = s THEN <<q[i].n>> ELSE <<>>])

\* Every message of a user is shown, or filed, or still to be read, exactly once,
\* and they are so in the order in which he sent them, through whatever requests
\* come between (wait_for_reply, get_offline_msg, read_online_message); unless
\* messages were dropped by srv_other_packet, or the offline messages came in more
\* than one recv, and were freed.
KeptInOrder ==
    LET coming == recv_list \o net
        filed == FlattenSeq([i \in DOMAIN msg_map |-> msg_map[i].msgs])
        unread == filed \o stored
                    \o MsgsIn(Those(coming, IsOther))
                    \o MsgsIn(msg_list \o Those(coming, IsMessage))
    IN  \A s \in Sender :
            ~lost => shown[s] \o From(s, unread) = [i \in 1 .. sent[s] |-> i]

\* At the prompt, the numbered list that the user has last seen is that of the
\* senders whose messages are waiting, so that he reads what he means to
\* (ui_show_msg_list_notice compares only how many they are), unless all messages
\* of one have been read since he saw it.
ListIsCurrent ==
    phase = "input" /\ mode = "COMMAND" /\ ~emptied =>
        announced = Senders(msg_map)

\* When no more messages are sent, all that have come are filed or shown in the
\* end, if the client goes on (select_loop).
MessagesArrive ==
    <>[](phase = "ended" \/ (msg_list = <<>> /\ \A i \in DOMAIN net : IsOther(net[i])))
=============================================================================
