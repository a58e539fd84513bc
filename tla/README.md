# MiniIM in TLA+

MiniIM is an instant-messaging system: a connection server that holds the TCP
connections of all clients, four database-backed servers behind it, and a
terminal client.  This directory models its protocols and data structures in
TLA+, checks small instances with TLC, and proves the results that should hold
for every size with TLAPS.  Paths below are relative to `src/`.

## The system

| Part | Code | State | Operations |
|---|---|---|---|
| connection server, event loop and sockets | `src/conn/conn_network.c`, `src/conn/conn_server.c` | epoll sets, `fd_conn_map`, send queues | accept, read, write, error events; one pass of the timer for each turn |
| connection server, routing | `src/conn/conn_packet.c`, `src/include/conn_server.h` | `uin_conn_map`, type and uin of each connection | `cmd_*` for packets of clients, `srv_*` for packets of servers, `close_connection` |
| connection server, timer | `src/conn/conn_timer.c`, `src/include/conn_timer.h` | wheel of lists, cursor, keep-alive list | add, delete, mark alive, tick, expiry |
| connection server, packet reader | `src/conn/conn_network.c:110-311` | `recv_packet_list`, `expect_bytes`, `length_incomplete` | reassembly of packets from reads of any size |
| status server | `src/server/status.c` | file `status.data`: a pointer for each user, entries, free list | go online or offline, status of one or many users |
| message server | `src/server/message.c`, `message_db.c` | waiting lists, table `offline_msg`, connection servers | message, status answer, fetch of offline messages |
| user server | `src/server/user.c`, `user_db.c` | table `user` | login, nick, registration, counts of contacts |
| contact server | `src/server/friend.c`, `friend_db.c` | contact tables by size, `fdmap` | contact list, add, accept, refuse, details |
| client, packet reader | `src/client/client_user.c:1-270` | `lp`, `recv_packet_list`, `expect_bytes` | reassembly, as in the server |
| client, requests and interface | `src/client/client_user.c`, `client.c` | packet and message lists, mode, notice | login, requests and replies, messages, commands |
| framework | `src/server/main.c`, `modules.c` | - | forks the servers |
| registration page | `src/register/register.wsgi` | table `user`, shared with the user server | adds an account |

**How they interact.**  A client sends a packet to the connection server, which
checks the login state of its connection and queues it for the user, contact or
message server.  Those answer with packets that carry the uin of the receiver,
and the connection server looks his connection up.  Login goes client →
connection server → user server → status server → user server → connection
server.  The end of a connection goes from the connection server straight to the
status server.  The message server asks the status server where a receiver is,
keeps the message until the answer comes, and then sends it to the connection
server it names, or stores it.

**What is hard.**  Every server is one thread; what interleaves are the packets
between them, and SIGALRM.  Replies come after their asker has gone and his memory
and uin are in use again; the wheel is swept late; a restart finds a file that
says who was online; TCP cuts packets anywhere; a socket's buffer is full; an
answer about a user's status is old when it is used.  `PROJECT.json` lists these
hazards with their lines, and which property covers each.

## Modules

| Module | Models | Abstract specification | Proofs |
|---|---|---|---|
| `ConnTimer` | the timer wheel, SIGALRM, the expiry pass | `Lease` | `ConnTimerProof` |
| `StatusServer` | the status server with its file and its restarts | `StatusBoard` | `StatusServerProof` |
| `ConnServer` | connections, maps, send queues and all handlers | `Switchboard` | `ConnServerProof` |
| `PacketReader` (on `Framing`) | the packet reader of the connection server | `PacketStream` | with `Readers` |
| `ClientReader` (on `Framing`) | the packet reader of the client | `PacketStream` | with `Readers` |
| `Readers` | the two readers, one of them in each behaviour | `PacketStream` | `ReadersProof` |
| `MessageServer` | waiting lists, status answers, offline table | `Mailboxes` | `MessageServerProof` |
| `UserServer` | the table of users, passwords, nicks, two registrars | - | with `LoginSession` |
| `LoginSession` (on `UserServer`) | login and logout through connection, user and status server | - | `LoginSessionProof` |
| `ContactServer` | contact tables, requests, details, the count kept elsewhere | `Friendships` | `ContactServerProof` |
| `ClientSession` | the client above its reader: requests, messages, screen | - | `ClientSessionProof` |

`LoginSession` composes `UserServer` with what `Switchboard` and `StatusBoard` show of the
other two servers.
`MC*` modules and the `.cfg` files give the constants their values.  An operator
whose comment calls it a mutant is a plausible bug in the definition that follows
it; no specification uses it.  It is there to show that a property notices the bug.

### ConnTimer

Variables are the fields of `struct timer` (`prev`, `current`, `timer_slots`),
the keys of `uin_conn_map`, `keep_alive_list`, and `lag`, the difference of the
two time counters.  Helpers have the names of the inline functions in
`conn_timer.h`.  `Alarm` is the signal handler; it comes between any two others.
`timer_expire_time` is the whole pass: tick, honouring of keep-alive packets, sweep.

* `WheelInv`: a connection is in one slot, the slot under the cursor is empty, and
  whoever can be found by uin is on the wheel.
* `LeaseSpec`: the wheel implements `Lease`, in which every connection has an age
  and a sweep closes exactly those whose age reaches `CLIENT_TIMEOUT`.  `Grace = 1`
  is the fact that the intended timer has `Grace = MaxLag`: a pass that counts two
  seconds or more closes the connections it has just marked alive.  Run
  `timer_late` shows it against the comment in `timer_add`.
* `SilentIsClosed` (liveness): a connection whose client is silent is closed.

### StatusServer

`map` holds pointers as pairs of the address at which the file was mapped and an
entry, because a pointer of an earlier process is only good if the file is mapped
there again.  `con` is the address in each entry, `free_list` the list rebuilt at
every start.  `Kill` and `Restart` are the crash and the start with what the file
holds; `SetOnlineFull` writes through the NULL of an empty free list,
`FollowStale` through a stale pointer.  `get_multi_status` has no test of `MAX_USER`: what it reads for
a number that is too big is anything (`Readings`), or kills the server (`ReadOutside`).  How many
numbers a request has is taken from the request (the 5018 bytes of a packet hold the
answer for 834).  `SetOffline` of an entry that is on the
free list already makes the list no list; the model stops there until the next
restart (`proc = "corrupt"`).  `clean` is a history variable: no restart so far has
found a user online.

* `CleanPartition`: until then every entry is free or held by exactly one user.
  The condition is needed: `status_list_init` frees all entries, whoever the file shows
  online, and the next login takes one that is held.
* `OnlineHasAddress`: whatever the restarts, who is shown online has an address or
  an entry that is on the free list too.
* `BoardSpec`: until then the server implements `StatusBoard`, a function from users
  to connection servers that survives restarts and dies of a login when it is full.  What it says of
  a user it has no place for is open, and such a question may kill it too (`AskBeyond`): nothing else
  about the board depends on it.

### ConnServer

The unit of a step is one packet or one write, error or timer event, as
`epoll_loop` handles them.  A block of the allocator (`Addr`) may be reused the
moment it is free; `uin_conn_map` keeps the bucket order of uthash, newest first,
because `HASH_FIND` finds, and `close_connection` removes, the first.  Which
connections the timer finds dead is left open (it is `ConnTimer`'s matter), so a
pass may close any set in any order.  The other servers may send anything at any time.  A
socket is watched for reading or for writing, never both: `wait_for_write` turns read
events off until the write event (`Readable`).

* `Directory`: uins and open connections are in bijection, no entry leads to a
  freed block, no handler touches one.
* `OnlyOwnPackets`: no packet in a queue is for another user than the one at the
  other end: nothing is inherited with a block.
* `OfflineIsTrue`: an offline report is queued only when no connection of the user is
  logged in any more.
* `QueuesAreWatched`: only a full buffer leaves packets behind at a socket that
  nobody watches for writing.
* `SwitchboardSpec`: the server implements `Switchboard`, which knows no connections,
  blocks or maps, only one line for each user.

All of them assume `Overlap = FALSE`: a user logs in anew only after the server has
closed his last connection.  With `Overlap = TRUE` run `conn_overlap` finds the entry
of a new connection removed by the close of the old one, and an entry that leads to
a freed block (`FoundIsSafe`).

### Framing, PacketReader, ClientReader, Readers

A byte is named by its place in the stream, and a packet in memory is the sequence of
what is at its places, `Junk` where nothing was written, so that a byte out of place is
seen.  `Framing` has the two ends: the sender's packets, the stream, where the network
cuts it, and the calls of `read` or `recv` with a buffer of `BufSize`.  The stream to the
client is cut anywhere; `MaySplit` says whether that to the server is too.  The
readers translate the three functions each program has for the three states a packet can
be left in.  `Behind` is the pointer arithmetic of `last_packet_incomplete`: a `struct
packet *` is moved on by `have_read` headers, not bytes.  A copy that ends behind the
block (`Overrun`) sets `corrupt`, and the model stops there.  `cut` is a history variable:
the packets within which some read ended.

* `Accounted`: the packets handed over, queued and in progress are those sent, and end
  where `read_packet` is, but for `expect_bytes` or the first byte of a length.
* `StreamSpec`: both implement `PacketStream`: where packets begin and end is found
  rightly, they are handed over in order and only when they have arrived, and nobody is
  cut off.  It says nothing of contents, and nothing after `corrupt`.
* `WholeIsIntact`: a packet that one read returned whole has the bytes that were sent.
* `AllHandled` (liveness, client): every packet that arrives is handed over, unless
  memory was overwritten.

A packet that takes two reads is handed over without its second part, against the comment
on `last_packet_incomplete` (run `client_cut`; `conn_network.c:149` is the same line in the
server).  And the server's reader is checked for packets that arrive whole only: of a packet
that is not complete at the end of a read event `process_packet` takes the first part off the
list, and the connection is given up when the rest comes.

### MessageServer

`requests` and `replies` are the two directions of the socket to the status server,
which answers in order with what is true when it answers (`GetStatus`); `place` is what it
knows.  `map` has the waiting messages, newest first as in the code.  A row of
`offline_msg` is its type and the messages its text was put together from:
`message_update` appends to a row of the same sender and keeps the type.  `StoredAll`
(`store_offline_msg`, message by message) is a recursive function, so that it can be proved about.

Of a text the model has the length, in units, for three places where the code depends on it.
`query_str` has 1000 bytes for a statement with a text of up to 4095 (`QueryRoom`): what becomes of a
longer one is left open, and the process may die of it (`overrun_query`).  An update that makes a row
longer than its column (`ColumnRoom`) fails, as in the strict mode of the database, and the message is
lost (`Stored`).  The rows of a user are sent in packets (`PacketRoom`), and `message_get` fetches a row before it knows
whether there is room: `Filled` is how much of a packet is taken, `Packed` which rows are then found `unfit`.  Such a row is
skipped but still counted, so the last call goes past the end of the result and reads lengths through
NULL (`overrun_rows`); the comment at `message_db.c:43-49` promises a continuation instead.  By
then the packets before the last unfit row have been sent, and nothing has been deleted.  A server that has
died is not started again (`main.c`): its lists are gone (`Dies`), `running` is false.

* `MailboxSpec`: with chat messages only and no database failure, the server implements
  `Mailboxes`: what was accepted is kept until it is sent, to the user it is for, once.  Two things are
  allowed besides: `Lose`, of a message that is too long for the statement or that finds another of its sender in the
  table, and `Die`, of a server that has something for a user: what it sent to him by then was kept for him, once each.
* `WaitingIsAsked`, `WaitingEnds`: while connection servers stay, nobody waits without a
  request or answer on its way, and waiting ends: the messages are sent, are given to the database (which
  may fail), or are gone with the server.

`may` is chosen at the start of a behaviour: whether friend messages are sent, statements
fail in the database, connection servers leave, or texts are too long for `query_str`.  It keeps apart in one run what the
properties are conditioned on; `Chances` says which combinations there are.

Run `message_type` shows what friend messages change: a chat message put to the row of an
earlier friend message of the same sender is deleted unsent.

### UserServer, LoginSession

Four queues are the sockets between the servers: `requests` and `replies` to and from the
user server, `onlines` and `offlines` from the user and the connection server to the status
server.  Nothing orders one with another.  `line` is how far a user has signed in at the
connection server and `board` what the status server shows, as in `Switchboard` and
`StatusBoard`, which the two servers implement while no user logs in twice and no restart
finds anybody online.  A password is right or wrong; a stored hash may have a zero byte in
it (`"cut"`: `user_get_passwd` copies it as a string, so that the comparison is up to what
the stack held) or be no hash at all (`"plain"`: the page stores the password).  Adding an
account is two statements, between which the other registrar may come; `running` ends when
`select max(uin)` answers NULL.  Every statement may fail (`DbMayFail`).  The result of
`user_get_nick` is not tested (`user.c:232`): when it fails, SRV_LOGIN_OK goes out with the nick
that the reply buffer still has from an earlier reply, to this user or to another, or with
what `malloc` left there (`outpack`, NULL before the first reply).

The history variable `crossed` has the users of whom a report or verdict was on its way when
they hung up or came back; `failed` those whose nick a statement has not stored, or not read
for the last answer.

* `StatusIsTrue`: when nothing is on the way for a user who has not crossed, he is shown
  online exactly while he is logged in.  With `crossed` dropped it is false: a user whose
  connection ends before his `SRV_LOGIN_OK` comes is not reported offline and is shown online
  until he logs in again (`bug/bug-report` 19-26 tells of a user who stayed online).
* `OkWasGranted`: nobody is logged in by the verdict on another password.
* `NickAsTold`: the last nick that was put in the send queue of a logged-in user (`queued`) is the
  one that is stored, once nothing of his is on the way and unless a statement has failed.  What the
  client makes of it is the part of `ClientSession`, which may give the reply up.
* `OwnAccount`: no number is given to two users.
* `GoneIsOffline`, `LoginAnswered` (liveness): whoever has gone is shown offline in the end;
  every login is decided while the user server lives.

### ContactServer

A user's friends are the first `contact_count` columns of his row in the table that the count
selects (`TableFor`); the count is raised by the user server, later (`user_friend_add`, queue
`counters`).  `accept` and `accept_other` are the two halves of `CMD_ADD_CONTACT_REPLY`.
`contact` has for each user his `Rows`, one in each table, or none.
`friend_add_contact` returns the rows a statement may leave: a failing one leaves the row as
it was, `Moved` is the move to the next table, after which the table to be updated is a variable
that was never written.  `Smashed` is the statement that is longer than its buffer.  Queries
are not made to fail.  `infos` are the requests for details on their way through the status server, as
many as `MaxOpen`: a user may ask again, on another connection, before he is answered, and both answers
go to the socket in `fdmap`, that of the second.  (`fdmap` has `MAX_USER` elements and is indexed without a test;
the users of the model are below it.)  `spoiled` has the users whose row was written by a count that was out of
date, was moved, or was not written; `crossed` the pairs asked again before they settled.

* `ListIsFriends`: the list of a user who is not spoiled is those he has agreed with, in order,
  but for those who are still to be counted.
* `EachOnce`: nobody is twice in a list, unless he was asked again in between.
* `FriendshipsSpec`: while nothing is spoiled or crossed, the server implements `Friendships`,
  where each request for details is answered once, in order, wherever the user has last asked
  (`origin`, which is recorded apart from `fdmap`).
* `ListsComplete` (liveness): the lists are complete in the end.

### ClientSession

A `recv` returns some of the packets that have come, in order (`Batch`); how the reader finds
them is `ClientReader`'s matter.  The client is one thread: in `wait_for_reply` it reads once or
for 30 seconds, and takes what it finds of the right kind.  `requests` is what the servers have
to answer, kind by kind in order.  `line` is the type of the client's connection at the
connection server, and decides what gets through: a reply (`Reply`) or message only while it is
logged in, an SRV_ERROR (`Error`) always, which ends that, for good unless CMD_LOGIN follows, as
it does only in `ui_login`.  Nothing comes (`Nothing`) for a `CMD_ADD_CONTACT` whose error has gone to
somebody else, and for what is dropped after an error.  `ForeignError` is the other end of it:
`friend_packet` sends the error of somebody's `CMD_ADD_CONTACT` to the user he has named
(`friend.c:241`), and if that user waits for a reply to his own, `wait_for_reply` takes it for that
(`client_user.c:440`).
`msg_map` is the numbered list of senders; `announced` the list the user has last seen.
`Those` picks the packets of a kind from a list, `FileAll` files messages one by one: forms of
`SelectSeq` and of a fold that can be proved about.

* `ReplyIsOwn`: in `ui_login` each request gets the reply to itself; later too, unless one has been
  given up (`gaveUp`) or an error has come that answers somebody else (`accused`).  Both exceptions
  are what the code does: without either TLC finds a request with the wrong reply.
* `KeptInOrder`: each message is shown, filed or still to be read, once and in order, unless
  offline messages came in more than one `recv`, or the connection server dropped messages after
  an SRV_ERROR (`lost`).
* `ListIsCurrent`: the number the user types means the sender it stood for, unless all messages
  of a sender were read since the list was shown (`emptied`): the notice compares only counts.
* `MessagesArrive` (liveness): what has come is filed or shown in the end.

## Runs

| Run | Bounds | Shows |
|---|---|---|
| `timer` | 2 clients, 5 slots, up to 4 s late | types, `WheelInv`, `LeaseSpec`, `SilentIsClosed` |
| `timer_late` | 2 s late | violates the comment of `timer_add` |
| `status` | 5 uins (3 below `MAX_USER`, one at it, one above), questions about up to 2, 2 entries, 2 addresses, 2 mappings, any restarts | types, `CleanPartition`, `OnlineHasAddress`, `BoardSpec` |
| `conn` | 2 users, 2 blocks, queues of 1 or 2 | `Directory`, `OnlyOwnPackets`, `OfflineIsTrue`, `QueuesAreWatched`, `SwitchboardSpec` |
| `conn_overlap` | the same, two connections of a user | violates `FoundIsSafe` |
| `readers` | header 3, block 16; server: 4 packets of 3, 4 or 7 bytes, reads of 8; client: 3 packets of 4 or 7, cut anywhere | types, `Accounted`, `WholeIsIntact`, `StreamSpec`, `AllHandled` |
| `client_cut` | 2 packets, cut anywhere | violates `CutIsIntact` |
| `message` | 2 users, 3 messages; 2 connection servers that come and go, or 1 that stays, with friend messages and a failing database (a delete fails only before a second message is sent, `MaxAgain`), or 1 that stays, with texts that are too long; texts of 1 unit fit everywhere, of 2 are too long for a statement, and 3 units for a row or a packet | types, `WaitingIsAsked`, `MailboxSpec`, `WaitingEnds` |
| `login` | 2 numbers, 2 registrars, 1 client, 2 nicks, 3 packets on the way when the client sends one more (`MaxTraffic`) | types, `OwnAccount`, `StatusIsTrue`, `OkWasGranted`, `NickAsTold`, `GoneIsOffline`, `LoginAnswered` |
| `contacts` | 3 users and an unknown number, tables of 2 and 3, failures in the rows of one, 3 acceptances, 2 requests of each kind open | types, `ListIsFriends`, `EachOnce`, `FriendshipsSpec`, `ListsComplete` |
| `session` | 2 senders with 2 and 1 messages, 5 requests and foreign errors together (`MaxRequests`), of which 1 error (`MaxErrors`), details asked for once in a list (`MaxDetails`) | types, `ReplyIsOwn`, `KeptInOrder`, `ListIsCurrent`, `MessagesArrive` |
| `message_type` | friend messages | violates `DeletedWasSent` |

**Why these bounds are enough.**  The wheel treats all slots alike; five
slots and a lag of four make a pass sweep every part of it, across the end too,
and the proofs remove the bound.  Two entries for three users run the free list out
and pass an entry from one user to another; the proofs remove this bound too.  Two
blocks and two users let a block pass between users and a user have two connections;
a queue of two is what it takes to see order and a partial write.  A buffer of
8 bytes with packets of 3, 4 and 7 ends a read in every state of the reader: in a
header's first byte, in the body, at the end, one packet or two in one read.  With a header of
3 and a block of 16 a second part is copied within the packet, behind it, or over the end of
the block.  The readers
look at one packet at a time, so longer packets and more of them repeat these states.
Three messages are two that wait together and one that comes between a request and
its answer; users are alike, and the first message is to the first of them.  In `login` one
user signs in, hangs up and signs in again before the first packets have got through, which
takes three on the way; queues of different users touch only in the servers' order.  The
other number is that of a user who is there from the start, or the account that both
registrars want.  In `contacts` the third friend moves a row to the next table and the
fourth finds no column; requests cross, one is made twice, one to oneself and one to nobody.
The server reads nothing of what it keeps for the details when it handles the lists, nor
the other way round, so a behaviour has requests of one kind (`part`).  In `session` the
login takes three or four of the five; what is left is a request after one that was given up, or
a request of the user's and the error that passes for its reply, and offline messages take two
`recv`s.

Deadlock is checked except where a bound on what the peers send, or the end of the client,
ends the behaviour (`readers`, `client_cut`, `login`, `contacts`, `session`), the server
may die (`message`), or a freed block stops the model (`conn_overlap`).

**Fairness.**  `ConnTimer`: weak fairness of `Alarm` and `timer_expire_time`; `setitimer`
sends a signal each second, `epoll_wait` has a timeout of one second and `epoll_loop` calls the
pass after each return.  `MCReaders`: the client selects on its socket and reads as long
as there is something, and looks at its list after each read (`Read`, the turns of
`read_packet`, `take_packets`).  `MessageServer`: weak fairness of `GetStatus` and of the
handling of an answer.  `LoginSession`: weak fairness of what each server does with what has
come (`Replied`, `TakeOnline`, `TakeOffline`), and of the user server's second
statement once it has made the first; strong fairness of `UserStep`, as registrations come on the
same socket as logins, so that finitely many of them are handled before a login.  `ContactServer`: weak fairness of the second half of
an acceptance and of the user server's counting.  All these servers loop over their sockets.
`ClientSession`: weak fairness of sending what a command has to send, of `recv` and of input
that is none: `select` and `recv` have time-outs.  No fairness is assumed of users, of the
network between a client and the server, or of clients that should log out.

## Proofs

TLAPS checks these for every value of the constants that satisfies the named
assumptions.

* `ConnTimerProof`.  `IInv` is `TypeOK /\ WheelInv`.  `WheelInv` alone is not inductive
  (ages need the range of the cursor), and `TypeOK` needs nothing else.  The arithmetic is in lemmas on
  `timer_tick`, `Age`, `TimeoutSlots` and their moduli; `SweptByAge` says that the swept slots are those whose
  age reaches the timeout, from which a pass is shown to be a `Lease!Sweep` (`LeaseCorrect`).
  `PromptPassKeepsAlive`: if `MaxLag = 1`, `AliveIsNotRemoved` holds.
  Assumptions: `SlotsAssumption` (a uint8_t of at least 2) and `LagAssumption` (the assertion
  at `conn_timer.c:59`).
* `StatusServerProof`.  `AddressCorrect` is inductive with `TypeOK`.  `CleanPartition` is not:
  it needs to know that a killed server's file still has each entry once, that every mapped
  entry has an address and that the pointers are of this mapping.  `FreshInv` says so,
  and `CleanInv == clean => FreshInv` is inductive.  `FreshStep` shows the invariant and the step of the board
  together; the counting (a full free list is a full board) is an injection
  from users to entries (`MappedCardinality`).
* `ConnServerProof`.  `TypeOK` needs `PeerInv` (an open connection has a user at its other
  end and his uin or none), and with it `TypeCorrect` and `WatchedCorrect` hold for any `Overlap`.
  `Directory` and `OnlyOwnPackets` hold if `Overlap = FALSE`; with `TypeOK` and `PeerInv` they are inductive
  (`IInv`).  Each needs the other parts: a reply finds its queue by the directory, and a
  block is given out with an empty queue because nothing waits at a closed connection.
  `SwitchboardCorrect`, for `Overlap = FALSE` too, needs `LineInv`: nothing has come for a connection that has
  not sent CMD_LOGIN.  `LineValue` and `CloseLines` say what the line and the inbox of a user are
  before and after a step; then there is one lemma for each handler, naming the action of
  `Switchboard` it is, or that nothing of it is seen.  `PassCuts` is the hard one: a
  pass reports each user once because a user has one connection.  `OfflineCorrect` follows from the
  same invariant.
  Assumptions: `AddrAssumption` (a finite number of blocks, which are not the servers),
  `NoUinAssumption`, `RequestAssumption`, `QueueAssumption`.
* `ReadersProof`: `TypeCorrect`, `AccountedCorrect`, `IntactCorrect` and `StreamCorrect`.  What the two
  readers share comes first.  `StreamInv`: the packets sent lie end to end in the stream; so at a place where
  one begins only its own length can be read (`LengthFound`).  `Tiles`: the packets found so
  far begin where those sent first begin, and are as long.  `CutInv`: a read that ends within a packet
  has it in `cut`; `Intact`: what is found and not cut is as it was sent.
  `Accounted` and `PacketStream` are not inductive: a reader must also know that it
  is between two packets (`ClientBetween`, `ServerBetween`, perhaps with one byte of a length) or within one
  (`ClientWithin`, `ServerWithin`: the client's packet is in `lp`, the server's is the last on the list).
  `ClientIInv` and `ServerIInv` join these with `Tiles` and `Intact`, of the packets handed over and of all that
  are complete, and show that no length is ever refused, so `open` stays true.  After a copy has
  overwritten memory (`corrupt`) only what was handed over before is promised.
  The client is proved for a stream that is cut anywhere.  The theorems assume `~MaySplit`, for the server: it
  hands its list over whatever the last packet lacks; that it lacks nothing needs `ArrivedInv` (what has
  arrived ends where a packet ends), and `AtEnd` shows with it that a reader that has read all is between packets.
  Assumptions: `LengthAssumption` (the two bytes of the length are in the header), `BufAssumption`,
  `ServerAssumption`, `ClientAssumption`.
* `LoginSessionProof`.  `OwnAccount` needs that a max(uin) that was read is still a number in
  use, and that a registrar's account is written only where there is none (`NumberInv`).
  `StatusIsTrue` and `OkWasGranted` are about states in which nothing is on the way, and the
  invariant says what may be on the way for a user who has not crossed: at most one login or
  verdict, only while his line is incomplete, and with the password he typed
  (`VerdictInv`, `PasswordInv`); at most one report, of the kind that makes the board true
  (`ReportInv`).  `NickAsTold` needs that the last nick on its way to the connection server is the stored one
  (`NicksInv`).  Queues are handled by three predicates, with lemmas on `Append` and `Tail`.
  Assumptions: those of `UserServer` and `LoginSession`.
* `MessageServerProof`.  `WaitingIsAsked` (`AskedCorrect`) is inductive with the types of the queues and
  the fact that, while none leaves, every connection server that an answer names is known (`KnownInv`);
  `TypeInv` adds the types of the tables (`TypeCorrect`).  `PromiseCorrect`: the server implements `Mailboxes` while
  friend messages do not come and the database does not fail, for texts and buffers of any length.  The mailboxes are the sets of what waits and what is
  in the table, so the steps depend on `BoxInv`: the messages that wait are distinct, none of them is in the
  table yet, all are chat messages with numbers that
  have been given out, and rows that are there have a text.
  The lemmas say what `StoredAll` and the sending of a user's rows, all or some of them, do to these sets:
  `StoredAllKept` that a message whose statement was carried out and that is not in the table has left one of its sender there,
  `TellingKept` that whatever rows are told, each message is told once.
  Assumptions: those of `MessageServer`; `UinAssumption` (finitely many users) is needed because the rows of
  a user are sent in some order.
* `ContactServerProof`.  `IInv` is about users who are not spoiled and pairs that have not crossed.
  `CountInv`: the count lacks only friends who are being served or still to be counted, each once;
  `TableInv`: the row is in the first table and its columns are the friends in order, up to the one who is to
  be written by the second half of an acceptance (`HalfInv`); `PairInv`: whoever is asked is not a friend yet, and
  is not asked twice; `SymmetryInv`: friends, and pairs that crossed, are so both ways.  None is
  inductive alone: a friend is written to the column after the count, so that the row is kept only if the
  count is right, and the count is right only if each friend of the row is counted once.
  `TypeCorrect` needs none of this; `ListCorrect`, `OnceCorrect` and `PromiseCorrect`
  (`Friendships`) follow from it.  For the details `RouteInv` says that `fdmap` has for each user the connection
  of his last request.
  Assumptions: those of `ContactServer`.  `SizeAssumption` has any number of tables, each with more columns
  than the one before; `NullAssumption` says that an absent row, request or socket is none.
* `ClientSessionProof`.  `CoreInv` is `TypeInv` (with `BudgetInv`: the requests of a command stay within the bound),
  `PhaseInv` (offline messages are asked for once, as the last thing of a login, and nothing is given
  up before), `LoginInv` (nobody is added in `ui_login`, so a foreign error is not taken there), `OwnInv` (as
  long as one can be sure of replies, `Sure`: no request was given up, and no foreign error has come or the
  login lasts, there is one request under way or one packet that answers it, `IsOwn`, and it is
  for the request that is waited for) and `BareInv` (only the reply to `CMD_OFFLINE_MSG` has messages).
  `ReplyCorrect` follows.  `ListCorrect` needs `ListInv`: until all messages of a sender have been read, the list the user
  saw is the beginning of that of now.  `OrderCorrect` needs `MapInv` (no sender is in the list
  twice, and each with his own messages) and `StoryInv`: for each sender, what was shown, filed, stored at the server, is in
  replies under way, and was put aside or is to be read, one after the other, are the numbers from 1 to the last he has
  sent.  Every step moves messages from one of these places to the next (`PairUp`, `Regroup`), or is the
  loss that `lost` records.  The lemmas are about `FlattenSeq`, `Those`, `File`, `FileAll` and `Unfile` and what they keep of the
  messages of one sender.
  Assumptions: `NobodyAssumption`, `BoundAssumption`, `ScriptAssumption`.

Every proof module stands on its own, so the lemmas on `FlattenSeq` and on recursive functions over
sequences (`Least`, `UpTo`: an induction on numbers, without an operator as parameter) are in more than one of them.

Every invariant of the runs that pass, and every action property and refinement of theirs, is a theorem.
Liveness and `ENABLED` are outside the prover's reach:
`SilentIsClosed`, `AllHandled`, `WaitingEnds`, `GoneIsOffline`, `LoginAnswered`, `ListsComplete`
and `MessagesArrive` are model-checked only, and the four violations are counterexamples of TLC.

## Not modelled

* A short write (`conn_network.c:414`) cuts a packet in the stream to the receiver; SIGPIPE
  (`conn_network.c:404`) has no handler; the end of another server's socket is a TODO in
  `error_handler`.  `ConnServer` has a full buffer but not these.
* The reuse of socket numbers by the kernel: a block of memory and its socket are one name in
  `ConnServer`.  It is the block whose reuse the code can get wrong.
* The end of the message server's connection to the status server, which it does not repair; a negative
  number of a receiver, which `message.c:308` lets through.
* The batches of `epoll_wait`: a read event that was harvested before `wait_for_write` turned the socket's read
  events off, in the same batch, is not handled in `ConnServer` (`Readable`) until the write event has come.
* What each caller leaves on the client's list of packets: `take_packets` takes all, as `wait_for_reply` does;
  `read_online_message` leaves what is no message, which is in `ClientSession` (`recv_list`).
* Logins during the restarts of the status server: `LoginSession` has its board, which
  `StatusServer` implements until a restart finds a user online.
* Queries that fail in the contact server; a `CMD_ADD_CONTACT_REPLY` that answers no request.
* The client's timer (`client.c:25`), which sends keep-alive packets each minute while the server
  waits for two: only a command of several requests, each of them answered late in its 30
  seconds, holds it up for so long.  After an SRV_ERROR its keep-alive packets are dropped too: that
  `ConnTimer` then closes the connection is not part of `ClientSession`, whose client goes on without replies.
* The simple client, which sends prepared packets; the framework, which forks the servers once;
  the HTML form of the registration page.
* Terminal I/O, logging, packet dumps, `list.h` and `uthash.h` (sequences, sets and functions
  here), database and network library calls (external, modelled by how they are used).

## Plan

1. Short writes: a byte level under `send_packet_list`, composed with `ClientReader`, to say
   what a client reads after a packet was cut.
2. `LoginSession` with a status server that restarts, in place of the board.
3. `ClientSession` between the message server and the user, so that `KeptInOrder` and `MailboxSpec` become
   one statement about a message from its sender to the screen.
4. A proof for the connection server's reader that says what it does with packets that arrive in two
   pieces, instead of excluding them.
