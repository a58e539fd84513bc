---------------------------- MODULE ContactServer ----------------------------
(***************************************************************************)
(* The contact server (server/friend.c, server/friend_db.c), and what it   *)
(* leaves to the user server: to count the friends (user_friend_add).      *)
(*                                                                         *)
(* A user's friends are the first contact_count columns of his row in one  *)
(* of several tables, one for each size; the count itself, in the table    *)
(* user, says which table.  Whoever agrees to be a friend is written to    *)
(* the tables at once, and counted when the user server gets to it.        *)
(*                                                                         *)
(* One thread each: an action is the handling of one packet, but that of   *)
(* CMD_ADD_CONTACT_REPLY, which reads two counts, is two.                  *)
(***************************************************************************)
EXTENDS Integers, SequencesExt

CONSTANTS
    Uin,        \* the users
    Registered, \* those of them in the table user
    Size,       \* the columns of contact_1, contact_2, ... (50, 100, 200, 500, 999)
    TooLong,    \* the tables whose full rows are too long for query_str
    Con,        \* the sockets of the connection servers
    NULL,
    Failing,    \* the users for whose rows a statement may fail in the database
    Asking,     \* the pairs of users of whom the first may ask the second
    Asker,      \* the users who ask for lists and details
    MaxAccepts, \* bound: how often users agree
    MaxOpen     \* bound: requests that are not answered, of either kind

ASSUME UinAssumption == Uin \subseteq Nat \ {0} /\ Registered \subseteq Uin
ASSUME SizeAssumption ==
    /\ Size \in Seq(Nat \ {0}) /\ Size # <<>>
    /\ \A i, j \in DOMAIN Size : i < j => Size[i] < Size[j]
ASSUME TooLongAssumption == TooLong \subseteq DOMAIN Size
ASSUME FailingAssumption == Failing \subseteq Uin
ASSUME AskingAssumption == Asking \subseteq Registered \X Uin /\ Asker \subseteq Registered
ASSUME BoundAssumption == MaxAccepts \in Nat /\ MaxOpen \in Nat

VARIABLES
    contact_count,  \* table user: the column contact_count
    contact,        \* tables contact_1, ...: the row of each user, or NULL
    counters,       \* CMD_FRIEND_ADD on the way to the user server
    requests,       \* MSG_TYPE_REQUEST that users have not answered, by pair
    accepting,      \* a CMD_ADD_CONTACT_REPLY that is half done, or NULL
    running,        \* the process has not died
    fdmap,          \* the socket on which each user has last asked for details
    infos,          \* CMD_MULTI_STATUS on the way to the status server and back
    reply,          \* the packet that the last step wrote to a connection server
    origin,         \* history: the connection on which each has last asked for details
    accepted,       \* history: whom each user has got as a friend, in this order
    crossed,        \* history: pairs asked again before the first was settled
    spoiled         \* history: whose row was written by a count that was wrong

tables == <<contact_count, contact>>
history == <<accepted, crossed, spoiled>>
vars == <<tables, counters, requests, accepting, running, fdmap, infos, origin, reply,
          history>>

Class == DOMAIN Size

\* A column that was never written; one that was copied from memory that was
\* never written.
NoUin == 0
Junk == -1
Column == Uin \cup {NoUin, Junk}

\* What a user has in the tables.
Rows ==
    {row \in [Class -> UNION ({[1 .. Size[c] -> Column] : c \in Class} \cup {{NULL}})] :
        \A c \in Class : row[c] # NULL => row[c] \in [1 .. Size[c] -> Column]}

ASSUME NullAssumption ==
    /\ NULL \notin Nat /\ NULL \notin Uin \X Uin
    /\ \A c \in Class : NULL \notin [1 .. Size[c] -> Column]

TypeOK ==
    /\ contact_count \in [Uin -> Nat]
    /\ contact \in [Uin -> Rows]
    /\ counters \in Seq(Uin)
    /\ requests \in [Uin \X Uin -> Nat]
    /\ accepting \in (Uin \X Uin) \cup {NULL}
    /\ running \in BOOLEAN
    /\ {fdmap, origin} \subseteq [Uin -> Con \cup {NULL}]
    /\ infos \in Seq(Uin)
    /\ accepted \in [Uin -> Seq(Uin)]
    /\ crossed \subseteq Uin \X Uin
    /\ spoiled \subseteq Uin

NoReply == [cmd |-> "none"]

\* The tables as prepared.
Init ==
    /\ contact_count = [u \in Uin |-> 0]
    /\ contact = [u \in Uin |-> [c \in Class |-> NULL]]
    /\ counters = <<>>
    /\ requests = [p \in Uin \X Uin |-> 0]
    /\ accepting = NULL
    /\ running = TRUE
    /\ fdmap = [u \in Uin |-> NULL] /\ origin = [u \in Uin |-> NULL]
    /\ infos = <<>>
    /\ reply = NoReply
    /\ accepted = [u \in Uin |-> <<>>]
    /\ crossed = {}
    /\ spoiled = {}

-----------------------------------------------------------------------------
(* The tables.                                                             *)

\* Mutant: a full row is looked for in the next table.
TableFor_Below(num) ==
    LET fit == {c \in Class : num < Size[c]}
    IN  IF fit = {} THEN NULL ELSE CHOOSE c \in fit : \A d \in fit : c <= d

\* The first of the tables with room for so many friends, or NULL.
TableFor(num) ==
    LET fit == {c \in Class : num <= Size[c]}
    IN  IF fit = {} THEN NULL ELSE CHOOSE c \in fit : \A d \in fit : c <= d

\* get_friend_list: where there is no row the list stays as it was, unwritten.
get_friend_list(u, num) ==
    LET c == TableFor(num)
    IN  IF num = 0 THEN <<>>
        ELSE IF c = NULL \/ contact[u][c] = NULL THEN [i \in 1 .. num |-> Junk]
        ELSE [i \in 1 .. num |-> contact[u][c][i]]

Listed(u) == get_friend_list(u, contact_count[u])

\* Mutant: the columns are not initialised.
Insert_Short(row, c, friends) ==
    IF row[c] # NULL THEN row ELSE [row EXCEPT ![c] = friends]

\* insert into contact_c, which fails if the row is there.
Insert(row, c, friends) ==
    IF row[c] # NULL THEN row
    ELSE [row EXCEPT ![c] = [i \in 1 .. Size[c] |->
                                IF i <= Len(friends) THEN friends[i] ELSE NoUin]]

\* update contact_c, which fails if there is no such column, and does nothing
\* if there is no such row.
Update(row, c, column, f) ==
    IF row[c] = NULL \/ column > Size[c] THEN row
    ELSE [row EXCEPT ![c][column] = f]

Delete(row, c) == [row EXCEPT ![c] = NULL]

\* What may become of a statement that changes a row.  Queries do not fail here.
Tried(u, before, after) == IF u \in Failing THEN {before, after} ELSE {after}

\* friend_table_move: to table c + 1, unless there is a row already.  Then the
\* table to be updated is a variable that was never written: any or none.
Moved(u, c, f) ==
    LET copied == Insert(contact[u], c + 1, get_friend_list(u, Size[c]))
    IN  UNION {{row} \cup {Update(row, d, Size[c] + 1, f) : d \in Class} :
                    row \in Tried(u, copied, Delete(copied, c))}

\* friend_add_contact: what may become of the rows of u.
friend_add_contact(u, f) ==
    LET num == contact_count[u]
        row == contact[u]
        c == TableFor(num)
    IN  IF num = 0 THEN Tried(u, row, Insert(row, 1, <<f>>))
        ELSE IF num >= Last(Size) THEN {row}
        ELSE IF num < Size[c] THEN Tried(u, row, Update(row, c, num + 1, f))
        ELSE IF row[c + 1] # NULL THEN {row}
        ELSE Moved(u, c, f) \cup (IF u \in Failing THEN {row} ELSE {})

\* The row is full, and too long.
Overflows(u) ==
    \E c \in TooLong : contact_count[u] = Size[c] /\ Size[c] # Last(Size)

\* History: the count that friend_add_contact reads is not the number of
\* friends, or with it the row is moved; or nothing is written.
Spoils(u) ==
    \/ u \in ToSet(counters)
    \/ \E c \in Class : contact_count[u] = Size[c]
    \/ contact'[u] = contact[u]

Ready == running /\ accepting = NULL

-----------------------------------------------------------------------------
(* CMD_ADD_CONTACT.                                                        *)

\* Mutant: the list is not consulted.
check_friend_NoList(u, f) == IF f \notin Registered THEN {"not exist"} ELSE {"ok"}

\* check_friend: the outcomes that are possible.
check_friend(u, f) ==
    IF f \notin Registered THEN {"not exist"}
    ELSE IF f \in ToSet(Listed(u)) THEN {"already"}
    ELSE IF Junk \in ToSet(Listed(u)) THEN {"already", "ok"} ELSE {"ok"}

\* History: the two were asked before and have not settled.
Unsettled(u, f) ==
    \/ requests[<<u, f>>] + requests[<<f, u>>] > 0
    \/ u \in ToSet(counters) \cup spoiled
    \/ f \in ToSet(counters) \cup spoiled

unanswered == FoldFunction(+, 0, requests)

\* The error goes to the other one, not to the user who asked.
cmd_add_contact(u, f) ==
    /\ Ready
    /\ unanswered < MaxOpen
    /\ \E result \in check_friend(u, f) :
        IF result = "ok"
        THEN /\ requests' = [requests EXCEPT ![<<u, f>>] = @ + 1]
             /\ reply' = [cmd |-> "SRV_ADD_CONTACT_WAIT", uin |-> u]
             /\ crossed' = IF Unsettled(u, f)
                           THEN crossed \cup {<<u, f>>, <<f, u>>} ELSE crossed
        ELSE /\ reply' = [cmd |-> "SRV_ERROR", uin |-> f]
             /\ UNCHANGED <<requests, crossed>>
    /\ UNCHANGED <<tables, counters, accepting, running, fdmap, infos, origin, accepted,
                   spoiled>>

-----------------------------------------------------------------------------
(* CMD_ADD_CONTACT_REPLY: that u was asked and has requests waiting is not *)
(* tested; the client answers a MSG_TYPE_REQUEST.                          *)

Answered(u, f) ==
    /\ Ready
    /\ requests[<<u, f>>] > 0
    /\ requests' = [requests EXCEPT ![<<u, f>>] = @ - 1]

accepts == FoldFunction(LAMBDA q, n : Len(q) + n, 0, accepted) \div 2

\* What friend_add_contact does for one of the two.
Added(u, f) ==
    \E row \in friend_add_contact(u, f) :
        /\ contact' = [contact EXCEPT ![u] = row]
        /\ spoiled' = IF Spoils(u) \/ u = f THEN spoiled \cup {u} ELSE spoiled

\* The statement that moves the full row of w is longer than its buffer: it
\* overwrites the stack, and the process may die of it.
Smashed(w, u, f) ==
    /\ Overflows(w)
    /\ running' = FALSE
    /\ spoiled' = spoiled \cup {u, f}

\* Mutant: whoever refuses is added nevertheless.
refuse_Adds(u, f) ==
    /\ Answered(u, f)
    /\ Added(u, f)
    /\ counters' = Append(counters, u)
    /\ reply' = NoReply
    /\ UNCHANGED <<contact_count, accepting, running, fdmap, infos, origin, accepted, crossed>>

\* MSG_TYPE_REFUSE goes to the user who asked.
refuse(u, f) ==
    /\ Answered(u, f)
    /\ reply' = NoReply
    /\ UNCHANGED <<tables, counters, accepting, running, fdmap, infos, origin, history>>

\* MSG_TYPE_ACCEPT goes to the user who asked, and he is the first to be served.
accept(u, f) ==
    /\ Answered(u, f)
    /\ accepts < MaxAccepts
    /\ accepted' = IF u = f THEN [accepted EXCEPT ![u] = @ \o <<f, f>>]
                   ELSE [accepted EXCEPT ![u] = Append(@, f), ![f] = Append(@, u)]
    /\ \/ Smashed(u, u, f) /\ UNCHANGED <<contact, accepting>>
       \/ Added(u, f) /\ accepting' = <<u, f>> /\ UNCHANGED running
    /\ reply' = NoReply
    /\ UNCHANGED <<contact_count, counters, fdmap, infos, origin, crossed>>

\* Mutant: only one of the two is counted.
accept_other_One ==
    /\ running /\ accepting # NULL
    /\ LET u == accepting[1]
           f == accepting[2]
       IN  /\ Added(f, u)
           /\ counters' = Append(counters, u)
    /\ accepting' = NULL
    /\ reply' = NoReply
    /\ UNCHANGED <<contact_count, requests, running, fdmap, infos, origin, accepted,
                   crossed>>

\* Then the other is served, and change_friend_num has both counted, whatever
\* the tables have taken.
accept_other ==
    /\ running /\ accepting # NULL
    /\ LET u == accepting[1]
           f == accepting[2]
       IN  \/ Smashed(f, u, f) /\ UNCHANGED <<contact, counters>>
           \/ /\ Added(f, u)
              /\ counters' = counters \o <<u, f>>
              /\ UNCHANGED running
    /\ accepting' = NULL
    /\ reply' = NoReply
    /\ UNCHANGED <<contact_count, requests, fdmap, infos, origin, accepted, crossed>>

\* CMD_FRIEND_ADD in the user server: user_friend_add.
user_friend_add ==
    /\ counters # <<>>
    /\ LET u == Head(counters)
       IN  \/ /\ contact_count' = [contact_count EXCEPT ![u] = @ + 1]
              /\ UNCHANGED spoiled
           \/ /\ u \in Failing
              /\ spoiled' = spoiled \cup {u}
              /\ UNCHANGED contact_count
    /\ counters' = Tail(counters)
    /\ reply' = NoReply
    /\ UNCHANGED <<contact, requests, accepting, running, fdmap, infos, origin,
                   accepted, crossed>>

-----------------------------------------------------------------------------
(* Lists and details.                                                      *)

\* CMD_CONTACT_LIST.
cmd_contact_list(u) ==
    /\ Ready
    /\ reply' = [cmd |-> "SRV_CONTACT_LIST", uin |-> u, list |-> Listed(u)]
    /\ UNCHANGED <<tables, counters, requests, accepting, running, fdmap, infos, origin,
                   history>>

\* Mutant: the socket of the first request is kept.
cmd_contact_info_multi_First(u, con) ==
    /\ Ready
    /\ Len(infos) < MaxOpen
    /\ fdmap' = [fdmap EXCEPT ![u] = IF u \in ToSet(infos) THEN @ ELSE con]
    /\ origin' = [origin EXCEPT ![u] = con]
    /\ infos' = Append(infos, u)
    /\ reply' = NoReply
    /\ UNCHANGED <<tables, counters, requests, accepting, running, history>>

\* CMD_CONTACT_INFO_MULTI becomes CMD_MULTI_STATUS.  A user may ask again, on
\* another connection, before he has his answer.
cmd_contact_info_multi(u, con) ==
    /\ Ready
    /\ Len(infos) < MaxOpen
    /\ fdmap' = [fdmap EXCEPT ![u] = con]
    /\ origin' = [origin EXCEPT ![u] = con]
    /\ infos' = Append(infos, u)
    /\ reply' = NoReply
    /\ UNCHANGED <<tables, counters, requests, accepting, running, history>>

\* REP_MULTI_STATUS; get_contacts_info puts in the nicks.
rep_multi_status ==
    /\ Ready
    /\ infos # <<>>
    /\ reply' = [cmd |-> "SRV_CONTACT_INFO_MULTI", uin |-> Head(infos),
                 to |-> fdmap[Head(infos)]]
    /\ infos' = Tail(infos)
    /\ UNCHANGED <<tables, counters, requests, accepting, running, fdmap, origin, history>>

ListStep ==
    \/ \E p \in Asking :
        \/ cmd_add_contact(p[1], p[2])
        \/ accept(p[1], p[2])
        \/ refuse(p[1], p[2])
    \/ accept_other
    \/ user_friend_add
    \/ \E u \in Asker : cmd_contact_list(u)

DetailStep ==
    \/ \E u \in Asker, con \in Con : cmd_contact_info_multi(u, con)
    \/ rep_multi_status

Next == ListStep \/ DetailStep

\* Both servers handle what has come.
Spec == Init /\ [][Next]_vars
FairSpec == Spec /\ WF_vars(accept_other) /\ WF_vars(user_friend_add)

-----------------------------------------------------------------------------
(* Properties.                                                             *)

\* The list that a user is shown is that of the friends he has agreed with, in
\* this order, but for those that are still to be counted: the table that the
\* count leads to has just them (friend_add_contact, get_friend_list), unless
\* one was added on a count that was not up to date, or a row had to be moved.
ListIsFriends ==
    \A u \in Uin \ spoiled :
        LET uncounted == Cardinality({i \in DOMAIN counters : counters[i] = u})
                            + (IF accepting # NULL /\ u \in ToSet(accepting) THEN 1 ELSE 0)
        IN  Listed(u) = SubSeq(accepted[u], 1, Len(accepted[u]) - uncounted)

\* Nobody is in a list twice: check_friend refuses who is a friend already,
\* unless he was asked again before the first request was settled and counted.
EachOnce ==
    \A u \in Uin \ spoiled : \A i, j \in DOMAIN Listed(u) :
        i # j /\ Listed(u)[i] = Listed(u)[j] => <<u, Listed(u)[i]>> \in crossed

\* When users have stopped agreeing, all they have agreed with are in their lists
\* in the end, and stay there, unless a row was spoiled (change_friend_num,
\* user_friend_add).
ListsComplete ==
    \A u \in Registered : <>[](Listed(u) = accepted[u] \/ u \in spoiled)

\* While every count is up to date when it is used, no row is moved, no statement
\* fails and nobody is asked again while he is still asked, the server keeps its
\* promises.
Lists ==
    INSTANCE Friendships WITH
        invited <- {p \in Uin \X Uin : requests[p] > 0},
        agreed  <- {p \in Uin \X Uin : p[2] \in ToSet(accepted[p[1]])},
        list    <- [u \in Uin |-> Listed(u)],
        where   <- origin,
        awaited <- infos

FriendshipsSpec ==
    Lists!Init /\ [][spoiled' = {} /\ crossed' = {} => Lists!Next]_(Lists!vars)
=============================================================================
