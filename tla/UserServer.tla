----------------------------- MODULE UserServer -----------------------------
(***************************************************************************)
(* The user server (server/user.c, server/user_db.c): it verifies          *)
(* passwords, tells the status server who has logged in, changes nicks and *)
(* adds accounts.  The registration page (register/register.wsgi) is a     *)
(* process of its own that adds accounts to the same table.                *)
(*                                                                         *)
(* One thread each: an action is the handling of one packet, but for the   *)
(* two statements that add an account: the other process may come between. *)
(***************************************************************************)
EXTENDS Integers, SequencesExt

CONSTANTS
    Uin,        \* the numbers that accounts may have
    Nick,       \* the nicks
    NewNick,    \* the nick that accounts begin with
    NULL,
    DbMayFail   \* may a statement fail in the database?

ASSUME UinAssumption == Uin \subseteq Nat \ {0} /\ IsFiniteSet(Uin)
ASSUME NickAssumption == NewNick \in Nick
ASSUME FailAssumption == DbMayFail \in BOOLEAN

Registrar == {"server", "page"}

\* user_add answers (uint32_t) -1 when it fails, and nobody takes that for an
\* error.
NoAccount == -1

\* A row of the table user: its password is an MD5 hash, one with a zero byte
\* in it, or, as the page stores it, the password itself.
Row == [nick : Nick, password : {"hash", "cut", "plain"}, by : Registrar]
ASSUME NULLAssumption == NULL \notin Row /\ NULL \notin Nat

VARIABLES
    user,       \* the table user, by uin
    adding,     \* for each registrar: the max(uin) it has read, or NULL
    told,       \* the numbers that new users were told, and by whom
    running,    \* the server has not died
    outpack,    \* the nick in the buffer that replies are built in, NULL at first
    requests,   \* packets on the way from the connection server
    replies,    \* packets on the way back
    onlines     \* CMD_STATUS_CHANGE on the way to the status server

table == <<user, adding, told>>
userVars == <<table, running, outpack, requests, replies, onlines>>

Request ==
    [cmd : {"CMD_LOGIN"}, uin : Uin, right : BOOLEAN]
        \cup [cmd : {"CMD_SET_NICK"}, uin : Uin, nick : Nick]
Reply ==
    [cmd : {"SRV_LOGIN_OK", "SRV_SET_NICK_OK"}, uin : Uin, nick : Nick \cup {NULL}]
        \cup [cmd : {"SRV_ERROR"}, uin : Uin]

UserTypeOK ==
    /\ user \in [Uin -> Row \cup {NULL}]
    /\ adding \in [Registrar -> Nat \cup {NULL}]
    /\ told \in SUBSET [by : Registrar, uin : Uin \cup {NoAccount}]
    /\ running \in BOOLEAN
    /\ outpack \in Nick \cup {NULL}
    /\ requests \in Seq(Request)
    /\ replies \in Seq(Reply)
    /\ onlines \in Seq(Uin)

Account(password, by) == [nick |-> NewNick, password |-> password, by |-> by]

\* The tables as prepared, which are empty, or with some accounts.
UserInit ==
    /\ \E some \in SUBSET Uin :
        user = [u \in Uin |-> IF u \in some THEN Account("hash", "server") ELSE NULL]
    /\ adding = [r \in Registrar |-> NULL]
    /\ told = {}
    /\ running = TRUE
    /\ outpack = NULL
    /\ requests = <<>>
    /\ replies = <<>>
    /\ onlines = <<>>

-----------------------------------------------------------------------------
(* Packets of the connection server.                                       *)

\* The server is in epoll_wait.
Ready == running /\ adding["server"] = NULL

Pending(cmd) == Ready /\ requests # <<>> /\ Head(requests).cmd = cmd

\* Mutant: every password will do for an account that exists.
passwd_verify_Any(row, right) == IF row = NULL THEN {FALSE} ELSE {TRUE}

\* passwd_verify: user_get_passwd copies the column as a string, so that of a
\* hash with a zero byte only the beginning is compared with what it should be,
\* and the rest with what the stack held before.  If the query fails, so does it.
passwd_verify(row, right) ==
    IF row = NULL \/ ~right \/ row.password = "plain" THEN {FALSE}
    ELSE IF row.password = "hash" /\ ~DbMayFail THEN {TRUE} ELSE BOOLEAN

\* user_get_nick, whose result nobody tests: if the query fails the reply keeps
\* the nick of the one before it, which may have been another user's.
user_get_nick(uin) ==
    {user[uin].nick} \cup IF DbMayFail THEN {outpack} ELSE {}

Answer(p) == replies' = Append(replies, p)

AnswerNick(cmd, uin, nick) ==
    /\ Answer([cmd |-> cmd, uin |-> uin, nick |-> nick])
    /\ outpack' = nick

AnswerError(uin) ==
    /\ Answer([cmd |-> "SRV_ERROR", uin |-> uin])
    /\ UNCHANGED outpack

\* Mutant: the status server is told of a login to an account before it is verified.
cmd_login_Always ==
    /\ Pending("CMD_LOGIN")
    /\ LET p == Head(requests)
       IN  \E ok \in passwd_verify(user[p.uin], p.right) :
            /\ onlines' = IF user[p.uin] = NULL THEN onlines ELSE Append(onlines, p.uin)
            /\ IF ok THEN \E nick \in user_get_nick(p.uin) :
                                AnswerNick("SRV_LOGIN_OK", p.uin, nick)
               ELSE AnswerError(p.uin)
    /\ requests' = Tail(requests)
    /\ UNCHANGED <<table, running>>

\* Mutant: a wrong password is not answered.
cmd_login_NoError ==
    /\ Pending("CMD_LOGIN")
    /\ LET p == Head(requests)
       IN  \E ok \in passwd_verify(user[p.uin], p.right) :
            IF ok
            THEN /\ onlines' = Append(onlines, p.uin)
                 /\ \E nick \in user_get_nick(p.uin) :
                        AnswerNick("SRV_LOGIN_OK", p.uin, nick)
            ELSE UNCHANGED <<onlines, outpack, replies>>
    /\ requests' = Tail(requests)
    /\ UNCHANGED <<table, running>>

\* CMD_LOGIN, and request_status_change.
cmd_login ==
    /\ Pending("CMD_LOGIN")
    /\ LET p == Head(requests)
       IN  \E ok \in passwd_verify(user[p.uin], p.right) :
            IF ok
            THEN /\ onlines' = Append(onlines, p.uin)
                 /\ \E nick \in user_get_nick(p.uin) :
                        AnswerNick("SRV_LOGIN_OK", p.uin, nick)
            ELSE /\ AnswerError(p.uin)
                 /\ UNCHANGED onlines
    /\ requests' = Tail(requests)
    /\ UNCHANGED <<table, running>>

\* Mutant: the answer has the nick that was stored before.
cmd_set_nick_Old ==
    /\ Pending("CMD_SET_NICK")
    /\ LET p == Head(requests)
       IN  IF user[p.uin] = NULL
           THEN UNCHANGED <<user, outpack, replies>>
           ELSE /\ user' = [user EXCEPT ![p.uin].nick = p.nick]
                /\ AnswerNick("SRV_SET_NICK_OK", p.uin, user[p.uin].nick)
    /\ requests' = Tail(requests)
    /\ UNCHANGED <<adding, told, running, onlines>>

\* CMD_SET_NICK: whether or not the statement fails (user_set_nick), the answer
\* has the new nick.
cmd_set_nick ==
    /\ Pending("CMD_SET_NICK")
    /\ LET p == Head(requests)
       IN  /\ \/ user[p.uin] # NULL /\ user' = [user EXCEPT ![p.uin].nick = p.nick]
              \/ (user[p.uin] = NULL \/ DbMayFail) /\ UNCHANGED user
           /\ AnswerNick("SRV_SET_NICK_OK", p.uin, p.nick)
    /\ requests' = Tail(requests)
    /\ UNCHANGED <<adding, told, running, onlines>>

-----------------------------------------------------------------------------
(* New accounts.                                                           *)

Registered == {u \in Uin : user[u] # NULL}

\* An account that is not added.  The page shows an error; the server takes the
\* number (uint32_t) -1 for a good one and tells it to the user.
NotAdded(r) ==
    told' = IF r = "server" THEN told \cup {[by |-> r, uin |-> NoAccount]} ELSE told

\* user_add and create_account begin alike: select max(uin).  On an empty table
\* that is no number: atoi(NULL) is the end of the server, and the page gives up.
select_max_uin(r) ==
    /\ adding[r] = NULL
    /\ r = "server" => running
    /\ \/ /\ Registered = {}
          /\ r = "server"
          /\ running' = FALSE
          /\ UNCHANGED <<adding, told>>
       \/ \E max_uin \in Registered :
          /\ \A u \in Registered : u <= max_uin
          /\ max_uin + 1 \in Uin
          /\ adding' = [adding EXCEPT ![r] = max_uin]
          /\ UNCHANGED <<running, told>>
       \/ /\ DbMayFail
          /\ NotAdded(r)
          /\ UNCHANGED <<running, adding>>
    /\ UNCHANGED <<user, outpack, requests, replies, onlines>>

\* Mutant: the insert takes a number that is taken.
insert_user_Replace(r, password) ==
    /\ adding[r] # NULL
    /\ password = "plain" <=> r = "page"
    /\ user' = [user EXCEPT ![adding[r] + 1] = Account(password, r)]
    /\ told' = told \cup {[by |-> r, uin |-> adding[r] + 1]}
    /\ adding' = [adding EXCEPT ![r] = NULL]
    /\ UNCHANGED <<running, outpack, requests, replies, onlines>>

\* And they end alike, with the insert, which fails if the number has been taken
\* in the meantime.
insert_user(r, password) ==
    /\ adding[r] # NULL
    /\ password = "plain" <=> r = "page"
    /\ LET u == adding[r] + 1
       IN  \/ /\ user[u] = NULL
              /\ user' = [user EXCEPT ![u] = Account(password, r)]
              /\ told' = told \cup {[by |-> r, uin |-> u]}
           \/ /\ user[u] # NULL \/ DbMayFail
              /\ NotAdded(r)
              /\ UNCHANGED user
    /\ adding' = [adding EXCEPT ![r] = NULL]
    /\ UNCHANGED <<running, outpack, requests, replies, onlines>>

-----------------------------------------------------------------------------
(* Properties.                                                             *)

\* Whoever is told a number by one registrar has the account with that number,
\* and nobody else was told it: two registrars that read the same max(uin)
\* cannot both take the next (user_add, create_account).
OwnAccount ==
    \A t \in told :
        t.uin # NoAccount => user[t.uin] # NULL /\ user[t.uin].by = t.by
=============================================================================
