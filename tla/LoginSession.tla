---------------------------- MODULE LoginSession ----------------------------
(***************************************************************************)
(* Logging in and out, through three servers.  The connection server passes*)
(* CMD_LOGIN on to the user server, which tells the status server that the *)
(* user is online before the connection server has its verdict; that he is *)
(* offline the status server hears from the connection server, on another  *)
(* socket.  Each socket is a queue; nothing orders one with another.       *)
(*                                                                         *)
(* Of the connection server there is here what the switchboard shows (the  *)
(* line of each user; see Switchboard), and of the status server the board *)
(* (see StatusBoard): that the code implements these is checked elsewhere. *)
(***************************************************************************)
EXTENDS UserServer

CONSTANTS
    Member,     \* the users who have a client
    MaxTraffic  \* bound: packets on the way when a user signs in

ASSUME MemberAssumption == Member \subseteq Uin

ASSUME TrafficAssumption == MaxTraffic \in Nat

VARIABLES
    line,       \* connection server: how far each user has signed in
    offlines,   \* CMD_STATUS_CHANGE from there to the status server
    board,      \* status server: is the user shown online?
    right,      \* client: the password he has typed is right
    queued,     \* connection server: the nick in the last packet with one that
                \* it has put in the send queue of his connection
    crossed,    \* history: whose reports and verdicts may have crossed
    failed      \* history: whose nick the database has not stored, or not given

sessionVars == <<line, offlines, board, right, queued, crossed, failed>>
vars == <<userVars, sessionVars>>

TypeOK ==
    /\ UserTypeOK
    /\ line \in [Uin -> {"none", "incomplete", "ok", "error"}]
    /\ offlines \in Seq(Uin)
    /\ board \in [Uin -> BOOLEAN]
    /\ right \in [Uin -> BOOLEAN]
    /\ queued \in [Uin -> Nick \cup {NULL}]
    /\ crossed \in SUBSET Uin
    /\ failed \in SUBSET Uin

Init ==
    /\ UserInit
    /\ line = [u \in Uin |-> "none"]
    /\ offlines = <<>>
    /\ board = [u \in Uin |-> FALSE]
    /\ right = [u \in Uin |-> FALSE]
    /\ queued = [u \in Uin |-> NULL]
    /\ crossed = {}
    /\ failed = {}

\* What is on the way for a user.
LoginPending(u) ==
    \/ \E p \in ToSet(requests) : p.cmd = "CMD_LOGIN" /\ p.uin = u
    \/ \E p \in ToSet(replies) : p.cmd \in {"SRV_LOGIN_OK", "SRV_ERROR"} /\ p.uin = u
ReportPending(u) == u \in ToSet(onlines) \cup ToSet(offlines)
Settled(u) ==
    /\ ~ReportPending(u)
    /\ \A p \in ToSet(requests) \cup ToSet(replies) : p.uin # u

Traffic == Len(requests) + Len(replies) + Len(onlines) + Len(offlines)

-----------------------------------------------------------------------------
(* The connection server, for a user who has no other connection.          *)

\* cmd_login of the connection server.  History: once all is settled and he is
\* shown offline, what was crossed is over.
SignIn(u, isRight) ==
    /\ line[u] = "none"
    /\ Traffic < MaxTraffic
    /\ line' = [line EXCEPT ![u] = "incomplete"]
    /\ right' = [right EXCEPT ![u] = isRight]
    /\ requests' = Append(requests, [cmd |-> "CMD_LOGIN", uin |-> u, right |-> isRight])
    /\ crossed' = IF Settled(u) /\ ~board[u] THEN crossed \ {u} ELSE crossed
    /\ UNCHANGED <<table, running, outpack, replies, onlines, offlines, board, queued, failed>>

\* cmd_user.
SetNick(u, nick) ==
    /\ line[u] = "ok"
    /\ Traffic < MaxTraffic
    /\ requests' = Append(requests, [cmd |-> "CMD_SET_NICK", uin |-> u, nick |-> nick])
    /\ UNCHANGED <<table, running, outpack, replies, onlines, sessionVars>>

\* The connection ends.  History: when a login is not decided, or its report is
\* still on the way, what follows is up to chance.
Ended(u) ==
    /\ line' = [line EXCEPT ![u] = "none"]
    /\ queued' = [queued EXCEPT ![u] = NULL]
    /\ right' = [right EXCEPT ![u] = FALSE]
    /\ crossed' = IF LoginPending(u) \/ u \in ToSet(onlines)
                  THEN crossed \cup {u} ELSE crossed

\* Mutant: only a logout is reported, not the end of a connection.
HangUp_Silent(u) ==
    /\ line[u] # "none"
    /\ Ended(u)
    /\ UNCHANGED <<userVars, offlines, board, failed>>

\* cmd_logout or error_handler: the end of a connection is reported if the user
\* is logged in.
HangUp(u) ==
    /\ line[u] # "none"
    /\ Ended(u)
    /\ offlines' = IF line[u] = "ok" THEN Append(offlines, u) ELSE offlines
    /\ UNCHANGED <<userVars, board, failed>>

\* timer_expire_time closes the connection of a silent user; this is reported
\* in any case.
Expire(u) ==
    /\ line[u] # "none"
    /\ Ended(u)
    /\ offlines' = Append(offlines, u)
    /\ UNCHANGED <<userVars, board, failed>>

Deliver(p) == replies # <<>> /\ p = Head(replies) /\ replies' = Tail(replies)

\* Mutant: the packet is kept, not the nick in it.
srv_login_ok_Packet(p) ==
    /\ Deliver(p) /\ p.cmd = "SRV_LOGIN_OK"
    /\ IF line[p.uin] = "none" THEN UNCHANGED <<line, queued>>
       ELSE /\ line' = [line EXCEPT ![p.uin] = "ok"]
            /\ queued' = [queued EXCEPT ![p.uin] = p]
    /\ UNCHANGED <<table, running, outpack, requests, onlines, offlines, board, right,
                   crossed, failed>>

\* srv_login_ok.
srv_login_ok(p) ==
    /\ Deliver(p) /\ p.cmd = "SRV_LOGIN_OK"
    /\ IF line[p.uin] = "none" THEN UNCHANGED <<line, queued>>
       ELSE /\ line' = [line EXCEPT ![p.uin] = "ok"]
            /\ queued' = [queued EXCEPT ![p.uin] = p.nick]
    /\ UNCHANGED <<table, running, outpack, requests, onlines, offlines, board, right,
                   crossed, failed>>

\* srv_error.
srv_error(p) ==
    /\ Deliver(p) /\ p.cmd = "SRV_ERROR"
    /\ line' = [line EXCEPT ![p.uin] = IF @ = "none" THEN @ ELSE "error"]
    /\ UNCHANGED <<table, running, outpack, requests, onlines, offlines, board, right,
                   queued, crossed, failed>>

\* srv_other_packet.
srv_other_packet(p) ==
    /\ Deliver(p) /\ p.cmd = "SRV_SET_NICK_OK"
    /\ queued' = [queued EXCEPT ![p.uin] = IF line[p.uin] = "ok" THEN p.nick ELSE @]
    /\ UNCHANGED <<table, running, outpack, requests, onlines, line, offlines, board,
                   right, crossed, failed>>

\* SRV_ERROR of the contact server, which answers CMD_ADD_CONTACT with it and
\* sends it to the contact: whoever is logged in is no longer.
ContactError(u) ==
    /\ line[u] = "ok"
    /\ line' = [line EXCEPT ![u] = "error"]
    /\ crossed' = crossed \cup {u}
    /\ UNCHANGED <<userVars, offlines, board, right, queued, failed>>

-----------------------------------------------------------------------------
(* The status server: set_status.                                          *)

TakeOnline ==
    /\ onlines # <<>>
    /\ board' = [board EXCEPT ![Head(onlines)] = TRUE]
    /\ onlines' = Tail(onlines)
    /\ UNCHANGED <<table, running, outpack, requests, replies, line, offlines, right,
                   queued, crossed, failed>>

TakeOffline ==
    /\ offlines # <<>>
    /\ board' = [board EXCEPT ![Head(offlines)] = FALSE]
    /\ offlines' = Tail(offlines)
    /\ UNCHANGED <<userVars, line, right, queued, crossed, failed>>

-----------------------------------------------------------------------------
(* The user server.  History: a login is granted while the end of an earlier*)
(* session is still being reported; a nick is told that is not stored,     *)
(* because a statement has failed.                                         *)

Granted == Len(onlines') > Len(onlines)

UserStep ==
    /\ cmd_login \/ cmd_set_nick
    /\ crossed' = crossed \cup
            {u \in ToSet(offlines) : Granted /\ u = Head(requests).uin}
    /\ LET p == Head(requests)
           unstored == p.cmd = "CMD_SET_NICK"
                        /\ (user[p.uin] = NULL \/ user'[p.uin].nick # p.nick)
           unread == Granted /\ outpack' # user[p.uin].nick
       IN  failed' = IF unstored \/ unread THEN failed \cup {p.uin}
                     ELSE IF Granted \/ p.cmd = "CMD_SET_NICK"
                     THEN failed \ {p.uin} ELSE failed
    /\ UNCHANGED <<line, offlines, board, right, queued>>

Register ==
    /\ \E r \in Registrar :
        \/ select_max_uin(r)
        \/ \E password \in {"hash", "cut", "plain"} : insert_user(r, password)
    /\ UNCHANGED sessionVars

Replied ==
    \E p \in ToSet(replies) : srv_login_ok(p) \/ srv_error(p) \/ srv_other_packet(p)

Next ==
    \/ \E u \in Member :
        \/ \E isRight \in BOOLEAN : SignIn(u, isRight)
        \/ \E nick \in Nick : SetNick(u, nick)
        \/ HangUp(u)
        \/ Expire(u)
        \/ ContactError(u)
    \/ Replied
    \/ TakeOnline
    \/ TakeOffline
    \/ UserStep
    \/ Register

\* Each server handles what comes; whoever has begun to add an account goes on.
\* The numbers that the user server is asked to add come on the same socket as the
\* logins, so that finitely many are handled before a login: UserStep is disabled
\* while one is added, again and again, but does not starve.
Spec == Init /\ [][Next]_vars
FairSpec ==
    /\ Spec
    /\ WF_vars(Replied) /\ WF_vars(TakeOnline) /\ WF_vars(TakeOffline)
    /\ SF_vars(UserStep)
    /\ WF_vars(adding["server"] # NULL /\ Register /\ adding'["server"] = NULL)

-----------------------------------------------------------------------------
(* Properties.                                                             *)

\* When nothing about a user is on the way, his friends see him online exactly
\* if he is logged in (request_status_change, send_offline_to_status,
\* set_status), unless he hung up before his login was decided and reported, or
\* came back while his end was still being reported.
StatusIsTrue ==
    \A u \in Uin \ crossed : Settled(u) => (board[u] <=> line[u] = "ok")

\* Who is logged in has typed the password for this very connection
\* (passwd_verify, srv_login_ok), unless the verdict on an earlier connection of
\* his was still to come.
OkWasGranted == \A u \in Uin \ crossed : line[u] = "ok" => right[u]

\* The last nick that is queued for the connection of a logged-in user is the one
\* that is stored for him, when nothing of his is on the way (user_get_nick,
\* CMD_SET_NICK, srv_login_ok, srv_other_packet), whatever old answers came in
\* between, unless the statement failed that should have stored or read it.
NickAsTold ==
    \A u \in Uin \ failed :
        line[u] = "ok" /\ Settled(u) => queued[u] = user[u].nick

\* Whoever hangs up is shown offline in the end, unless he comes back or his
\* reports cross (close_connection, set_status).
GoneIsOffline ==
    \A u \in Uin : line[u] = "none" ~> ~board[u] \/ line[u] # "none" \/ u \in crossed

\* Every login is decided, while the user server lives (cmd_login, srv_login_ok,
\* srv_error).
LoginAnswered ==
    \A u \in Uin : line[u] = "incomplete" ~> line[u] # "incomplete" \/ ~running
=============================================================================
