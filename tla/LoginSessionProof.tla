-------------------------- MODULE LoginSessionProof --------------------------
(***************************************************************************)
(* Proofs about LoginSession, for any number of users, accounts, nicks and *)
(* packets on the way.                                                     *)
(***************************************************************************)
EXTENDS LoginSession, SequenceTheorems, TLAPS

-----------------------------------------------------------------------------
(* Queues: whether packets of a kind are in one, and how many.             *)

NoneOf(q, A) == \A i \in DOMAIN q : q[i] \notin A
OneOf(q, A) == \A i, j \in DOMAIN q : q[i] \in A /\ q[j] \in A => i = j

LEMMA NoneInEmpty ==
    ASSUME NEW A PROVE NoneOf(<<>>, A) /\ OneOf(<<>>, A)
  BY DEF NoneOf, OneOf

LEMMA NoneIsOne ==
    ASSUME NEW q, NEW A, NoneOf(q, A) PROVE OneOf(q, A)
  BY DEF NoneOf, OneOf

LEMMA NoneOfSubset ==
    ASSUME NEW q, NEW A, NEW B, B \subseteq A, NoneOf(q, A) PROVE NoneOf(q, B)
  BY DEF NoneOf

LEMMA NoneInRange ==
    ASSUME NEW q, NEW A PROVE NoneOf(q, A) <=> \A x \in ToSet(q) : x \notin A
  BY DEF NoneOf, ToSet

LEMMA AppendQueue ==
    ASSUME NEW S, NEW q \in Seq(S), NEW x \in S, NEW A
    PROVE  /\ NoneOf(Append(q, x), A) <=> NoneOf(q, A) /\ x \notin A
           /\ OneOf(q, A) /\ (x \notin A \/ NoneOf(q, A)) => OneOf(Append(q, x), A)
<1> DEFINE r == Append(q, x)
<1>1. /\ DOMAIN q = 1 .. Len(q) /\ Len(q) \in Nat
      /\ DOMAIN r = 1 .. (Len(q) + 1)
      /\ \A i \in 1 .. Len(q) : r[i] = q[i]
      /\ r[Len(q) + 1] = x
  BY LenProperties, AppendProperties
<1> HIDE DEF r
<1>2. \A i \in DOMAIN r : i \in DOMAIN q \/ i = Len(q) + 1
  BY <1>1
<1>3. \A i \in DOMAIN q : i \in DOMAIN r /\ r[i] = q[i]
  BY <1>1
<1>4. Len(q) + 1 \in DOMAIN r
  BY <1>1
<1>5. QED BY <1>1, <1>2, <1>3, <1>4 DEF NoneOf, OneOf

LEMMA TailQueue ==
    ASSUME NEW S, NEW q \in Seq(S), q # <<>>, NEW A
    PROVE  /\ NoneOf(q, A) <=> Head(q) \notin A /\ NoneOf(Tail(q), A)
           /\ OneOf(q, A) =>
                OneOf(Tail(q), A) /\ (Head(q) \in A => NoneOf(Tail(q), A))
<1> DEFINE r == Tail(q)
<1>1. /\ DOMAIN q = 1 .. Len(q) /\ Len(q) \in Nat \ {0}
      /\ DOMAIN r = 1 .. (Len(q) - 1)
      /\ \A i \in 1 .. (Len(q) - 1) : r[i] = q[i + 1]
      /\ Head(q) = q[1]
  BY LenProperties, EmptySeq, HeadTailProperties
<1> HIDE DEF r
<1>2. \A i \in DOMAIN r : i + 1 \in DOMAIN q /\ r[i] = q[i + 1] /\ i + 1 # 1
  BY <1>1
<1>3. \A i \in DOMAIN q : i = 1 \/ (i - 1 \in DOMAIN r /\ r[i - 1] = q[i])
  BY <1>1
<1>4. 1 \in DOMAIN q
  BY <1>1
<1>5. \A i, j \in DOMAIN r : i + 1 = j + 1 => i = j
  BY <1>1
<1>6. NoneOf(q, A) <=> Head(q) \notin A /\ NoneOf(r, A)
  BY <1>1, <1>2, <1>3, <1>4 DEF NoneOf
<1>7. OneOf(q, A) => OneOf(r, A)
  BY <1>2, <1>5 DEF OneOf
<1>8. OneOf(q, A) /\ Head(q) \in A => NoneOf(r, A)
  BY <1>1, <1>2, <1>4 DEF OneOf, NoneOf
<1>9. QED BY <1>6, <1>7, <1>8 DEF r

-----------------------------------------------------------------------------
(* Types.                                                                  *)

\* The next number was looked for, and is one that an account may have.
NumberInv == \A r \in Registrar : adding[r] # NULL => adding[r] + 1 \in Uin

TypeInv == TypeOK /\ NumberInv

LEMMA AccountType ==
    ASSUME NEW password \in {"hash", "cut", "plain"}, NEW r \in Registrar
    PROVE  Account(password, r) \in Row
  BY NickAssumption DEF Account, Row

LEMMA TypeInit == Init => TypeInv
<1> SUFFICES ASSUME Init PROVE TypeInv
  OBVIOUS
<1>1. user \in [Uin -> Row \cup {NULL}]
  BY AccountType DEF Init, UserInit, Registrar
<1>2. QED BY <1>1 DEF Init, UserInit, TypeInv, TypeOK, UserTypeOK, NumberInv

\* What is sent.
LEMMA PacketType ==
    ASSUME NEW u \in Uin, NEW nick \in Nick \cup {NULL}, NEW b \in BOOLEAN
    PROVE  /\ [cmd |-> "CMD_LOGIN", uin |-> u, right |-> b] \in Request
           /\ nick \in Nick => [cmd |-> "CMD_SET_NICK", uin |-> u, nick |-> nick] \in Request
           /\ [cmd |-> "SRV_LOGIN_OK", uin |-> u, nick |-> nick] \in Reply
           /\ [cmd |-> "SRV_SET_NICK_OK", uin |-> u, nick |-> nick] \in Reply
           /\ [cmd |-> "SRV_ERROR", uin |-> u] \in Reply
  BY DEF Request, Reply

\* What is received.
LEMMA RequestFields ==
    ASSUME NEW p \in Request
    PROVE  /\ p.uin \in Uin
           /\ p.cmd = "CMD_LOGIN" => p.right \in BOOLEAN
           /\ p.cmd = "CMD_SET_NICK" => p.nick \in Nick
  BY DEF Request

LEMMA ReplyFields ==
    ASSUME NEW p \in Reply
    PROVE  /\ p.uin \in Uin
           /\ p.cmd \in {"SRV_LOGIN_OK", "SRV_SET_NICK_OK"} => p.nick \in Nick \cup {NULL}
  BY DEF Reply

\* The client and the connection server.
LEMMA ClientType ==
    ASSUME TypeInv, NEW u \in Member,
           \/ \E isRight \in BOOLEAN : SignIn(u, isRight)
           \/ \E nick \in Nick : SetNick(u, nick)
           \/ HangUp(u)
           \/ Expire(u)
           \/ ContactError(u)
    PROVE  TypeInv'
<1> USE DEF TypeInv, TypeOK, UserTypeOK, NumberInv, table
<1>1. u \in Uin
  BY MemberAssumption
<1>2. ASSUME NEW isRight \in BOOLEAN, SignIn(u, isRight) PROVE TypeInv'
  <2>1. requests' \in Seq(Request)
    BY <1>1, <1>2, PacketType, AppendProperties, NickAssumption DEF SignIn
  <2>2. QED BY <1>1, <1>2, <2>1 DEF SignIn
<1>3. ASSUME NEW nick \in Nick, SetNick(u, nick) PROVE TypeInv'
  <2>1. requests' \in Seq(Request)
    BY <1>1, <1>3, PacketType, AppendProperties DEF SetNick
  <2>2. QED BY <1>3, <2>1 DEF SetNick, sessionVars
<1>4. ASSUME HangUp(u) \/ Expire(u) PROVE TypeInv'
  <2>1. offlines' \in Seq(Uin)
    <3>1. offlines \in Seq(Uin) /\ Append(offlines, u) \in Seq(Uin)
      BY <1>1, AppendProperties
    <3>2. offlines' \in {offlines, Append(offlines, u)}
      BY <1>4 DEF HangUp, Expire
    <3>3. QED BY <3>1, <3>2
  <2>2. QED BY <1>1, <1>4, <2>1 DEF HangUp, Expire, Ended, userVars
<1>5. ASSUME ContactError(u) PROVE TypeInv'
  BY <1>1, <1>5 DEF ContactError, userVars
<1>6. QED BY <1>2, <1>3, <1>4, <1>5

LEMMA ReplyType ==
    ASSUME TypeInv, Replied
    PROVE  TypeInv'
<1> USE DEF TypeInv, TypeOK, UserTypeOK, NumberInv, table
<1>1. PICK p \in ToSet(replies) :
        srv_login_ok(p) \/ srv_error(p) \/ srv_other_packet(p)
  BY DEF Replied
<1>2. /\ replies # <<>> /\ p = Head(replies) /\ replies' = Tail(replies)
      /\ p \in Reply /\ replies' \in Seq(Reply)
  <2>1. Deliver(p)
    BY <1>1 DEF srv_login_ok, srv_error, srv_other_packet
  <2>2. replies \in Seq(Reply) /\ replies # <<>>
    BY <2>1 DEF Deliver
  <2>3. Head(replies) \in Reply /\ Tail(replies) \in Seq(Reply)
    BY <2>2, HeadTailProperties
  <2>4. QED BY <2>1, <2>3 DEF Deliver
<1>3. CASE srv_login_ok(p)
  BY <1>2, <1>3, ReplyFields DEF srv_login_ok
<1>4. CASE srv_error(p)
  BY <1>2, <1>4, ReplyFields DEF srv_error
<1>5. CASE srv_other_packet(p)
  BY <1>2, <1>5, ReplyFields DEF srv_other_packet
<1>6. QED BY <1>1, <1>3, <1>4, <1>5

LEMMA StatusType ==
    ASSUME TypeInv, TakeOnline \/ TakeOffline
    PROVE  TypeInv'
<1> USE DEF TypeInv, TypeOK, UserTypeOK, NumberInv, table
<1>1. CASE TakeOnline
  BY <1>1, HeadTailProperties DEF TakeOnline
<1>2. CASE TakeOffline
  BY <1>2, HeadTailProperties DEF TakeOffline, userVars
<1>3. QED BY <1>1, <1>2

\* A password is right only for an account.
LEMMA VerifiedIsRight ==
    ASSUME TypeOK, NEW p \in Request, p.cmd = "CMD_LOGIN",
           NEW ok \in passwd_verify(user[p.uin], p.right), ok
    PROVE  p.right /\ user[p.uin] \in Row
<1>1. p.uin \in Uin
  BY RequestFields
<1>2. user[p.uin] # NULL /\ p.right
  BY DEF passwd_verify
<1>3. QED BY <1>1, <1>2 DEF TypeOK, UserTypeOK

LEMMA NickOfRow ==
    ASSUME NEW row \in Row, NEW nick \in Nick
    PROVE  row.nick \in Nick /\ [row EXCEPT !.nick = nick] \in Row
  BY DEF Row

\* What cmd_login makes of its request: a verdict, a report if it is granted, and
\* the nick that is then in the reply buffer.
LEMMA LoginAnswer ==
    ASSUME TypeOK, cmd_login, NEW p \in Request, p = Head(requests)
    PROVE  /\ p.cmd = "CMD_LOGIN" /\ p.uin \in Uin
           /\ outpack' \in Nick \cup {NULL}
           /\ \E ok \in BOOLEAN, x \in Reply :
                /\ replies' = Append(replies, x) /\ x.uin = p.uin
                /\ ok => /\ x.cmd = "SRV_LOGIN_OK" /\ x.nick = outpack'
                         /\ onlines' = Append(onlines, p.uin)
                         /\ p.right /\ user[p.uin] \in Row
                /\ ~ok => /\ x.cmd = "SRV_ERROR"
                          /\ UNCHANGED <<onlines, outpack>>
<1>1. p.cmd = "CMD_LOGIN" /\ p.uin \in Uin
  BY RequestFields DEF cmd_login, Pending
<1>2. PICK ok \in passwd_verify(user[p.uin], p.right) :
        IF ok
        THEN /\ onlines' = Append(onlines, p.uin)
             /\ \E nick \in user_get_nick(p.uin) :
                    AnswerNick("SRV_LOGIN_OK", p.uin, nick)
        ELSE /\ AnswerError(p.uin)
             /\ UNCHANGED onlines
  BY DEF cmd_login
<1>3. ok \in BOOLEAN /\ outpack \in Nick \cup {NULL}
  BY DEF passwd_verify, TypeOK, UserTypeOK
<1>4. CASE ok
  <2>1. p.right /\ user[p.uin] \in Row
    BY <1>1, <1>4, VerifiedIsRight
  <2>2. PICK nick \in user_get_nick(p.uin) : AnswerNick("SRV_LOGIN_OK", p.uin, nick)
    BY <1>2, <1>4
  <2>3. nick \in Nick \cup {NULL}
    BY <1>3, <2>1, NickOfRow, NickAssumption DEF user_get_nick
  <2>4. PICK x : x = [cmd |-> "SRV_LOGIN_OK", uin |-> p.uin, nick |-> nick]
    OBVIOUS
  <2>5. x \in Reply /\ replies' = Append(replies, x) /\ outpack' = nick
    BY <1>1, <2>2, <2>3, <2>4, PacketType DEF AnswerNick, Answer
  <2>6. x.cmd = "SRV_LOGIN_OK" /\ x.uin = p.uin /\ x.nick = nick
    BY <2>4
  <2>7. onlines' = Append(onlines, p.uin)
    BY <1>2, <1>4
  <2>8. QED BY <1>1, <1>3, <1>4, <2>1, <2>3, <2>5, <2>6, <2>7
<1>5. CASE ~ok
  <2>1. PICK x : x = [cmd |-> "SRV_ERROR", uin |-> p.uin]
    OBVIOUS
  <2>2. x \in Reply /\ x.cmd = "SRV_ERROR" /\ x.uin = p.uin
    BY <1>1, <2>1, PacketType
  <2>3. replies' = Append(replies, x) /\ UNCHANGED <<onlines, outpack>>
    BY <1>2, <1>5, <2>1 DEF AnswerError, Answer
  <2>4. QED BY <1>1, <1>3, <1>5, <2>2, <2>3
<1>6. QED BY <1>4, <1>5

\* What cmd_set_nick makes of its request.
LEMMA SetNickAnswer ==
    ASSUME TypeOK, cmd_set_nick, NEW p \in Request, p = Head(requests)
    PROVE  /\ p.cmd = "CMD_SET_NICK" /\ p.uin \in Uin /\ p.nick \in Nick
           /\ outpack' = p.nick
           /\ \E x \in Reply :
                /\ replies' = Append(replies, x) /\ x.uin = p.uin
                /\ x.cmd = "SRV_SET_NICK_OK" /\ x.nick = p.nick
<1>1. p.cmd = "CMD_SET_NICK" /\ p.uin \in Uin /\ p.nick \in Nick
  BY RequestFields DEF cmd_set_nick, Pending
<1>2. AnswerNick("SRV_SET_NICK_OK", p.uin, p.nick)
  BY DEF cmd_set_nick
<1>3. PICK x : x = [cmd |-> "SRV_SET_NICK_OK", uin |-> p.uin, nick |-> p.nick]
  OBVIOUS
<1>4. x \in Reply /\ replies' = Append(replies, x) /\ outpack' = p.nick
  BY <1>1, <1>2, <1>3, PacketType DEF AnswerNick, Answer
<1>5. x.cmd = "SRV_SET_NICK_OK" /\ x.uin = p.uin /\ x.nick = p.nick
  BY <1>3
<1>6. QED BY <1>1, <1>4, <1>5

LEMMA UserType ==
    ASSUME TypeInv, UserStep
    PROVE  TypeInv'
<1> DEFINE p == Head(requests)
<1>1. requests # <<>> /\ p \in Request /\ requests' = Tail(requests)
      /\ requests' \in Seq(Request)
  <2>1. requests # <<>> /\ requests' = Tail(requests)
    BY DEF UserStep, cmd_login, cmd_set_nick, Pending
  <2>2. requests \in Seq(Request)
    BY DEF TypeInv, TypeOK, UserTypeOK
  <2>3. QED BY <2>1, <2>2, HeadTailProperties
<1>2. p.uin \in Uin
  BY <1>1, RequestFields
<1>3. /\ crossed' \in SUBSET Uin /\ failed' \in SUBSET Uin
      /\ UNCHANGED <<line, offlines, board, right, queued>>
  BY <1>2 DEF UserStep, TypeInv, TypeOK
<1>4. replies' \in Seq(Reply) /\ onlines' \in Seq(Uin) /\ outpack' \in Nick \cup {NULL}
  <2>1. onlines \in Seq(Uin) /\ replies \in Seq(Reply)
    BY DEF TypeInv, TypeOK, UserTypeOK
  <2> HIDE DEF p
  <2>2. CASE cmd_login
    <3>1. onlines' \in {onlines, Append(onlines, p.uin)} /\ outpack' \in Nick \cup {NULL}
      BY <1>1, <2>2, LoginAnswer DEF TypeInv, p
    <3>2. \E x \in Reply : replies' = Append(replies, x)
      BY <1>1, <2>2, LoginAnswer DEF TypeInv, p
    <3>3. QED BY <1>2, <2>1, <3>1, <3>2, AppendProperties
  <2>3. CASE cmd_set_nick
    <3>1. onlines' = onlines /\ outpack' \in Nick \cup {NULL}
      BY <1>1, <2>3, SetNickAnswer DEF cmd_set_nick, TypeInv, p
    <3>2. \E x \in Reply : replies' = Append(replies, x)
      BY <1>1, <2>3, SetNickAnswer DEF TypeInv, p
    <3>3. QED BY <2>1, <3>1, <3>2, AppendProperties
  <2>4. QED BY <2>2, <2>3 DEF UserStep
<1>5. user' \in [Uin -> Row \cup {NULL}] /\ UNCHANGED <<adding, told, running>>
  <2>1. CASE cmd_login
    BY <2>1 DEF cmd_login, table, TypeInv, TypeOK, UserTypeOK
  <2>2. CASE cmd_set_nick
    <3>1. p.nick \in Nick
      BY <1>1, <2>2, RequestFields DEF cmd_set_nick, Pending
    <3>2. UNCHANGED <<adding, told, running>>
      BY <2>2 DEF cmd_set_nick
    <3>3. user' = user \/ (user[p.uin] # NULL /\ user' = [user EXCEPT ![p.uin].nick = p.nick])
      BY <2>2 DEF cmd_set_nick
    <3>4. user \in [Uin -> Row \cup {NULL}]
      BY DEF TypeInv, TypeOK, UserTypeOK
    <3> HIDE DEF p
    <3>5. QED BY <1>2, <3>1, <3>2, <3>3, <3>4, NickOfRow
  <2>3. QED BY <2>1, <2>2 DEF UserStep
<1>6. QED BY <1>1, <1>3, <1>4, <1>5 DEF TypeInv, TypeOK, UserTypeOK, NumberInv

LEMMA RegisterType ==
    ASSUME TypeInv, Register
    PROVE  TypeInv'
<1> USE DEF TypeInv, TypeOK, UserTypeOK, NumberInv, sessionVars
<1>1. PICK r \in Registrar :
        \/ select_max_uin(r)
        \/ \E password \in {"hash", "cut", "plain"} : insert_user(r, password)
  BY DEF Register
<1>2. NotAdded(r) \/ told' = told => told' \in SUBSET [by : Registrar, uin : Uin \cup {NoAccount}]
  BY DEF NotAdded
<1>3. CASE select_max_uin(r)
  <2>1. \/ UNCHANGED <<adding, told>> /\ running' = FALSE
        \/ UNCHANGED <<running, told>> /\ \E n \in Registered :
                n + 1 \in Uin /\ adding' = [adding EXCEPT ![r] = n]
        \/ UNCHANGED <<running, adding>> /\ NotAdded(r)
    BY <1>3 DEF select_max_uin
  <2>2. told' \in SUBSET [by : Registrar, uin : Uin \cup {NoAccount}]
    BY <2>1, <1>2
  <2>3. /\ adding' \in [Registrar -> Nat \cup {NULL}]
        /\ \A q \in Registrar : adding'[q] # NULL => adding'[q] + 1 \in Uin
    <3>1. Registered \subseteq Nat
      BY UinAssumption DEF Registered
    <3>2. CASE adding' = adding
      BY <3>2
    <3>3. ASSUME NEW n \in Registered, n + 1 \in Uin, adding' = [adding EXCEPT ![r] = n]
          PROVE  /\ adding' \in [Registrar -> Nat \cup {NULL}]
                 /\ \A q \in Registrar : adding'[q] # NULL => adding'[q] + 1 \in Uin
      BY <3>1, <3>3
    <3>4. QED BY <2>1, <3>2, <3>3
  <2>4. running' \in BOOLEAN /\ UNCHANGED <<user, outpack, requests, replies, onlines>>
    BY <1>3, <2>1 DEF select_max_uin
  <2>5. QED BY <2>2, <2>3, <2>4 DEF Register
<1>4. CASE \E password \in {"hash", "cut", "plain"} : insert_user(r, password)
  <2>1. PICK password \in {"hash", "cut", "plain"} : insert_user(r, password)
    BY <1>4
  <2>2. adding[r] + 1 \in Uin
    BY <2>1 DEF insert_user
  <2>3. user' \in [Uin -> Row \cup {NULL}]
    <3>1. Account(password, r) \in Row
      BY <2>1, AccountType
    <3>2. user' = user \/ user' = [user EXCEPT ![adding[r] + 1] = Account(password, r)]
      BY <2>1 DEF insert_user
    <3>3. QED BY <2>2, <3>1, <3>2
  <2>4. told' \in SUBSET [by : Registrar, uin : Uin \cup {NoAccount}]
    <3>1. NotAdded(r) \/ told' = told \cup {[by |-> r, uin |-> adding[r] + 1]}
      BY <2>1 DEF insert_user
    <3>2. QED BY <1>2, <2>2, <3>1
  <2>5. QED BY <2>1, <2>3, <2>4 DEF insert_user, Register
<1>5. QED BY <1>1, <1>3, <1>4

LEMMA TypeNext ==
    ASSUME TypeInv, [Next]_vars
    PROVE  TypeInv'
<1>1. CASE UNCHANGED vars
  BY <1>1 DEF TypeInv, TypeOK, UserTypeOK, NumberInv, vars, userVars, table, sessionVars
<1>2. CASE Next
  BY <1>2, ClientType, ReplyType, StatusType, UserType, RegisterType DEF Next
<1>3. QED BY <1>1, <1>2

\* The variables of the login keep their types, for any number of users and of
\* packets on the way.
THEOREM TypeCorrect == Spec => []TypeOK
<1>1. Spec => []TypeInv
  BY TypeInit, TypeNext, PTL DEF Spec
<1>2. TypeInv => TypeOK
  BY DEF TypeInv
<1>3. QED BY <1>1, <1>2, PTL

-----------------------------------------------------------------------------
(* Accounts.                                                               *)

LEMMA AccountStep ==
    ASSUME TypeInv, OwnAccount, [Next]_vars
    PROVE  OwnAccount'
<1>1. CASE UNCHANGED <<user, told>>
  BY <1>1 DEF OwnAccount
<1>2. ASSUME NEW r \in Registrar, NEW password \in {"hash", "cut", "plain"},
             insert_user(r, password)
      PROVE  OwnAccount'
  <2> DEFINE n == adding[r] + 1
  <2>1. n \in Uin /\ user \in [Uin -> Row \cup {NULL}]
    BY <1>2 DEF insert_user, TypeInv, TypeOK, UserTypeOK, NumberInv
  <2>2. n # NoAccount
    BY <2>1, UinAssumption DEF NoAccount
  <2>3. CASE /\ user[n] = NULL
             /\ user' = [user EXCEPT ![n] = Account(password, r)]
             /\ told' = told \cup {[by |-> r, uin |-> n]}
    <3>1. user'[n].by = r /\ user'[n] # NULL
      <4>1. Account(password, r) \in Row /\ Account(password, r).by = r
        BY AccountType DEF Account
      <4>2. user'[n] = Account(password, r)
        BY <2>1, <2>3
      <4>3. QED BY <4>1, <4>2, NULLAssumption
    <3>2. QED BY <2>1, <2>3, <3>1 DEF OwnAccount
  <2>4. CASE user' = user /\ NotAdded(r)
    BY <2>4 DEF OwnAccount, NotAdded
  <2>5. QED BY <1>2, <2>3, <2>4 DEF insert_user
<1>3. ASSUME cmd_set_nick PROVE OwnAccount'
  <2> DEFINE u == Head(requests).uin
             nick == Head(requests).nick
  <2>1. told' = told
    BY <1>3 DEF cmd_set_nick
  <2>2. user' = user \/ (user[u] # NULL /\ user' = [user EXCEPT ![u].nick = nick])
    BY <1>3 DEF cmd_set_nick
  <2>3. Head(requests) \in Request
    BY <1>3, HeadTailProperties
    DEF cmd_set_nick, Pending, TypeInv, TypeOK, UserTypeOK
  <2>4. u \in Uin /\ nick \in Nick
    BY <1>3, <2>3, RequestFields DEF cmd_set_nick, Pending
  <2>5. \A v \in Uin : user[v] # NULL => user'[v] # NULL /\ user'[v].by = user[v].by
    <3>1. \A v \in Uin : user[v] # NULL => user[v] \in Row
      BY DEF TypeInv, TypeOK, UserTypeOK
    <3>2. user \in [Uin -> Row \cup {NULL}]
      BY DEF TypeInv, TypeOK, UserTypeOK
    <3>3. \A row \in Row : [row EXCEPT !.nick = nick] \in Row
                            /\ [row EXCEPT !.nick = nick].by = row.by
      BY <2>4 DEF Row
    <3> HIDE DEF u, nick
    <3>4. SUFFICES ASSUME NEW v \in Uin, user[v] # NULL
                   PROVE  user'[v] # NULL /\ user'[v].by = user[v].by
      OBVIOUS
    <3>5. CASE user' = user
      BY <3>4, <3>5
    <3>6. CASE user' = [user EXCEPT ![u].nick = nick] /\ v # u
      <4>1. user'[v] = user[v]
        BY <3>2, <3>6
      <4>2. QED BY <3>4, <4>1
    <3>7. CASE user' = [user EXCEPT ![u].nick = nick] /\ v = u
      <4>1. user'[v] = [user[v] EXCEPT !.nick = nick]
        BY <2>4, <3>2, <3>7
      <4>2. QED BY <3>1, <3>3, <3>4, <4>1, NULLAssumption
    <3>8. QED BY <2>2, <3>5, <3>6, <3>7
  <2>6. \A t \in told : t.uin # NoAccount => t.uin \in Uin
    BY DEF TypeInv, TypeOK, UserTypeOK
  <2>7. QED BY <2>1, <2>5, <2>6 DEF OwnAccount
<1>4. ASSUME NEW r \in Registrar, select_max_uin(r) PROVE OwnAccount'
  <2>1. user' = user /\ (told' = told \/ NotAdded(r))
    BY <1>4 DEF select_max_uin
  <2>2. QED BY <2>1 DEF OwnAccount, NotAdded
<1>5. ASSUME UserStep PROVE OwnAccount'
  BY <1>1, <1>3, <1>5 DEF UserStep, cmd_login, table
<1>6. ASSUME NEW u \in Member,
             \/ \E isRight \in BOOLEAN : SignIn(u, isRight)
             \/ \E nick \in Nick : SetNick(u, nick)
             \/ HangUp(u) \/ Expire(u) \/ ContactError(u)
      PROVE  OwnAccount'
  BY <1>1, <1>6 DEF SignIn, SetNick, HangUp, Expire, ContactError, userVars, table
<1>7. ASSUME Replied \/ TakeOnline \/ TakeOffline PROVE OwnAccount'
  BY <1>1, <1>7 DEF Replied, TakeOnline, TakeOffline, srv_login_ok, srv_error,
                    srv_other_packet, userVars, table
<1>8. QED BY <1>1, <1>2, <1>4, <1>5, <1>6, <1>7 DEF Next, Register, vars, userVars, table

\* Whoever is told a number has that account: of the server and the page, which
\* read max(uin) and insert in two steps, never two give out one number.
THEOREM AccountCorrect == Spec => []OwnAccount
<1>1. Init => OwnAccount
  BY DEF Init, UserInit, OwnAccount
<1>2. Spec => []TypeInv
  BY TypeInit, TypeNext, PTL DEF Spec
<1>3. TypeInv /\ OwnAccount /\ [Next]_vars => OwnAccount'
  BY AccountStep
<1>4. QED BY <1>1, <1>2, <1>3, PTL DEF Spec

-----------------------------------------------------------------------------
(* Sessions.  The packets of the login of a user, and those of them by which*)
(* he is let in, or which have another password than he has typed last.    *)

Logins(u) == {p \in Request : p.cmd = "CMD_LOGIN" /\ p.uin = u}
Wrong(u) == {p \in Logins(u) : p.right # right[u]}
Verdicts(u) == {p \in Reply : p.cmd \in {"SRV_LOGIN_OK", "SRV_ERROR"} /\ p.uin = u}
Grants(u) == {p \in Verdicts(u) : p.cmd = "SRV_LOGIN_OK"}

\* He is logged in, or will be when the verdict arrives.
IsGranted(u) == line[u] = "ok" \/ ~NoneOf(replies, Grants(u))

\* One login is under way, as a request or as a verdict, and only while the
\* connection waits for it.
VerdictInv(u) ==
    /\ OneOf(requests, Logins(u)) /\ OneOf(replies, Verdicts(u))
    /\ NoneOf(requests, Logins(u)) \/ NoneOf(replies, Verdicts(u))
    /\ line[u] # "incomplete" =>
            NoneOf(requests, Logins(u)) /\ NoneOf(replies, Verdicts(u))

\* Of his reports only those are on the way that say what he is.
ReportInv(u) ==
    /\ IsGranted(u) =>
            NoneOf(offlines, {u}) /\ (NoneOf(onlines, {u}) => board[u])
    /\ ~IsGranted(u) =>
            NoneOf(onlines, {u}) /\ (NoneOf(offlines, {u}) => ~board[u])

PasswordInv(u) ==
    /\ NoneOf(requests, Wrong(u))
    /\ IsGranted(u) => right[u]

UserInv(u) == VerdictInv(u) /\ ReportInv(u) /\ PasswordInv(u)
SessionInv == \A u \in Uin \ crossed : UserInv(u)

LEMMA NotPending ==
    ASSUME TypeInv, NEW u \in Uin
    PROVE  ~LoginPending(u) <=>
                NoneOf(requests, Logins(u)) /\ NoneOf(replies, Verdicts(u))
<1>1. /\ \A p \in ToSet(requests) : p \in Request
      /\ \A p \in ToSet(replies) : p \in Reply
  BY DEF TypeInv, TypeOK, UserTypeOK, ToSet
<1>2. NoneOf(requests, Logins(u)) <=> \A p \in ToSet(requests) : p \notin Logins(u)
  BY NoneInRange
<1>3. NoneOf(replies, Verdicts(u)) <=> \A p \in ToSet(replies) : p \notin Verdicts(u)
  BY NoneInRange
<1>4. QED BY <1>1, <1>2, <1>3 DEF LoginPending, Logins, Verdicts

LEMMA NotReported ==
    ASSUME NEW u
    PROVE  /\ u \notin ToSet(onlines) <=> NoneOf(onlines, {u})
           /\ u \notin ToSet(offlines) <=> NoneOf(offlines, {u})
  BY NoneInRange

LEMMA SettledIsEmpty ==
    ASSUME TypeInv, NEW u \in Uin, Settled(u)
    PROVE  /\ NoneOf(requests, Logins(u)) /\ NoneOf(replies, Verdicts(u))
           /\ NoneOf(onlines, {u}) /\ NoneOf(offlines, {u})
<1>1. ~LoginPending(u)
  BY DEF Settled, LoginPending
<1>2. QED BY <1>1, NotPending, NotReported DEF Settled, ReportPending

LEMMA NoLoginNoWrong ==
    ASSUME NEW q, NEW u
    PROVE  /\ NoneOf(q, Logins(u)) => NoneOf(q, Wrong(u))
           /\ NoneOf(q, Verdicts(u)) => NoneOf(q, Grants(u))
  BY NoneOfSubset DEF Wrong, Grants

\* A step that takes nothing of one kind from a queue and adds nothing.
Like(q, r, A) ==
    /\ NoneOf(q, A) <=> NoneOf(r, A)
    /\ OneOf(q, A) => OneOf(r, A)

LEMMA LikeAppend ==
    ASSUME NEW S, NEW q \in Seq(S), NEW x \in S, NEW A, x \notin A
    PROVE  Like(q, Append(q, x), A)
  BY AppendQueue DEF Like

LEMMA LikeTail ==
    ASSUME NEW S, NEW q \in Seq(S), q # <<>>, NEW A, Head(q) \notin A
    PROVE  Like(q, Tail(q), A)
  BY TailQueue DEF Like

LEMMA LikeSame ==
    ASSUME NEW q, NEW A PROVE Like(q, q, A)
  BY DEF Like

\* Steps that are not about a user.
LEMMA Untouched ==
    ASSUME NEW w, UserInv(w),
           line'[w] = line[w], board'[w] = board[w], right'[w] = right[w],
           Like(requests, requests', Logins(w)), Like(requests, requests', Wrong(w)),
           Like(replies, replies', Verdicts(w)), Like(replies, replies', Grants(w)),
           Like(onlines, onlines', {w}), Like(offlines, offlines', {w})
    PROVE  UserInv(w)'
<1>1. IsGranted(w)' <=> IsGranted(w)
  BY DEF IsGranted, Like
<1>2. VerdictInv(w)'
  BY DEF VerdictInv, Like, UserInv
<1>3. ReportInv(w)'
  BY <1>1 DEF ReportInv, Like, UserInv
<1>4. Wrong(w)' = Wrong(w)
  BY DEF Wrong, Logins
<1>5. PasswordInv(w)'
  BY <1>1, <1>4 DEF PasswordInv, Like, UserInv
<1>6. QED BY <1>2, <1>3, <1>5 DEF UserInv

\* A user signs in: if something was crossed and is so no longer, nothing of his
\* is on the way.
LEMMA SignInStep ==
    ASSUME TypeInv, SessionInv, NEW u \in Member, NEW isRight \in BOOLEAN,
           SignIn(u, isRight)
    PROVE  SessionInv'
<1> DEFINE x == [cmd |-> "CMD_LOGIN", uin |-> u, right |-> isRight]
<1>1. u \in Uin /\ x \in Request /\ requests \in Seq(Request)
  BY MemberAssumption, PacketType, NickAssumption DEF TypeInv, TypeOK, UserTypeOK
<1>2. /\ requests' = Append(requests, x)
      /\ UNCHANGED <<replies, onlines, offlines, board>>
      /\ line[u] = "none"
      /\ line' = [line EXCEPT ![u] = "incomplete"]
      /\ right' = [right EXCEPT ![u] = isRight]
  BY DEF SignIn
<1>3. line \in [Uin -> {"none", "incomplete", "ok", "error"}] /\ right \in [Uin -> BOOLEAN]
  BY DEF TypeInv, TypeOK
<1>4. \A w \in Uin \ crossed' : w \notin crossed \/ (w = u /\ Settled(u) /\ ~board[u])
  BY DEF SignIn
<1>5. ASSUME NEW w \in Uin \ crossed', w # u PROVE UserInv(w)'
  <2>1. UserInv(w)
    BY <1>4, <1>5 DEF SessionInv
  <2>2. x \notin Logins(w) /\ x \notin Wrong(w)
    BY <1>5 DEF Logins, Wrong
  <2>3. Like(requests, requests', Logins(w)) /\ Like(requests, requests', Wrong(w))
    BY <1>1, <1>2, <2>2, LikeAppend
  <2>4. line'[w] = line[w] /\ board'[w] = board[w] /\ right'[w] = right[w]
    BY <1>2, <1>3, <1>5
  <2> HIDE DEF x
  <2>5. QED BY <1>2, <2>1, <2>3, <2>4, LikeSame, Untouched
<1>6. ASSUME u \notin crossed' PROVE UserInv(u)'
  <2>1. NoneOf(requests, Logins(u)) /\ NoneOf(replies, Verdicts(u))
    BY <1>1, <1>2, <1>4, <1>6, SettledIsEmpty DEF SessionInv, UserInv, VerdictInv
  <2>2. NoneOf(replies, Grants(u))
    BY <2>1, NoLoginNoWrong
  <2>3. NoneOf(onlines, {u}) /\ (NoneOf(offlines, {u}) => ~board[u])
    BY <1>1, <1>2, <1>4, <1>6, <2>2, SettledIsEmpty
    DEF SessionInv, UserInv, ReportInv, IsGranted
  <2>4. line'[u] = "incomplete" /\ right'[u] = isRight
    BY <1>1, <1>2, <1>3
  <2>5. VerdictInv(u)'
    <3>1. OneOf(requests', Logins(u))
      BY <1>1, <1>2, <2>1, AppendQueue, NoneIsOne
    <3>2. QED BY <1>2, <2>1, <2>4, <3>1, NoneIsOne DEF VerdictInv, Logins, Verdicts
  <2>6. ~IsGranted(u)'
    BY <1>2, <2>2, <2>4 DEF IsGranted, Grants, Verdicts
  <2>7. ReportInv(u)'
    BY <1>2, <2>3, <2>6 DEF ReportInv
  <2>8. NoneOf(requests', Wrong(u)')
    <3>1. NoneOf(requests, Wrong(u)')
      BY <2>1, NoneOfSubset DEF Wrong, Logins
    <3>2. x \notin Wrong(u)'
      BY <2>4 DEF Wrong
    <3>3. QED BY <1>1, <1>2, <3>1, <3>2, AppendQueue
  <2>9. QED BY <2>5, <2>6, <2>7, <2>8 DEF UserInv, PasswordInv
<1>7. QED BY <1>5, <1>6 DEF SessionInv

LEMMA SetNickStep ==
    ASSUME TypeInv, SessionInv, NEW u \in Member, NEW nick \in Nick, SetNick(u, nick)
    PROVE  SessionInv'
<1> DEFINE x == [cmd |-> "CMD_SET_NICK", uin |-> u, nick |-> nick]
<1>1. x \in Request /\ requests \in Seq(Request)
  BY MemberAssumption, PacketType DEF TypeInv, TypeOK, UserTypeOK
<1>2. /\ requests' = Append(requests, x)
      /\ UNCHANGED <<replies, onlines, offlines, board, line, right, crossed>>
  BY DEF SetNick, sessionVars
<1>3. ASSUME NEW w \in Uin \ crossed PROVE UserInv(w)'
  <2>1. x \notin Logins(w) /\ x \notin Wrong(w)
    BY DEF Logins, Wrong
  <2>2. Like(requests, requests', Logins(w)) /\ Like(requests, requests', Wrong(w))
    BY <1>1, <1>2, <2>1, LikeAppend
  <2> HIDE DEF x
  <2>3. QED BY <1>2, <2>2, LikeSame, Untouched DEF SessionInv
<1>4. QED BY <1>2, <1>3 DEF SessionInv

\* The connection of a user ends: a login that is not decided or not reported
\* has been crossed.
LEMMA EndStep ==
    ASSUME TypeInv, SessionInv, NEW u \in Member, HangUp(u) \/ Expire(u)
    PROVE  SessionInv'
<1>1. u \in Uin /\ offlines \in Seq(Uin)
  BY MemberAssumption DEF TypeInv, TypeOK
<1>2. /\ UNCHANGED <<requests, replies, onlines, board>>
      /\ line' = [line EXCEPT ![u] = "none"]
      /\ right' = [right EXCEPT ![u] = FALSE]
      /\ crossed' = IF LoginPending(u) \/ u \in ToSet(onlines)
                    THEN crossed \cup {u} ELSE crossed
  BY DEF HangUp, Expire, Ended, userVars
<1>3. line \in [Uin -> {"none", "incomplete", "ok", "error"}] /\ right \in [Uin -> BOOLEAN]
  BY DEF TypeInv, TypeOK
<1>4. offlines' = Append(offlines, u) \/ (line[u] # "ok" /\ offlines' = offlines)
  BY DEF HangUp, Expire
<1>5. ASSUME NEW w \in Uin \ crossed', w # u PROVE UserInv(w)'
  <2>1. UserInv(w)
    BY <1>2, <1>5 DEF SessionInv
  <2>2. Like(offlines, offlines', {w})
    BY <1>1, <1>4, <1>5, LikeAppend, LikeSame
  <2>3. line'[w] = line[w] /\ board'[w] = board[w] /\ right'[w] = right[w]
    BY <1>2, <1>3, <1>5
  <2>4. QED BY <1>2, <2>1, <2>2, <2>3, LikeSame, Untouched
<1>6. ASSUME u \notin crossed' PROVE UserInv(u)'
  <2>1. u \notin crossed /\ ~LoginPending(u) /\ u \notin ToSet(onlines)
    BY <1>2, <1>6
  <2>2. NoneOf(requests, Logins(u)) /\ NoneOf(replies, Verdicts(u))
    BY <1>1, <2>1, NotPending
  <2>3. NoneOf(replies, Grants(u)) /\ NoneOf(onlines, {u})
    BY <2>1, <2>2, NotReported, NoLoginNoWrong
  <2>4. line'[u] = "none"
    BY <1>1, <1>2, <1>3
  <2>5. VerdictInv(u)'
    BY <1>2, <2>2, <2>4, NoneIsOne DEF VerdictInv, Logins, Verdicts
  <2>6. ~IsGranted(u)'
    BY <1>2, <2>3, <2>4 DEF IsGranted, Grants, Verdicts
  <2>7. NoneOf(offlines', {u}) => ~board[u]
    <3>1. CASE offlines' = Append(offlines, u)
      BY <1>1, <3>1, AppendQueue
    <3>2. CASE line[u] # "ok" /\ offlines' = offlines
      BY <1>1, <2>1, <2>3, <3>2 DEF SessionInv, UserInv, ReportInv, IsGranted
    <3>3. QED BY <1>4, <3>1, <3>2
  <2>8. ReportInv(u)'
    BY <1>2, <2>3, <2>6, <2>7 DEF ReportInv
  <2>9. NoneOf(requests', Wrong(u)')
    BY <1>2, <2>2, NoneOfSubset DEF Wrong, Logins
  <2>10. QED BY <2>5, <2>6, <2>8, <2>9 DEF UserInv, PasswordInv
<1>7. QED BY <1>5, <1>6 DEF SessionInv

LEMMA ContactErrorStep ==
    ASSUME TypeInv, SessionInv, NEW u \in Member, ContactError(u)
    PROVE  SessionInv'
<1>1. /\ UNCHANGED <<requests, replies, onlines, offlines, board, right>>
      /\ line' = [line EXCEPT ![u] = "error"]
      /\ crossed' = crossed \cup {u}
  BY DEF ContactError, userVars
<1>2. ASSUME NEW w \in Uin \ crossed' PROVE UserInv(w)'
  <2>1. line'[w] = line[w] /\ w \notin crossed
    BY <1>1, <1>2 DEF TypeInv, TypeOK
  <2>2. QED BY <1>1, <2>1, LikeSame, Untouched DEF SessionInv
<1>3. QED BY <1>2 DEF SessionInv

\* A reply arrives: a verdict is the only one, and was waited for.
LEMMA RepliedStep ==
    ASSUME TypeInv, SessionInv, Replied
    PROVE  SessionInv'
<1>1. PICK p \in ToSet(replies) :
        srv_login_ok(p) \/ srv_error(p) \/ srv_other_packet(p)
  BY DEF Replied
<1> DEFINE u == p.uin
<1>2. /\ replies \in Seq(Reply) /\ replies # <<>>
      /\ p = Head(replies) /\ replies' = Tail(replies)
      /\ UNCHANGED <<requests, onlines, offlines, board, right, crossed>>
  BY <1>1 DEF srv_login_ok, srv_error, srv_other_packet, Deliver, table, TypeInv,
              TypeOK, UserTypeOK
<1>3. p \in Reply /\ u \in Uin
  BY <1>2, HeadTailProperties, ReplyFields
<1>4. line \in [Uin -> {"none", "incomplete", "ok", "error"}]
  BY DEF TypeInv, TypeOK
<1>5. ASSUME NEW w \in Uin \ crossed, p \notin Verdicts(w), line'[w] = line[w]
      PROVE  UserInv(w)'
  <2>1. Like(replies, replies', Verdicts(w)) /\ Like(replies, replies', Grants(w))
    BY <1>2, <1>5, LikeTail DEF Grants
  <2> HIDE DEF u
  <2>2. QED BY <1>2, <1>5, <2>1, LikeSame, Untouched DEF SessionInv
<1>6. ASSUME u \notin crossed, p \in Verdicts(u) PROVE
             /\ UserInv(u) /\ line[u] = "incomplete"
             /\ NoneOf(requests, Logins(u)) /\ NoneOf(replies', Verdicts(u))
             /\ NoneOf(replies', Grants(u))
  <2>1. UserInv(u)
    BY <1>3, <1>6 DEF SessionInv
  <2>2. ~NoneOf(replies, Verdicts(u)) /\ NoneOf(replies', Verdicts(u))
    BY <1>2, <1>6, <2>1, TailQueue DEF UserInv, VerdictInv
  <2>3. QED BY <2>1, <2>2, NoLoginNoWrong DEF UserInv, VerdictInv
<1>7. CASE srv_login_ok(p)
  <2>1. p.cmd = "SRV_LOGIN_OK" /\ \A w \in Uin : w # u => p \notin Verdicts(w)
    BY <1>7 DEF srv_login_ok, Verdicts
  <2>2. \A w \in Uin : w # u => line'[w] = line[w]
    BY <1>4, <1>7 DEF srv_login_ok
  <2>3. ASSUME u \notin crossed PROVE UserInv(u)'
    <3>1. p \in Verdicts(u) /\ p \in Grants(u)
      BY <1>3, <2>1 DEF Verdicts, Grants
    <3>2. line'[u] = "ok"
      BY <1>3, <1>4, <1>6, <1>7, <2>3, <3>1 DEF srv_login_ok
    <3>3. IsGranted(u) /\ IsGranted(u)'
      BY <1>2, <3>1, <3>2, TailQueue DEF IsGranted
    <3>4. VerdictInv(u)'
      BY <1>2, <1>6, <2>3, <3>1, NoneIsOne DEF VerdictInv, Logins, Verdicts
    <3>5. ReportInv(u)'
      BY <1>2, <1>6, <2>3, <3>1, <3>3 DEF UserInv, ReportInv
    <3>6. PasswordInv(u)'
      <4>1. Wrong(u)' = Wrong(u)
        BY <1>2 DEF Wrong, Logins
      <4>2. QED BY <1>2, <1>6, <2>3, <3>1, <3>3, <4>1 DEF UserInv, PasswordInv
    <3>7. QED BY <3>4, <3>5, <3>6 DEF UserInv
  <2>4. QED BY <1>2, <1>5, <2>1, <2>2, <2>3 DEF SessionInv
<1>8. CASE srv_error(p)
  <2>1. p.cmd = "SRV_ERROR" /\ \A w \in Uin : w # u => p \notin Verdicts(w)
    BY <1>8 DEF srv_error, Verdicts
  <2>2. \A w \in Uin : w # u => line'[w] = line[w]
    BY <1>4, <1>8 DEF srv_error
  <2>3. ASSUME u \notin crossed PROVE UserInv(u)'
    <3>1. p \in Verdicts(u) /\ p \notin Grants(u)
      BY <1>3, <2>1 DEF Verdicts, Grants
    <3>2. line'[u] = "error"
      BY <1>3, <1>4, <1>6, <1>8, <2>3, <3>1 DEF srv_error
    <3>3. ~IsGranted(u)
      BY <1>2, <1>6, <2>3, <3>1, TailQueue DEF IsGranted
    <3>4. ~IsGranted(u)'
      BY <1>6, <2>3, <3>1, <3>2 DEF IsGranted, Grants, Verdicts
    <3>5. VerdictInv(u)'
      BY <1>2, <1>6, <2>3, <3>1, NoneIsOne DEF VerdictInv, Logins, Verdicts
    <3>6. ReportInv(u)'
      BY <1>2, <1>6, <2>3, <3>1, <3>3, <3>4 DEF UserInv, ReportInv
    <3>7. PasswordInv(u)'
      <4>1. Wrong(u)' = Wrong(u)
        BY <1>2 DEF Wrong, Logins
      <4>2. QED BY <1>2, <1>6, <2>3, <3>1, <3>4, <4>1 DEF UserInv, PasswordInv
    <3>8. QED BY <3>5, <3>6, <3>7 DEF UserInv
  <2>4. QED BY <1>2, <1>5, <2>1, <2>2, <2>3 DEF SessionInv
<1>9. CASE srv_other_packet(p)
  <2>1. line' = line /\ \A w \in Uin : p \notin Verdicts(w)
    BY <1>9 DEF srv_other_packet, Verdicts
  <2>2. QED BY <1>2, <1>5, <2>1 DEF SessionInv
<1>10. QED BY <1>1, <1>7, <1>8, <1>9

\* The status server takes a report: it is the last of this user, and true.
LEMMA TakeStep ==
    ASSUME TypeInv, SessionInv, TakeOnline \/ TakeOffline
    PROVE  SessionInv'
<1>1. CASE TakeOnline
  <2>0. PICK u \in Uin : u = Head(onlines)
    BY <1>1, HeadTailProperties DEF TakeOnline, TypeInv, TypeOK, UserTypeOK
  <2>1. /\ onlines \in Seq(Uin) /\ onlines # <<>> /\ onlines' = Tail(onlines)
        /\ board' = [board EXCEPT ![u] = TRUE] /\ board \in [Uin -> BOOLEAN]
        /\ UNCHANGED <<requests, replies, offlines, line, right, crossed>>
    BY <1>1, <2>0 DEF TakeOnline, TypeInv, TypeOK, UserTypeOK, table
  <2>2. ASSUME NEW w \in Uin \ crossed, w # u PROVE UserInv(w)'
    <3>1. Like(onlines, onlines', {w})
      BY <2>0, <2>1, <2>2, LikeTail
    <3>2. board'[w] = board[w]
      BY <2>1, <2>2
    <3>3. QED BY <2>1, <2>2, <3>1, <3>2, LikeSame, Untouched DEF SessionInv
  <2>3. ASSUME u \notin crossed PROVE UserInv(u)'
    <3>1. ~NoneOf(onlines, {u})
      BY <2>0, <2>1, TailQueue
    <3>2. UserInv(u) /\ IsGranted(u)
      BY <2>3, <3>1 DEF SessionInv, UserInv, ReportInv
    <3>3. IsGranted(u)' /\ Wrong(u)' = Wrong(u)
      BY <2>1, <3>2 DEF IsGranted, Grants, Verdicts, Wrong, Logins
    <3>4. VerdictInv(u)' /\ PasswordInv(u)'
      BY <2>1, <3>2, <3>3 DEF UserInv, VerdictInv, PasswordInv, Logins, Verdicts
    <3>5. board'[u] = TRUE
      BY <2>1
    <3>6. ReportInv(u)'
      BY <2>1, <3>2, <3>3, <3>5 DEF UserInv, ReportInv
    <3>7. QED BY <3>4, <3>6 DEF UserInv
  <2>4. QED BY <2>1, <2>2, <2>3 DEF SessionInv
<1>2. CASE TakeOffline
  <2>0. PICK u \in Uin : u = Head(offlines)
    BY <1>2, HeadTailProperties DEF TakeOffline, TypeInv, TypeOK, UserTypeOK
  <2>1. /\ offlines \in Seq(Uin) /\ offlines # <<>> /\ offlines' = Tail(offlines)
        /\ board' = [board EXCEPT ![u] = FALSE] /\ board \in [Uin -> BOOLEAN]
        /\ UNCHANGED <<requests, replies, onlines, line, right, crossed>>
    BY <1>2, <2>0 DEF TakeOffline, TypeInv, TypeOK, userVars
  <2>2. ASSUME NEW w \in Uin \ crossed, w # u PROVE UserInv(w)'
    <3>1. Like(offlines, offlines', {w})
      BY <2>0, <2>1, <2>2, LikeTail
    <3>2. board'[w] = board[w]
      BY <2>1, <2>2
    <3>3. QED BY <2>1, <2>2, <3>1, <3>2, LikeSame, Untouched DEF SessionInv
  <2>3. ASSUME u \notin crossed PROVE UserInv(u)'
    <3>1. ~NoneOf(offlines, {u})
      BY <2>0, <2>1, TailQueue
    <3>2. UserInv(u) /\ ~IsGranted(u)
      BY <2>3, <3>1 DEF SessionInv, UserInv, ReportInv
    <3>3. ~IsGranted(u)' /\ Wrong(u)' = Wrong(u)
      BY <2>1, <3>2 DEF IsGranted, Grants, Verdicts, Wrong, Logins
    <3>4. VerdictInv(u)' /\ PasswordInv(u)'
      BY <2>1, <3>2, <3>3 DEF UserInv, VerdictInv, PasswordInv, Logins, Verdicts
    <3>5. board'[u] = FALSE
      BY <2>1
    <3>6. ReportInv(u)'
      BY <2>1, <3>2, <3>3, <3>5 DEF UserInv, ReportInv
    <3>7. QED BY <3>4, <3>6 DEF UserInv
  <2>4. QED BY <2>1, <2>2, <2>3 DEF SessionInv
<1>3. QED BY <1>1, <1>2

\* The user server handles a packet.  A login that it grants is one of an uncrossed
\* user only if no end of an earlier session is still to be reported.
LEMMA UserStepSession ==
    ASSUME TypeInv, SessionInv, UserStep
    PROVE  SessionInv'
<1>1. PICK p \in Request : p = Head(requests) /\ requests # <<>>
  BY HeadTailProperties
  DEF UserStep, cmd_login, cmd_set_nick, Pending, TypeInv, TypeOK, UserTypeOK
<1> DEFINE u == p.uin
<1>2. /\ requests \in Seq(Request) /\ replies \in Seq(Reply) /\ onlines \in Seq(Uin)
      /\ requests' = Tail(requests)
      /\ UNCHANGED <<line, offlines, board, right>>
      /\ u \in Uin
  BY <1>1, RequestFields
  DEF UserStep, cmd_login, cmd_set_nick, TypeInv, TypeOK, UserTypeOK
<1>3. CASE cmd_set_nick
  <2>1. p.cmd = "CMD_SET_NICK" /\ onlines' = onlines
    BY <1>1, <1>3 DEF cmd_set_nick, Pending
  <2>2. PICK x \in Reply : replies' = Append(replies, x) /\ x.cmd = "SRV_SET_NICK_OK"
    BY <1>1, <1>3, SetNickAnswer DEF TypeInv
  <2>3. ASSUME NEW w \in Uin \ crossed' PROVE UserInv(w)'
    <3>1. w \notin crossed
      BY DEF UserStep
    <3>2. p \notin Logins(w) /\ p \notin Wrong(w) /\ x \notin Verdicts(w) /\ x \notin Grants(w)
      BY <2>1, <2>2 DEF Logins, Wrong, Verdicts, Grants
    <3>3. /\ Like(requests, requests', Logins(w)) /\ Like(requests, requests', Wrong(w))
          /\ Like(replies, replies', Verdicts(w)) /\ Like(replies, replies', Grants(w))
      BY <1>1, <1>2, <2>1, <2>2, <3>2, LikeTail, LikeAppend
    <3> HIDE DEF u
    <3>4. QED BY <1>2, <2>1, <3>1, <3>3, LikeSame, Untouched DEF SessionInv
  <2>4. QED BY <2>3 DEF SessionInv
<1>4. CASE cmd_login
  <2>1. p.cmd = "CMD_LOGIN"
    BY <1>1, <1>4 DEF cmd_login, Pending
  <2>2. PICK ok \in BOOLEAN, x \in Reply :
            /\ replies' = Append(replies, x) /\ x.uin = u
            /\ x.cmd = IF ok THEN "SRV_LOGIN_OK" ELSE "SRV_ERROR"
            /\ onlines' = IF ok THEN Append(onlines, u) ELSE onlines
            /\ ok => p.right
    BY <1>1, <1>4, LoginAnswer DEF TypeInv
  <2>4. ASSUME NEW w \in Uin \ crossed', w # u PROVE UserInv(w)'
    <3>1. w \notin crossed
      BY DEF UserStep
    <3>2. p \notin Logins(w) /\ p \notin Wrong(w) /\ x \notin Verdicts(w) /\ x \notin Grants(w)
      BY <2>2, <2>4 DEF Logins, Wrong, Verdicts, Grants
    <3>3. /\ Like(requests, requests', Logins(w)) /\ Like(requests, requests', Wrong(w))
          /\ Like(replies, replies', Verdicts(w)) /\ Like(replies, replies', Grants(w))
      BY <1>1, <1>2, <2>2, <3>2, LikeTail, LikeAppend
    <3>4. Like(onlines, onlines', {w})
      <4>1. onlines' = Append(onlines, u) \/ onlines' = onlines
        BY <2>2
      <4>2. QED BY <1>2, <2>4, <4>1, LikeAppend, LikeSame
    <3> HIDE DEF u
    <3>5. QED BY <1>2, <3>1, <3>3, <3>4, LikeSame, Untouched DEF SessionInv
  <2>5. ASSUME u \notin crossed' PROVE UserInv(u)'
    <3>1. u \notin crossed /\ UserInv(u)
      BY <1>2, <2>5 DEF UserStep, SessionInv
    <3>2. p \in Logins(u) /\ x \in Verdicts(u) /\ (x \in Grants(u) <=> ok)
      BY <1>1, <2>1, <2>2 DEF Logins, Verdicts, Grants
    <3>3. /\ NoneOf(requests', Logins(u)) /\ NoneOf(replies, Verdicts(u))
          /\ line[u] = "incomplete"
      BY <1>1, <1>2, <3>1, <3>2, TailQueue DEF UserInv, VerdictInv
    <3>4. NoneOf(replies, Grants(u)) /\ NoneOf(requests', Wrong(u))
      BY <3>3, NoLoginNoWrong
    <3>5. VerdictInv(u)'
      <4>1. OneOf(replies', Verdicts(u))
        BY <1>2, <2>2, <3>3, NoneIsOne, AppendQueue
      <4>2. QED BY <1>2, <3>3, <4>1, NoneIsOne DEF VerdictInv, Logins, Verdicts
    <3>6. ~IsGranted(u)
      BY <3>3, <3>4 DEF IsGranted
    <3>7. IsGranted(u)' <=> ok
      <4>1. NoneOf(replies', Grants(u)) <=> ~ok
        BY <1>2, <2>2, <3>2, <3>4, AppendQueue
      <4>2. QED BY <1>2, <3>3, <4>1 DEF IsGranted, Grants, Verdicts
    <3>8. Wrong(u)' = Wrong(u)
      BY <1>2 DEF Wrong, Logins
    <3>9. CASE ok
      <4>1. ~NoneOf(onlines', {u}) /\ Granted
        <5>1. onlines' = Append(onlines, u)
          BY <2>2, <3>9
        <5>2. Len(onlines') = Len(onlines) + 1 /\ Len(onlines) \in Nat
          BY <1>2, <5>1, AppendProperties, LenProperties
        <5>3. QED BY <1>2, <5>1, <5>2, AppendQueue DEF Granted
      <4>2. u \notin ToSet(offlines)
        BY <1>1, <2>5, <4>1 DEF UserStep
      <4>3. ReportInv(u)'
        BY <1>2, <3>7, <3>9, <4>1, <4>2, NotReported DEF ReportInv
      <4>4. p.right
        BY <2>2, <3>9
      <4>5. right[u]
        <5>1. p \notin Wrong(u)
          BY <1>1, <1>2, <3>1, TailQueue DEF UserInv, PasswordInv
        <5>2. p.right = right[u]
          BY <3>2, <5>1 DEF Wrong
        <5>3. QED BY <4>4, <5>2
      <4>6. PasswordInv(u)'
        BY <1>2, <3>4, <3>8, <4>5 DEF PasswordInv
      <4>7. QED BY <3>5, <4>3, <4>6 DEF UserInv
    <3>10. CASE ~ok
      <4>1. ReportInv(u)'
        BY <1>2, <2>2, <3>1, <3>6, <3>7, <3>10 DEF UserInv, ReportInv
      <4>2. PasswordInv(u)'
        BY <3>4, <3>7, <3>8, <3>10 DEF PasswordInv
      <4>3. QED BY <3>5, <4>1, <4>2 DEF UserInv
    <3>11. QED BY <3>9, <3>10
  <2>6. QED BY <2>4, <2>5 DEF SessionInv
<1>5. QED BY <1>3, <1>4 DEF UserStep

LEMMA UntouchedByAll ==
    ASSUME SessionInv,
           UNCHANGED <<requests, replies, onlines, offlines, board, line, right, crossed>>
    PROVE  SessionInv'
  BY LikeSame, Untouched DEF SessionInv

LEMMA SessionStep ==
    ASSUME TypeInv, SessionInv, [Next]_vars
    PROVE  SessionInv'
<1>1. CASE UNCHANGED vars
  BY <1>1, UntouchedByAll DEF vars, userVars, sessionVars
<1>2. CASE Register
  BY <1>2, UntouchedByAll DEF Register, select_max_uin, insert_user, sessionVars
<1>3. CASE Next
  BY <1>2, <1>3, SignInStep, SetNickStep, EndStep, ContactErrorStep, RepliedStep,
     TakeStep, UserStepSession DEF Next
<1>4. QED BY <1>1, <1>3

LEMMA SessionInit == Init => SessionInv
<1> SUFFICES ASSUME Init, NEW u \in Uin PROVE UserInv(u)
  BY DEF SessionInv
<1>1. /\ requests = <<>> /\ replies = <<>> /\ onlines = <<>> /\ offlines = <<>>
      /\ line[u] = "none" /\ board[u] = FALSE
  BY DEF Init, UserInit
<1>2. QED BY <1>1, NoneInEmpty
          DEF UserInv, VerdictInv, ReportInv, PasswordInv, IsGranted

LEMMA SessionCorrect == Spec => [](TypeInv /\ SessionInv)
<1>1. Init => TypeInv /\ SessionInv
  BY TypeInit, SessionInit
<1>2. TypeInv /\ SessionInv /\ [Next]_vars => (TypeInv /\ SessionInv)'
  BY TypeNext, SessionStep
<1>3. QED BY <1>1, <1>2, PTL DEF Spec

\* When nothing of his is on the way, a user whose reports have not crossed is
\* shown online exactly if he is logged in, whatever the order in which the three
\* servers took what was sent.
THEOREM StatusCorrect == Spec => []StatusIsTrue
<1>1. TypeInv /\ SessionInv => StatusIsTrue
  <2>1. SUFFICES ASSUME TypeInv, SessionInv, NEW u \in Uin \ crossed, Settled(u)
                 PROVE  board[u] <=> line[u] = "ok"
    BY DEF StatusIsTrue
  <2>2. /\ NoneOf(replies, Verdicts(u))
        /\ NoneOf(onlines, {u}) /\ NoneOf(offlines, {u})
    BY <2>1, SettledIsEmpty
  <2>3. NoneOf(replies, Grants(u))
    BY <2>2, NoLoginNoWrong
  <2>4. ReportInv(u)
    BY <2>1 DEF SessionInv, UserInv
  <2>5. QED BY <2>2, <2>3, <2>4 DEF ReportInv, IsGranted
<1>2. QED BY <1>1, SessionCorrect, PTL

\* Nobody whose verdicts have not crossed is logged in on a password that he has
\* not typed for this connection.
THEOREM GrantCorrect == Spec => []OkWasGranted
<1>1. SessionInv => OkWasGranted
  BY DEF SessionInv, UserInv, PasswordInv, IsGranted, OkWasGranted
<1>2. QED BY <1>1, SessionCorrect, PTL

-----------------------------------------------------------------------------
(* Nicks.  Every element of one kind in a queue has one of another after it.*)

Later(q, A, B) ==
    \A i \in DOMAIN q : q[i] \in A => \E j \in DOMAIN q : i < j /\ q[j] \in B

LEMMA LaterAppend ==
    ASSUME NEW S, NEW q \in Seq(S), NEW x \in S, NEW A, NEW B, x \notin A
    PROVE  Later(q, A, B) \/ x \in B => Later(Append(q, x), A, B)
<1> DEFINE r == Append(q, x)
<1>1. /\ DOMAIN q = 1 .. Len(q) /\ Len(q) \in Nat
      /\ DOMAIN r = 1 .. (Len(q) + 1)
      /\ \A i \in 1 .. Len(q) : r[i] = q[i]
      /\ r[Len(q) + 1] = x
  BY LenProperties, AppendProperties
<1> HIDE DEF r
<1>2. \A i \in DOMAIN r : r[i] \in A => i \in DOMAIN q /\ q[i] \in A
  BY <1>1
<1>3. CASE x \in B
  <2>1. Len(q) + 1 \in DOMAIN r /\ \A i \in DOMAIN q : i < Len(q) + 1
    BY <1>1
  <2>2. QED BY <1>1, <1>2, <1>3, <2>1 DEF Later, r
<1>4. CASE Later(q, A, B)
  <2>1. \A i \in DOMAIN q : i \in DOMAIN r /\ r[i] = q[i]
    BY <1>1
  <2>2. Later(r, A, B)
    BY <1>2, <1>4, <2>1 DEF Later
  <2>3. QED BY <2>2 DEF r
<1>5. QED BY <1>3, <1>4

LEMMA LaterTail ==
    ASSUME NEW S, NEW q \in Seq(S), q # <<>>, NEW A, NEW B, Later(q, A, B)
    PROVE  /\ Later(Tail(q), A, B)
           /\ Head(q) \in A => ~NoneOf(Tail(q), B)
<1> DEFINE r == Tail(q)
<1>1. /\ DOMAIN q = 1 .. Len(q) /\ Len(q) \in Nat \ {0}
      /\ DOMAIN r = 1 .. (Len(q) - 1)
      /\ \A i \in 1 .. (Len(q) - 1) : r[i] = q[i + 1]
      /\ Head(q) = q[1]
  BY LenProperties, EmptySeq, HeadTailProperties
<1> HIDE DEF r
<1>2. \A i \in DOMAIN r : i + 1 \in DOMAIN q /\ r[i] = q[i + 1]
  BY <1>1
<1>3. \A i, j \in DOMAIN q : i < j => j - 1 \in DOMAIN r /\ r[j - 1] = q[j]
  BY <1>1
<1>4. Later(r, A, B)
  <2>1. SUFFICES ASSUME NEW i \in DOMAIN r, r[i] \in A
                 PROVE  \E j \in DOMAIN r : i < j /\ r[j] \in B
    BY DEF Later
  <2>2. PICK j \in DOMAIN q : i + 1 < j /\ q[j] \in B
    BY <1>2, <2>1 DEF Later
  <2>3. j - 1 \in DOMAIN r /\ r[j - 1] = q[j] /\ i < j - 1
    BY <1>1, <1>2, <1>3, <2>1, <2>2
  <2>4. QED BY <2>2, <2>3
<1>5. Head(q) \in A => ~NoneOf(r, B)
  <2>1. SUFFICES ASSUME q[1] \in A PROVE ~NoneOf(r, B)
    BY <1>1
  <2>2. PICK j \in DOMAIN q : 1 < j /\ q[j] \in B
    BY <1>1, <2>1 DEF Later
  <2>3. QED BY <1>1, <1>3, <2>2 DEF NoneOf
<1>6. QED BY <1>4, <1>5 DEF r

\* The replies that tell a user his nick, and those with an old one.
Nicks(u) == {p \in Reply : p.cmd \in {"SRV_LOGIN_OK", "SRV_SET_NICK_OK"} /\ p.uin = u}
Stale(u) == {p \in Nicks(u) : p.nick # user[u].nick}

\* The last nick on the way is the one that is stored; if none is, it is shown.
NickInv(u) ==
    /\ Later(replies, Stale(u), Nicks(u))
    /\ line[u] = "ok" /\ NoneOf(replies, Nicks(u)) => queued[u] = user[u].nick
    /\ line[u] = "ok" \/ ~NoneOf(replies, Nicks(u)) => user[u] # NULL

NicksInv == \A u \in Uin \ failed : NickInv(u)

LEMMA NickUntouched ==
    ASSUME NEW w, NickInv(w), user'[w] = user[w],
           line'[w] = "ok" => line[w] = "ok" /\ queued'[w] = queued[w],
           NoneOf(replies, Nicks(w)) <=> NoneOf(replies', Nicks(w)),
           Later(replies', Stale(w), Nicks(w))
    PROVE  NickInv(w)'
<1>1. Stale(w)' = Stale(w) /\ Nicks(w)' = Nicks(w)
  BY DEF Stale, Nicks
<1>2. QED BY <1>1 DEF NickInv

LEMMA NickSameQueue ==
    ASSUME TypeInv, NicksInv, UNCHANGED <<replies, user, failed>>,
           \A w \in Uin : line'[w] = "ok" => line[w] = "ok" /\ queued'[w] = queued[w]
    PROVE  NicksInv'
<1>1. SUFFICES ASSUME NEW w \in Uin \ failed PROVE NickInv(w)'
  BY DEF NicksInv
<1>2. NickInv(w)
  BY DEF NicksInv
<1>3. QED BY <1>2, NickUntouched DEF NickInv

LEMMA NickClientStep ==
    ASSUME TypeInv, NicksInv, NEW u \in Member,
           \/ \E isRight \in BOOLEAN : SignIn(u, isRight)
           \/ \E nick \in Nick : SetNick(u, nick)
           \/ HangUp(u)
           \/ Expire(u)
           \/ ContactError(u)
    PROVE  NicksInv'
<1>1. UNCHANGED <<replies, user, failed>>
  BY DEF SignIn, SetNick, HangUp, Expire, ContactError, userVars, table, sessionVars
<1>2. /\ line' = line \/ \E x \in {"none", "incomplete", "error"} : line' = [line EXCEPT ![u] = x]
      /\ queued' = queued \/ (line' = [line EXCEPT ![u] = "none"]
                            /\ queued' = [queued EXCEPT ![u] = NULL])
  BY DEF SignIn, SetNick, HangUp, Expire, Ended, ContactError, sessionVars
<1>3. line \in [Uin -> {"none", "incomplete", "ok", "error"}] /\ queued \in [Uin -> Nick \cup {NULL}]
  BY DEF TypeInv, TypeOK
<1>4. \A w \in Uin : line'[w] = "ok" => line[w] = "ok" /\ queued'[w] = queued[w]
  BY <1>2, <1>3
<1>5. QED BY <1>1, <1>4, NickSameQueue

LEMMA NickRepliedStep ==
    ASSUME TypeInv, NicksInv, Replied
    PROVE  NicksInv'
<1>1. PICK p \in ToSet(replies) :
        srv_login_ok(p) \/ srv_error(p) \/ srv_other_packet(p)
  BY DEF Replied
<1> DEFINE u == p.uin
<1>2. /\ replies \in Seq(Reply) /\ replies # <<>>
      /\ p = Head(replies) /\ replies' = Tail(replies)
      /\ UNCHANGED <<user, failed>>
  BY <1>1 DEF srv_login_ok, srv_error, srv_other_packet, Deliver, table, TypeInv,
              TypeOK, UserTypeOK
<1>3. p \in Reply /\ u \in Uin
  BY <1>2, HeadTailProperties, ReplyFields
<1>4. line \in [Uin -> {"none", "incomplete", "ok", "error"}] /\ queued \in [Uin -> Nick \cup {NULL}]
  BY DEF TypeInv, TypeOK
<1>5. SUFFICES ASSUME NEW w \in Uin \ failed PROVE NickInv(w)'
  BY <1>2 DEF NicksInv
<1>6. NickInv(w) /\ Later(replies', Stale(w), Nicks(w))
  BY <1>2, LaterTail DEF NicksInv, NickInv
<1>7. CASE p \notin Nicks(w)
  <2>1. NoneOf(replies, Nicks(w)) <=> NoneOf(replies', Nicks(w))
    BY <1>2, <1>7, TailQueue
  <2>2. line'[w] = "ok" => line[w] = "ok" /\ queued'[w] = queued[w]
    <3>1. CASE w = u
      <4>1. srv_error(p)
        BY <1>1, <1>3, <1>7, <3>1 DEF srv_login_ok, srv_other_packet, Nicks
      <4>2. QED BY <1>3, <1>4, <3>1, <4>1 DEF srv_error
    <3>2. CASE w # u
      BY <1>1, <1>3, <1>4, <3>2 DEF srv_login_ok, srv_error, srv_other_packet
    <3>3. QED BY <3>1, <3>2
  <2> HIDE DEF u
  <2>3. QED BY <1>2, <1>6, <2>1, <2>2, NickUntouched
<1>8. CASE p \in Nicks(w)
  <2>1. w = u /\ p.cmd \in {"SRV_LOGIN_OK", "SRV_SET_NICK_OK"}
    BY <1>8 DEF Nicks
  <2>2. Stale(w)' = Stale(w) /\ Nicks(w)' = Nicks(w)
    BY <1>2 DEF Stale, Nicks
  <2>3. user[w] # NULL
    BY <1>2, <1>6, <1>8, TailQueue DEF NickInv
  <2>4. line'[w] = "ok" => queued'[w] = p.nick
    BY <1>1, <1>3, <1>4, <2>1 DEF srv_login_ok, srv_error, srv_other_packet
  <2>5. NoneOf(replies', Nicks(w)) => p.nick = user[w].nick
    BY <1>2, <1>6, <1>8, LaterTail DEF NickInv, Stale
  <2> HIDE DEF u
  <2>6. QED BY <1>2, <1>6, <2>2, <2>3, <2>4, <2>5 DEF NickInv
<1>9. QED BY <1>7, <1>8

LEMMA NickLoginStep ==
    ASSUME TypeInv, NicksInv, UserStep, cmd_login
    PROVE  NicksInv'
<1>1. PICK p \in Request : p = Head(requests) /\ p.cmd = "CMD_LOGIN"
  BY HeadTailProperties DEF cmd_login, Pending, TypeInv, TypeOK, UserTypeOK
<1> DEFINE u == p.uin
<1>2. /\ replies \in Seq(Reply) /\ onlines \in Seq(Uin) /\ u \in Uin
      /\ UNCHANGED <<user, line, queued>>
  BY <1>1, RequestFields DEF UserStep, cmd_login, table, TypeInv, TypeOK, UserTypeOK
<1>3. PICK ok \in BOOLEAN, x \in Reply :
            /\ replies' = Append(replies, x) /\ x.uin = u
            /\ ok => /\ x.cmd = "SRV_LOGIN_OK" /\ x.nick = outpack'
                     /\ onlines' = Append(onlines, u) /\ user[u] \in Row
            /\ ~ok => x.cmd = "SRV_ERROR" /\ onlines' = onlines
  BY <1>1, LoginAnswer DEF TypeInv
<1>4. CASE ok
  <2>1. user[u] \in Row /\ user[u] # NULL
    BY <1>3, <1>4, NULLAssumption
  <2>2. /\ replies' = Append(replies, x)
        /\ x.cmd = "SRV_LOGIN_OK" /\ x.uin = u /\ x.nick = outpack'
    BY <1>3, <1>4
  <2>3. ASSUME NEW w \in Uin \ failed', w # u PROVE NickInv(w)'
    <3>1. NickInv(w)
      BY <1>1, <2>3 DEF UserStep, NicksInv
    <3>2. x \notin Nicks(w) /\ x \notin Stale(w)
      BY <2>2, <2>3 DEF Nicks, Stale
    <3>3. /\ NoneOf(replies, Nicks(w)) <=> NoneOf(replies', Nicks(w))
          /\ Later(replies', Stale(w), Nicks(w))
      BY <1>2, <2>2, <3>1, <3>2, AppendQueue, LaterAppend DEF NickInv
    <3> HIDE DEF u
    <3>4. QED BY <1>2, <3>1, <3>3, NickUntouched
  <2>4. ASSUME u \notin failed' PROVE NickInv(u)'
    <3>1. x \in Nicks(u) /\ x \notin Stale(u)
      <4>1. Granted
        BY <1>2, <1>3, <1>4, AppendProperties, LenProperties DEF Granted
      <4>2. outpack' = user[u].nick
        BY <1>1, <2>4, <4>1 DEF UserStep
      <4>3. QED BY <2>2, <4>2 DEF Nicks, Stale
    <3>2. Later(replies', Stale(u), Nicks(u)) /\ ~NoneOf(replies', Nicks(u))
      BY <1>2, <2>2, <3>1, AppendQueue, LaterAppend
    <3>3. Stale(u)' = Stale(u) /\ Nicks(u)' = Nicks(u)
      BY <1>2 DEF Stale, Nicks
    <3> HIDE DEF u
    <3>4. QED BY <1>2, <2>1, <3>2, <3>3 DEF NickInv
  <2>5. QED BY <2>3, <2>4 DEF NicksInv
<1>5. CASE ~ok
  <2>1. replies' = Append(replies, x) /\ x.cmd = "SRV_ERROR"
    BY <1>3, <1>5
  <2>2. failed' = failed
    <3>1. ~Granted
      BY <1>2, <1>3, <1>5, LenProperties DEF Granted
    <3>2. QED BY <1>1, <3>1 DEF UserStep
  <2>3. ASSUME NEW w \in Uin \ failed PROVE NickInv(w)'
    <3>1. NickInv(w)
      BY DEF NicksInv
    <3>2. x \notin Nicks(w) /\ x \notin Stale(w)
      BY <2>1 DEF Nicks, Stale
    <3>3. /\ NoneOf(replies, Nicks(w)) <=> NoneOf(replies', Nicks(w))
          /\ Later(replies', Stale(w), Nicks(w))
      BY <1>2, <2>1, <3>1, <3>2, AppendQueue, LaterAppend DEF NickInv
    <3>4. QED BY <1>2, <3>1, <3>3, NickUntouched
  <2>4. QED BY <2>2, <2>3 DEF NicksInv
<1>6. QED BY <1>4, <1>5

LEMMA NickSetStep ==
    ASSUME TypeInv, NicksInv, UserStep, cmd_set_nick
    PROVE  NicksInv'
<1>1. PICK p \in Request : p = Head(requests) /\ p.cmd = "CMD_SET_NICK"
  BY HeadTailProperties DEF cmd_set_nick, Pending, TypeInv, TypeOK, UserTypeOK
<1> DEFINE u == p.uin
<1>2. /\ replies \in Seq(Reply) /\ u \in Uin /\ p.nick \in Nick
      /\ UNCHANGED <<line, queued>>
      /\ user \in [Uin -> Row \cup {NULL}]
  BY <1>1, RequestFields DEF UserStep, TypeInv, TypeOK, UserTypeOK
<1>3. user' = user \/ (user[u] # NULL /\ user' = [user EXCEPT ![u].nick = p.nick])
  BY <1>1 DEF cmd_set_nick
<1>4. PICK x \in Reply :
            /\ replies' = Append(replies, x)
            /\ x.cmd = "SRV_SET_NICK_OK" /\ x.uin = u /\ x.nick = p.nick
  BY <1>1, SetNickAnswer DEF TypeInv
<1>5. ASSUME NEW w \in Uin \ failed', w # u PROVE NickInv(w)'
  <2>1. NickInv(w)
    BY <1>1, <1>5 DEF UserStep, NicksInv
  <2>2. user'[w] = user[w]
    BY <1>2, <1>3, <1>5
  <2>3. x \notin Nicks(w) /\ x \notin Stale(w)
    BY <1>4, <1>5 DEF Nicks, Stale
  <2>4. /\ NoneOf(replies, Nicks(w)) <=> NoneOf(replies', Nicks(w))
        /\ Later(replies', Stale(w), Nicks(w))
    BY <1>2, <1>4, <2>1, <2>3, AppendQueue, LaterAppend DEF NickInv
  <2> HIDE DEF u
  <2>5. QED BY <1>2, <2>1, <2>2, <2>4, NickUntouched
<1>6. ASSUME u \notin failed' PROVE NickInv(u)'
  <2>1. user[u] # NULL /\ user'[u].nick = p.nick
    BY <1>1, <1>6 DEF UserStep
  <2>2. user'[u] # NULL
    <3>1. CASE user' = user
      BY <2>1, <3>1
    <3>2. CASE user' = [user EXCEPT ![u].nick = p.nick]
      <4>1. user'[u] = [user[u] EXCEPT !.nick = p.nick]
        BY <1>2, <3>2
      <4>2. user[u] \in Row
        BY <1>2, <2>1
      <4>3. QED BY <1>2, <4>1, <4>2, NickOfRow, NULLAssumption
    <3>3. QED BY <1>3, <3>1, <3>2
  <2>3. x \in Nicks(u) /\ x \notin Stale(u)' /\ Nicks(u)' = Nicks(u)
    BY <1>4, <2>1 DEF Nicks, Stale
  <2>4. Later(replies', Stale(u)', Nicks(u)) /\ ~NoneOf(replies', Nicks(u))
    BY <1>2, <1>4, <2>3, AppendQueue, LaterAppend
  <2> HIDE DEF u
  <2>5. QED BY <2>2, <2>3, <2>4 DEF NickInv
<1>7. QED BY <1>5, <1>6 DEF NicksInv

\* A new account is one of a user who has been told no nick.
LEMMA NickRegisterStep ==
    ASSUME TypeInv, NicksInv, Register
    PROVE  NicksInv'
<1>1. /\ replies' = replies /\ UNCHANGED <<line, queued, failed>>
      /\ user' = user
            \/ \E n, row : user[n] = NULL /\ user' = [user EXCEPT ![n] = row]
  BY DEF Register, select_max_uin, insert_user, sessionVars
<1>2. SUFFICES ASSUME NEW w \in Uin \ failed PROVE NickInv(w)'
  BY <1>1 DEF NicksInv
<1>3. NickInv(w)
  BY DEF NicksInv
<1>4. CASE user'[w] = user[w]
  BY <1>1, <1>3, <1>4, NickUntouched DEF NickInv
<1>5. CASE user'[w] # user[w]
  <2>1. user[w] = NULL
    BY <1>1, <1>5 DEF TypeInv, TypeOK, UserTypeOK
  <2>2. line[w] # "ok" /\ NoneOf(replies, Nicks(w))
    BY <1>3, <2>1 DEF NickInv
  <2>3. Later(replies, Stale(w)', Nicks(w))
    BY <2>2 DEF Later, NoneOf, Stale, Nicks
  <2>4. QED BY <1>1, <2>2, <2>3 DEF NickInv, Nicks
<1>6. QED BY <1>4, <1>5

LEMMA NickStep ==
    ASSUME TypeInv, NicksInv, [Next]_vars
    PROVE  NicksInv'
<1>1. CASE UNCHANGED vars
  BY <1>1, NickSameQueue DEF vars, userVars, table, sessionVars
<1>2. CASE TakeOnline \/ TakeOffline
  BY <1>2, NickSameQueue DEF TakeOnline, TakeOffline, userVars, table
<1>3. CASE Next
  BY <1>2, <1>3, NickClientStep, NickRepliedStep, NickLoginStep, NickSetStep,
     NickRegisterStep DEF Next, UserStep
<1>4. QED BY <1>1, <1>3

\* Unless the statement failed that should have stored or read it, the last nick
\* that is queued for the connection of a logged-in user is the one that is stored,
\* through any overlap of requests and replies.
THEOREM NickCorrect == Spec => []NickAsTold
<1>1. Init => NicksInv
  BY DEF Init, UserInit, NicksInv, NickInv, Later, NoneOf
<1>2. TypeInv /\ NicksInv => NickAsTold
  <2>1. SUFFICES ASSUME TypeInv, NicksInv, NEW u \in Uin \ failed,
                        line[u] = "ok", Settled(u)
                 PROVE  queued[u] = user[u].nick
    BY DEF NickAsTold
  <2>2. NoneOf(replies, Nicks(u))
    BY <2>1, NoneInRange DEF Settled, Nicks
  <2>3. QED BY <2>1, <2>2 DEF NicksInv, NickInv
<1>3. Spec => []TypeInv
  BY TypeInit, TypeNext, PTL DEF Spec
<1>4. TypeInv /\ NicksInv /\ [Next]_vars => NicksInv'
  BY NickStep
<1>5. QED BY <1>1, <1>2, <1>3, <1>4, PTL DEF Spec

=============================================================================
