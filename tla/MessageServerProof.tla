------------------------- MODULE MessageServerProof -------------------------
(***************************************************************************)
(* Proofs about MessageServer, for any number of users, connection servers *)
(* and messages.                                                           *)
(***************************************************************************)
EXTENDS MessageServer, SequenceTheorems, FunctionTheorems, FiniteSetTheorems,
        WellFoundedInduction, TLAPS

\* The part of the types that the waiting messages need.
Answers == [uin : Uin, con : Con \cup {NoCon}]
WaitingType ==
    /\ map \in [Uin -> Seq(Message)]
    /\ requests \in Seq(Uin)
    /\ replies \in Seq(Answers)
    /\ place \in [Uin -> Con \cup {NoCon}]
    /\ conns_head \in SUBSET Con
    /\ accepted \in Nat

\* While connection servers stay, con_to_fd finds each that an answer can name.
KnownInv ==
    "leave" \notin may =>
        /\ \A u \in Uin : place[u] \in conns_head \cup {NoCon}
        /\ \A r \in ToSet(replies) : r.con \in conns_head \cup {NoCon}

IInv == WaitingType /\ KnownInv /\ WaitingIsAsked

-----------------------------------------------------------------------------
(* Queues as sets.                                                         *)

LEMMA AppendSet ==
    ASSUME NEW S, NEW q \in Seq(S), NEW x \in S
    PROVE  Append(q, x) \in Seq(S) /\ ToSet(Append(q, x)) = ToSet(q) \cup {x}
<1> DEFINE r == Append(q, x)
<1>1. /\ DOMAIN q = 1 .. Len(q) /\ Len(q) \in Nat
      /\ r \in Seq(S)
      /\ DOMAIN r = 1 .. (Len(q) + 1)
      /\ \A i \in 1 .. Len(q) : r[i] = q[i]
      /\ r[Len(q) + 1] = x
  BY LenProperties, AppendProperties
<1> HIDE DEF r
<1>2. /\ \A i \in DOMAIN r : i \in DOMAIN q \/ i = Len(q) + 1
      /\ \A i \in DOMAIN q : i \in DOMAIN r
      /\ Len(q) + 1 \in DOMAIN r
  BY <1>1
<1>3. ToSet(r) = ToSet(q) \cup {x}
  BY <1>1, <1>2 DEF ToSet
<1>4. QED BY <1>1, <1>3 DEF r

LEMMA TailSet ==
    ASSUME NEW S, NEW q \in Seq(S), q # <<>>
    PROVE  /\ Head(q) \in S /\ Tail(q) \in Seq(S)
           /\ ToSet(q) = ToSet(Tail(q)) \cup {Head(q)}
<1> DEFINE r == Tail(q)
<1>1. /\ DOMAIN q = 1 .. Len(q) /\ Len(q) \in Nat \ {0}
      /\ r \in Seq(S) /\ Head(q) \in S
      /\ DOMAIN r = 1 .. (Len(q) - 1)
      /\ \A i \in 1 .. (Len(q) - 1) : r[i] = q[i + 1]
      /\ Head(q) = q[1]
  BY LenProperties, EmptySeq, HeadTailProperties
<1> HIDE DEF r
<1>2. /\ \A i \in DOMAIN r : i + 1 \in DOMAIN q /\ r[i] = q[i + 1]
      /\ \A i \in DOMAIN q : i = 1 \/ (i - 1 \in DOMAIN r /\ r[i - 1] = q[i])
      /\ 1 \in DOMAIN q
  BY <1>1
<1>3. ToSet(q) = ToSet(r) \cup {Head(q)}
  <2>1. \A x \in ToSet(q) : x \in ToSet(r) \cup {Head(q)}
    BY <1>1, <1>2 DEF ToSet
  <2>2. \A x \in ToSet(r) : x \in ToSet(q)
    BY <1>2 DEF ToSet
  <2>3. Head(q) \in ToSet(q)
    BY <1>1, <1>2 DEF ToSet
  <2>4. QED BY <2>1, <2>2, <2>3
<1>4. QED BY <1>1, <1>3 DEF r

-----------------------------------------------------------------------------
(* The invariant.                                                          *)

LEMMA WaitingInit == Init => IInv
<1> SUFFICES ASSUME Init PROVE IInv
  OBVIOUS
<1>1. map \in [Uin -> Seq(Message)] /\ requests \in Seq(Uin) /\ replies \in Seq(Answers)
  BY EmptySeq DEF Init
<1>2. WaitingType /\ WaitingIsAsked
  BY <1>1 DEF Init, WaitingType, WaitingIsAsked
<1>3. ToSet(replies) = {}
  BY DEF Init, ToSet
<1>4. QED BY <1>2, <1>3 DEF Init, IInv, KnownInv

\* A message is put to a list, and the status server is asked.
LEMMA MessageStep ==
    ASSUME IInv, NEW from \in Uin, NEW to \in Uin, NEW type \in {"chat"} \cup FriendType,
           NEW len \in Nat, cmd_message(from, to, type, len)
    PROVE  IInv'
<1> DEFINE m == [id |-> accepted + 1, from |-> from, to |-> to, type |-> type,
                 len |-> len]
<1>1. /\ accepted' = accepted + 1 /\ accepted < MaxMsg
      /\ map' = [map EXCEPT ![to] = <<m>> \o @]
      /\ requests' = Append(requests, to)
      /\ UNCHANGED <<conns_head, replies, place, may>>
  BY DEF cmd_message
<1>2. m \in Message
  BY <1>1, MsgAssumption DEF IInv, WaitingType, Message
<1>3. <<m>> \o map[to] \in Seq(Message)
  <2>1. <<m>> \in Seq(Message) /\ map[to] \in Seq(Message)
    BY <1>2 DEF IInv, WaitingType
  <2> HIDE DEF m
  <2>2. QED BY <2>1, ConcatProperties
<1>4. requests' \in Seq(Uin) /\ ToSet(requests') = ToSet(requests) \cup {to}
  BY <1>1, AppendSet DEF IInv, WaitingType
<1> HIDE DEF m
<1>5. WaitingType' /\ KnownInv'
  BY <1>1, <1>3, <1>4 DEF IInv, WaitingType, KnownInv
<1>6. WaitingIsAsked'
  BY <1>1, <1>4 DEF IInv, WaitingType, WaitingIsAsked
<1>7. QED BY <1>5, <1>6 DEF IInv

\* An answer empties the list, unless a connection server has left.
LEMMA AnswerStep ==
    ASSUME IInv, send_msg \/ store_offline_msg
    PROVE  IInv'
<1>1. PICK r \in Answers :
        /\ r = Head(replies) /\ replies' \in Seq(Answers)
        /\ ToSet(replies) = ToSet(replies') \cup {r}
  <2>1. replies # <<>> /\ replies' = Tail(replies)
    BY DEF send_msg, store_offline_msg
  <2>2. replies \in Seq(Answers)
    BY DEF IInv, WaitingType
  <2>3. /\ Head(replies) \in Answers /\ Tail(replies) \in Seq(Answers)
        /\ ToSet(replies) = ToSet(Tail(replies)) \cup {Head(replies)}
    BY <2>1, <2>2, TailSet
  <2>4. QED BY <2>1, <2>3
<1>2. /\ UNCHANGED <<conns_head, requests, place, accepted, may>>
      /\ \/ map' = [map EXCEPT ![r.uin] = <<>>]
         \/ map' = map /\ r.con # NoCon /\ r.con \notin conns_head
  BY <1>1 DEF send_msg, store_offline_msg
<1>3. WaitingType'
  <2>1. map' \in [Uin -> Seq(Message)]
    BY <1>2, EmptySeq DEF IInv, WaitingType
  <2>2. QED BY <1>1, <1>2, <2>1 DEF IInv, WaitingType
<1>4. KnownInv'
  BY <1>1, <1>2 DEF IInv, KnownInv
<1>5. WaitingIsAsked'
  <2>1. SUFFICES ASSUME "leave" \notin may, NEW u \in Uin, map'[u] # <<>>
                 PROVE  u \in ToSet(requests) \/ \E a \in ToSet(replies') : a.uin = u
    BY <1>2 DEF WaitingIsAsked
  <2>2. r.con \in conns_head \cup {NoCon}
    BY <1>1, <2>1 DEF IInv, KnownInv
  <2>3. map' = [map EXCEPT ![r.uin] = <<>>]
    BY <1>2, <2>2
  <2>4. u # r.uin /\ map[u] # <<>>
    BY <2>1, <2>3 DEF IInv, WaitingType
  <2>5. QED BY <1>1, <2>1, <2>4 DEF IInv, WaitingIsAsked
<1>6. QED BY <1>3, <1>4, <1>5 DEF IInv

\* The status server turns a request into an answer.
LEMMA StatusStep ==
    ASSUME IInv, GetStatus
    PROVE  IInv'
<1> DEFINE u == Head(requests)
           r == [uin |-> u, con |-> place[u]]
<1>1. /\ u \in Uin /\ requests' \in Seq(Uin)
      /\ ToSet(requests) = ToSet(requests') \cup {u}
  BY TailSet DEF GetStatus, IInv, WaitingType
<1>2. r \in Answers
  BY <1>1 DEF IInv, WaitingType, Answers
<1>3. replies' = Append(replies, r) /\ UNCHANGED <<map, conns_head, place, accepted, may>>
  BY DEF GetStatus
<1>4. r.uin = u /\ r.con = place[u]
  OBVIOUS
<1> HIDE DEF r, u
<1>5. replies' \in Seq(Answers) /\ ToSet(replies') = ToSet(replies) \cup {r}
  BY <1>2, <1>3, AppendSet DEF IInv, WaitingType
<1>6. WaitingType'
  BY <1>1, <1>3, <1>5 DEF IInv, WaitingType
<1>7. KnownInv'
  BY <1>1, <1>3, <1>4, <1>5 DEF IInv, KnownInv
<1>8. WaitingIsAsked'
  BY <1>1, <1>3, <1>4, <1>5 DEF IInv, WaitingIsAsked
<1>9. QED BY <1>6, <1>7, <1>8 DEF IInv

\* With the server its lists are gone.
LEMMA DeathStep ==
    ASSUME IInv, Dies
    PROVE  IInv'
<1>1. /\ map' \in [Uin -> Seq(Message)] /\ \A u \in Uin : map'[u] = <<>>
      /\ UNCHANGED <<conns_head, requests, replies, place, accepted, may>>
  BY EmptySeq DEF Dies
<1>2. QED BY <1>1 DEF IInv, WaitingType, KnownInv, WaitingIsAsked

LEMMA OtherStep ==
    ASSUME IInv,
           \/ \E u \in Uin : cmd_offline_msg(u) \/ LogOut(u)
           \/ \E c \in Con : cmd_conn_info(c) \/ del_con(c)
           \/ \E u \in Uin, c \in Con : LogIn(u, c)
    PROVE  IInv'
<1>1. UNCHANGED <<map, requests, replies, accepted, may>>
  BY DEF cmd_offline_msg, LogOut, cmd_conn_info, del_con, LogIn
<1>2. /\ place' \in [Uin -> Con \cup {NoCon}] /\ conns_head' \in SUBSET Con
      /\ "leave" \notin may => conns_head \subseteq conns_head'
      /\ "leave" \notin may =>
            \A u \in Uin : place'[u] \in {place[u], NoCon} \cup conns_head
  BY DEF cmd_offline_msg, LogOut, cmd_conn_info, del_con, LogIn, IInv, WaitingType
<1>3. WaitingType' /\ WaitingIsAsked'
  BY <1>1, <1>2 DEF IInv, WaitingType, WaitingIsAsked
<1>4. KnownInv'
  BY <1>1, <1>2 DEF IInv, KnownInv
<1>5. QED BY <1>3, <1>4 DEF IInv

LEMMA WaitingStep ==
    ASSUME IInv, [Next]_vars
    PROVE  IInv'
<1>1. CASE UNCHANGED vars
  BY <1>1 DEF vars, IInv, WaitingType, KnownInv, WaitingIsAsked
<1>2. ASSUME NEW from \in Uin, NEW to \in Uin, NEW len \in Length,
             cmd_message(from, to, "chat", len)
      PROVE  IInv'
  BY <1>2, LengthAssumption, MessageStep
<1>3. ASSUME NEW from \in Uin, NEW to \in Uin, NEW type \in FriendType,
             cmd_message(from, to, type, 0)
      PROVE  IInv'
  BY <1>3, MessageStep
<1>4. CASE overrun_query \/ \E u \in Uin : overrun_rows(u)
  BY <1>4, DeathStep DEF overrun_query, overrun_rows
<1>5. QED BY <1>1, <1>2, <1>3, <1>4, AnswerStep, StatusStep, OtherStep DEF Next

\* As long as connection servers stay, a message that waits has a request or an
\* answer on its way, whatever else happens: friend messages, statements that
\* fail, users who come and go.
THEOREM AskedCorrect == Spec => []WaitingIsAsked
<1>1. IInv => WaitingIsAsked
  BY DEF IInv
<1>2. QED BY <1>1, WaitingInit, WaitingStep, PTL DEF Spec

-----------------------------------------------------------------------------
(* Recursion and induction, in a form without operators as parameters.     *)

LEMMA Least ==
    ASSUME NEW T \in SUBSET Nat, T # {}
    PROVE  \E x \in T : \A y \in T : x <= y
<1>1. IsWellFoundedOn(OpToRel(<, Nat), Nat)
  BY NatLessThanWellFounded
<1>2. PICK x \in T : \A y \in T : ~(<<y, x>> \in OpToRel(<, Nat))
  BY <1>1, WFMin
<1>3. \A y \in T : x \in Nat /\ y \in Nat /\ ~(y < x)
  BY <1>2 DEF OpToRel
<1>4. \A y \in T : x <= y
  BY <1>3
<1>5. QED BY <1>2, <1>4

\* What holds of 0, and of each of the next n if of the one before, holds of all.
LEMMA UpTo ==
    ASSUME NEW n \in Nat, NEW S, 0 \in S, \A i \in 1 .. n : i - 1 \in S => i \in S
    PROVE  \A i \in 0 .. n : i \in S
<1>1. SUFFICES ASSUME (0 .. n) \ S # {} PROVE FALSE
  OBVIOUS
<1> DEFINE T == (0 .. n) \ S
<1>2. T \in SUBSET Nat
  OBVIOUS
<1>3. PICK x \in T : \A y \in T : x <= y
  <2> HIDE DEF T
  <2>1. T # {}
    BY <1>1 DEF T
  <2>2. QED BY <1>2, <2>1, Least
<1>4. x # 0 /\ x \in 1 .. n /\ x - 1 \in 0 .. n /\ ~(x <= x - 1)
  BY <1>3
<1>5. x - 1 \in S
  BY <1>3, <1>4
<1>6. QED BY <1>3, <1>4, <1>5

\* What computes each of n values from the one before, and the values.
Computes(n, V) == [(1 .. n) \X V -> V]
Values(n, V, v, F, r) ==
    r \in [0 .. n -> V] /\ r[0] = v /\ \A i \in 1 .. n : r[i] = F[<<i, r[i - 1]>>]

LEMMA Recursion ==
    ASSUME NEW n \in Nat, NEW V, NEW v \in V, NEW F \in Computes(n, V)
    PROVE  \E r : Values(n, V, v, F, r)
<1> USE DEF Computes, Values
<1> DEFINE S == {k \in 0 .. n : \E r \in [0 .. k -> V] :
                    r[0] = v /\ \A i \in 1 .. k : r[i] = F[<<i, r[i - 1]>>]}
<1>1. 0 \in S
  <2> DEFINE r == [i \in 0 .. 0 |-> v]
  <2>1. r \in [0 .. 0 -> V] /\ r[0] = v /\ \A i \in 1 .. 0 : r[i] = F[<<i, r[i - 1]>>]
    OBVIOUS
  <2> HIDE DEF r
  <2>2. 0 \in 0 .. n
    OBVIOUS
  <2>3. QED BY <2>1, <2>2
<1>2. ASSUME NEW k \in 1 .. n, k - 1 \in S PROVE k \in S
  <2>1. PICK r \in [0 .. k - 1 -> V] :
            r[0] = v /\ \A i \in 1 .. k - 1 : r[i] = F[<<i, r[i - 1]>>]
    BY <1>2
  <2> DEFINE next == F[<<k, r[k - 1]>>]
             t == [i \in 0 .. k |-> IF i = k THEN next ELSE r[i]]
  <2>2. \A i \in 0 .. k : i = k \/ i \in 0 .. k - 1
    OBVIOUS
  <2>3. r[k - 1] \in V /\ next \in V
    BY <2>1
  <2> HIDE DEF next
  <2>4. t \in [0 .. k -> V]
    BY <2>1, <2>2, <2>3
  <2>5. t[0] = v
    BY <2>1
  <2>6. ASSUME NEW i \in 1 .. k PROVE t[i] = F[<<i, t[i - 1]>>]
    <3>1. t[i - 1] = r[i - 1]
      OBVIOUS
    <3>2. CASE i = k
      <4>1. t[k] = next
        OBVIOUS
      <4> HIDE DEF t
      <4>2. QED BY <3>1, <3>2, <4>1 DEF next
    <3>3. CASE i # k
      <4>1. i \in 1 .. k - 1 /\ t[i] = r[i]
        BY <3>3
      <4>2. QED BY <2>1, <3>1, <4>1
    <3>4. QED BY <3>2, <3>3
  <2>7. k \in 0 .. n
    OBVIOUS
  <2> HIDE DEF t
  <2>8. QED BY <2>4, <2>5, <2>6, <2>7
<1> HIDE DEF S
<1>3. n \in 0 .. n /\ \A i \in 0 .. n : i \in S
  BY <1>1, <1>2, UpTo
<1>4. n \in S
  BY <1>3
<1>5. QED BY <1>4 DEF S

-----------------------------------------------------------------------------
(* The rows, step by step.                                                 *)

\* A row has a text, and a text has a message.
FullRow == {row \in Row : row.text # <<>>}
Rows == [Uin -> FullRow \cup {NULL}]

LEMMA StoredType ==
    ASSUME NEW rows \in Rows, NEW m \in Message
    PROVE  Stored(rows, m) \in Rows
<1>1. m.from \in Uin /\ m.type \in {"chat"} \cup FriendType
  BY DEF Message
<1>2. [type |-> m.type, text |-> <<m>>] \in FullRow
  BY <1>1 DEF Row, FullRow
<1>3. ASSUME NEW row \in FullRow PROVE [type |-> row.type, text |-> Append(row.text, m)] \in FullRow
  <2>1. row.type \in {"chat"} \cup FriendType /\ row.text \in Seq(Message)
    BY DEF Row, FullRow
  <2>2. Append(row.text, m) \in Seq(Message) /\ Append(row.text, m) # <<>>
    BY <2>1, AppendProperties
  <2>3. QED BY <2>1, <2>2 DEF Row, FullRow
<1>4. CASE rows[m.from] = NULL
  <2>1. Stored(rows, m) = [rows EXCEPT ![m.from] = [type |-> m.type, text |-> <<m>>]]
    BY <1>4 DEF Stored
  <2>2. QED BY <1>1, <1>2, <2>1 DEF Rows
<1>5. CASE rows[m.from] # NULL
  <2> DEFINE row == rows[m.from]
             new == [type |-> row.type, text |-> Append(row.text, m)]
  <2>1. new \in FullRow
    BY <1>1, <1>3, <1>5 DEF Rows
  <2>2. Stored(rows, m) \in {rows, [rows EXCEPT ![m.from] = new]}
    BY <1>5 DEF Stored
  <2> HIDE DEF new
  <2>3. QED BY <1>1, <2>1, <2>2 DEF Rows
<1>6. QED BY <1>4, <1>5

\* What message_store and message_update make of the rows, message by message.
LEMMA StoredSteps ==
    ASSUME NEW rows \in Rows, NEW msgs \in Seq(Message), NEW failed
    PROVE  \E r \in [0 .. Len(msgs) -> Rows] :
              /\ r[0] = rows
              /\ \A i \in 1 .. Len(msgs) :
                    r[i] = IF i \in failed THEN r[i - 1] ELSE Stored(r[i - 1], msgs[i])
              /\ StoredAll(rows, msgs, failed) = r[Len(msgs)]
<1> DEFINE n == Len(msgs)
           Step(q, i) == IF i = 0 THEN rows
                         ELSE IF i \in failed THEN q[i - 1] ELSE Stored(q[i - 1], msgs[i])
           F == [p \in (1 .. n) \X Rows |->
                    IF p[1] \in failed THEN p[2] ELSE Stored(p[2], msgs[p[1]])]
           r == CHOOSE q : q = [i \in 0 .. n |-> Step(q, i)]
<1>1. n \in Nat /\ \A i \in 1 .. n : msgs[i] \in Message
  BY LenProperties, ElementOfSeq
<1>2. F \in Computes(n, Rows)
  BY <1>1, StoredType DEF Computes
<1>3. \A i \in 1 .. n, x \in Rows :
        F[<<i, x>>] = IF i \in failed THEN x ELSE Stored(x, msgs[i])
  OBVIOUS
<1>4. StoredAll(rows, msgs, failed) = r[n]
  BY DEF StoredAll
<1> HIDE DEF F, n, r
<1>5. PICK q : q \in [0 .. n -> Rows] /\ q[0] = rows /\ \A i \in 1 .. n : q[i] = F[<<i, q[i - 1]>>]
  <2>1. \E q : Values(n, Rows, rows, F, q)
    BY <1>1, <1>2, Recursion
  <2>2. QED BY <2>1 DEF Values
<1>6. \A i \in 0 .. n : q[i] = Step(q, i)
  <2>1. \A i \in 0 .. n : i = 0 \/ (i \in 1 .. n /\ i # 0 /\ i - 1 \in 0 .. n)
    BY <1>1
  <2>2. QED BY <1>3, <1>5, <2>1
<1>7. q = [i \in 0 .. n |-> Step(q, i)]
  BY <1>5, <1>6
<1>8. r = [i \in 0 .. n |-> Step(r, i)]
  BY <1>7 DEF r
<1>9. r[0] = rows /\ \A i \in 1 .. n :
        r[i] = IF i \in failed THEN r[i - 1] ELSE Stored(r[i - 1], msgs[i])
  <2>1. 0 \in 0 .. n /\ \A i \in 1 .. n : i \in 0 .. n /\ i # 0
    BY <1>1
  <2>2. \A i \in 0 .. n : r[i] = Step(r, i)
    BY <1>8
  <2>3. QED BY <2>1, <2>2
<1>10. r \in [0 .. n -> Rows]
  <2> DEFINE S == {i \in 0 .. n : r[i] \in Rows}
  <2>1. 0 \in S
    BY <1>1, <1>9
  <2>2. \A i \in 1 .. n : i - 1 \in S => i \in S
    BY <1>1, <1>9, StoredType
  <2> HIDE DEF S
  <2>3. \A i \in 0 .. n : i \in S
    BY <1>1, <2>1, <2>2, UpTo
  <2>4. QED BY <1>8, <2>3 DEF S
<1>11. QED BY <1>4, <1>9, <1>10 DEF n

\* The chats of a text, message by message.
LEMMA ChatsSteps ==
    ASSUME NEW text \in Seq(Message)
    PROVE  \E c \in [0 .. Len(text) -> Seq(Message)] :
              /\ c[0] = <<>>
              /\ \A i \in 1 .. Len(text) :
                    c[i] = IF text[i].type = "chat" THEN Append(c[i - 1], text[i]) ELSE c[i - 1]
              /\ Chats(text) = c[Len(text)]
<1> DEFINE n == Len(text)
           V == Seq(Message)
           Step(q, i) == IF i = 0 THEN <<>>
                         ELSE IF text[i].type = "chat" THEN Append(q[i - 1], text[i]) ELSE q[i - 1]
           F == [p \in (1 .. n) \X V |->
                    IF text[p[1]].type = "chat" THEN Append(p[2], text[p[1]]) ELSE p[2]]
           c == CHOOSE q : q = [i \in 0 .. n |-> Step(q, i)]
<1>1. n \in Nat /\ <<>> \in V
      /\ \A i \in 1 .. n : \A x \in V : Append(x, text[i]) \in V
  BY LenProperties, ElementOfSeq, EmptySeq, AppendProperties
<1> HIDE DEF V
<1>2. F \in Computes(n, V)
  BY <1>1 DEF Computes
<1>3. \A i \in 1 .. n, x \in V :
        F[<<i, x>>] = IF text[i].type = "chat" THEN Append(x, text[i]) ELSE x
  OBVIOUS
<1>4. Chats(text) = c[n]
  BY DEF Chats
<1> HIDE DEF F, n, c
<1>5. PICK q : q \in [0 .. n -> V] /\ q[0] = <<>> /\ \A i \in 1 .. n : q[i] = F[<<i, q[i - 1]>>]
  <2>1. \E q : Values(n, V, <<>>, F, q)
    BY <1>1, <1>2, Recursion
  <2>2. QED BY <2>1 DEF Values
<1>6. \A i \in 0 .. n : q[i] = Step(q, i)
  <2>1. \A i \in 0 .. n : i = 0 \/ (i \in 1 .. n /\ i # 0 /\ i - 1 \in 0 .. n)
    BY <1>1
  <2>2. ASSUME NEW i \in 1 .. n, i # 0, i - 1 \in 0 .. n PROVE q[i] = Step(q, i)
    <3>1. q[i - 1] \in V
      BY <1>5, <2>2
    <3>2. F[<<i, q[i - 1]>>] = IF text[i].type = "chat" THEN Append(q[i - 1], text[i]) ELSE q[i - 1]
      BY <1>3, <3>1
    <3>3. QED BY <1>5, <2>2, <3>2
  <2>3. q[0] = Step(q, 0)
    BY <1>5
  <2> HIDE DEF Step
  <2>4. QED BY <2>1, <2>2, <2>3
<1>7. q = [i \in 0 .. n |-> Step(q, i)]
  BY <1>5, <1>6
<1>8. c = [i \in 0 .. n |-> Step(c, i)]
  BY <1>7 DEF c
<1>9. c[0] = <<>> /\ \A i \in 1 .. n :
        c[i] = IF text[i].type = "chat" THEN Append(c[i - 1], text[i]) ELSE c[i - 1]
  <2>1. 0 \in 0 .. n /\ \A i \in 1 .. n : i \in 0 .. n /\ i # 0
    BY <1>1
  <2>2. \A i \in 0 .. n : c[i] = Step(c, i)
    BY <1>8
  <2>3. QED BY <2>1, <2>2
<1>10. c \in [0 .. n -> V]
  <2> DEFINE S == {i \in 0 .. n : c[i] \in V}
  <2>1. 0 \in S
    BY <1>1, <1>9
  <2>2. \A i \in 1 .. n : i - 1 \in S => i \in S
    BY <1>1, <1>9
  <2> HIDE DEF S
  <2>3. \A i \in 0 .. n : i \in S
    BY <1>1, <2>1, <2>2, UpTo
  <2>4. QED BY <1>8, <2>3 DEF S
<1>11. QED BY <1>4, <1>9, <1>10 DEF n, V

\* A sequence of sequences, one after the other.
LEMMA FlattenSteps ==
    ASSUME NEW T, NEW s \in Seq(Seq(T))
    PROVE  \E f \in [0 .. Len(s) -> Seq(T)] :
              /\ f[0] = <<>>
              /\ \A i \in 1 .. Len(s) : f[i] = f[i - 1] \o s[i]
              /\ FlattenSeq(s) = f[Len(s)]
<1> DEFINE n == Len(s)
           V == Seq(T)
<1>1. n \in Nat /\ <<>> \in V
      /\ \A i \in 1 .. n : s[i] \in V /\ <<>> \o s[i] = s[i] /\ \A x \in V : x \o s[i] \in V
  BY LenProperties, ElementOfSeq, EmptySeq, ConcatProperties, ConcatEmptySeq
<1> HIDE DEF V
<1>2. CASE n = 0
  <2> DEFINE f == [i \in 0 .. n |-> <<>>]
  <2>1. s = <<>>
    BY <1>2, EmptySeq
  <2>2. FlattenSeq(s) = <<>>
    BY <1>2, <2>1 DEF FlattenSeq
  <2>3. f \in [0 .. n -> V] /\ f[0] = <<>> /\ f[n] = <<>>
    BY <1>1, <1>2
  <2> HIDE DEF f
  <2>4. QED BY <1>2, <2>2, <2>3 DEF V
<1>3. CASE n # 0
  <2> DEFINE Step(q, i) == IF i = 1 THEN s[i] ELSE q[i - 1] \o s[i]
             F == [p \in (1 .. n) \X V |-> p[2] \o s[p[1]]]
             g == CHOOSE q : q = [i \in 1 .. n |-> Step(q, i)]
  <2>1. F \in Computes(n, V)
    BY <1>1 DEF Computes
  <2>2. \A i \in 1 .. n, x \in V : F[<<i, x>>] = x \o s[i]
    OBVIOUS
  <2>3. FlattenSeq(s) = g[n]
    BY <1>3 DEF FlattenSeq
  <2> HIDE DEF F, n, g
  <2>4. PICK q : q \in [0 .. n -> V] /\ q[0] = <<>> /\ \A i \in 1 .. n : q[i] = F[<<i, q[i - 1]>>]
    <3>1. \E q : Values(n, V, <<>>, F, q)
      BY <1>1, <2>1, Recursion
    <3>2. QED BY <3>1 DEF Values
  <2>5. \A i \in 1 .. n : i - 1 \in 0 .. n
    BY <1>1
  <2>6. \A i \in 1 .. n : q[i] = q[i - 1] \o s[i]
    BY <2>2, <2>4, <2>5
  <2> DEFINE h == [i \in 1 .. n |-> q[i]]
  <2>7. h = [i \in 1 .. n |-> Step(h, i)]
    <3>1. ASSUME NEW i \in 1 .. n PROVE q[i] = Step(h, i)
      <4>1. CASE i = 1
        <5>1. i - 1 = 0
          BY <4>1
        <5>2. q[i] = <<>> \o s[i]
          <6>1. q[i] = q[i - 1] \o s[i]
            BY <2>6
          <6>2. QED BY <2>4, <5>1, <6>1
        <5>3. QED BY <1>1, <4>1, <5>2
      <4>2. CASE i # 1
        <5>1. i - 1 \in 1 .. n
          BY <1>1, <4>2
        <5>2. QED BY <2>6, <4>2, <5>1
      <4>3. QED BY <4>1, <4>2
    <3>2. QED BY <3>1
  <2> HIDE DEF h
  <2>8. g = [i \in 1 .. n |-> Step(g, i)]
    BY <2>7 DEF g
  <2>9. \A i \in 1 .. n : g[i] = Step(g, i)
    BY <2>8
  <2>10. \A i \in 1 .. n : g[i] = q[i]
    <3> DEFINE S == {i \in 0 .. n : i = 0 \/ g[i] = q[i]}
    <3>1. 0 \in S
      BY <1>1
    <3>2. ASSUME NEW i \in 1 .. n, i - 1 \in S PROVE i \in S
      <4>1. CASE i = 1
        <5>1. i - 1 = 0
          BY <4>1
        <5>2. q[i] = <<>> \o s[i]
          <6>1. q[i] = q[i - 1] \o s[i]
            BY <2>6
          <6>2. QED BY <2>4, <5>1, <6>1
        <5>3. g[i] = s[i]
          BY <2>9, <4>1
        <5>4. g[i] = q[i] /\ i \in 0 .. n
          BY <1>1, <5>2, <5>3
        <5>5. QED BY <5>4
      <4>2. CASE i # 1
        <5>1. g[i - 1] = q[i - 1]
          BY <1>1, <3>2, <4>2
        <5>2. g[i] = g[i - 1] \o s[i] /\ q[i] = q[i - 1] \o s[i]
          BY <2>6, <2>9, <4>2
        <5>3. g[i] = q[i]
          BY <5>1, <5>2
        <5>4. i \in 0 .. n
          BY <1>1
        <5>5. QED BY <5>3, <5>4
      <4>3. QED BY <4>1, <4>2
    <3> HIDE DEF S
    <3>3. \A i \in 0 .. n : i \in S
      BY <1>1, <3>1, <3>2, UpTo
    <3>4. QED BY <3>3, <1>1 DEF S
  <2>11. FlattenSeq(s) = q[n]
    BY <1>1, <1>3, <2>3, <2>10
  <2>12. QED BY <2>4, <2>6, <2>11 DEF n, V
<1>4. QED BY <1>2, <1>3

LEMMA ToldType ==
    ASSUME NEW row \in FullRow \cup {NULL}
    PROVE  Told(row) \in Seq(Message)
<1>1. CASE row = NULL
  BY <1>1, EmptySeq DEF Told
<1>2. CASE row # NULL
  <2>1. row.text \in Seq(Message) /\ row.text # <<>>
    BY <1>2 DEF FullRow, Row
  <2>2. Head(row.text) \in Message
    BY <2>1, HeadTailProperties
  <2>3. Chats(row.text) \in Seq(Message)
    <3>1. PICK c \in [0 .. Len(row.text) -> Seq(Message)] : Chats(row.text) = c[Len(row.text)]
      BY <2>1, ChatsSteps
    <3>2. Len(row.text) \in 0 .. Len(row.text)
      BY <2>1, LenProperties
    <3>3. QED BY <3>1, <3>2
  <2>4. QED BY <1>2, <2>2, <2>3 DEF Told
<1>3. QED BY <1>1, <1>2

\* What the rows of a user tell him, in any order.
LEMMA TellingType ==
    ASSUME NEW rows \in Rows, NEW order \in SetToSeqs(Uin), NEW told
    PROVE  /\ Telling(rows, order, told) \in Seq(Seq(Message))
           /\ Len(Telling(rows, order, told)) = Cardinality(Uin)
           /\ FlattenSeq(Telling(rows, order, told)) \in Seq(Message)
<1> DEFINE n == Cardinality(Uin)
           s == Telling(rows, order, told)
<1>1. n \in Nat
  BY UinAssumption, FS_CardinalityType
<1>2. order \in [1 .. n -> Uin]
  BY DEF SetToSeqs
<1> HIDE DEF n
<1>3. \A i \in 1 .. n : Told(rows[order[i]]) \in Seq(Message) /\ <<>> \in Seq(Message)
  BY <1>2, ToldType, EmptySeq DEF Rows
<1>4. s \in [1 .. n -> Seq(Message)]
  BY <1>2, <1>3 DEF Telling
<1> HIDE DEF s
<1>5. s \in Seq(Seq(Message)) /\ Len(s) = n
  BY <1>1, <1>4, IsASeq, LenProperties
<1>6. FlattenSeq(s) \in Seq(Message)
  <2>1. PICK f \in [0 .. n -> Seq(Message)] : FlattenSeq(s) = f[n]
    BY <1>5, FlattenSteps
  <2>2. QED BY <1>1, <2>1
<1>7. QED BY <1>5, <1>6 DEF n, s

-----------------------------------------------------------------------------
(* The types.                                                              *)

TypeInv ==
    /\ IInv
    /\ offline_msg \in [Uin -> Rows]
    /\ accepted \in 0 .. MaxMsg
    /\ sent \in [Uin -> Seq(Message)]
    /\ running \in BOOLEAN
    /\ may \in Chances

LEMMA TypeInit == Init => TypeInv
<1> SUFFICES ASSUME Init PROVE TypeInv
  OBVIOUS
<1>1. IInv
  BY WaitingInit
<1>2. [w \in Uin |-> NULL] \in Rows
  BY DEF Rows
<1>3. sent \in [Uin -> Seq(Message)]
  BY EmptySeq DEF Init
<1>4. /\ offline_msg \in [Uin -> Rows] /\ accepted \in 0 .. MaxMsg
      /\ running \in BOOLEAN /\ may \in Chances
  BY <1>2, MsgAssumption DEF Init
<1>5. QED BY <1>1, <1>3, <1>4 DEF TypeInv

\* What a user has been sent and the rows that are left.
LEMMA SentType ==
    ASSUME TypeInv, NEW u \in Uin, cmd_offline_msg(u) \/ overrun_rows(u)
    PROVE  /\ sent' \in [Uin -> Seq(Message)]
           /\ offline_msg' \in [Uin -> Rows]
<1>1. \E order \in SetToSeqs(Uin) : \E told :
        sent' = [sent EXCEPT ![u] = @ \o FlattenSeq(Telling(offline_msg[u], order, told))]
  BY DEF cmd_offline_msg, overrun_rows
<1>2. PICK order \in SetToSeqs(Uin) : \E told :
        sent' = [sent EXCEPT ![u] = @ \o FlattenSeq(Telling(offline_msg[u], order, told))]
  BY <1>1
<1>3. PICK told :
        sent' = [sent EXCEPT ![u] = @ \o FlattenSeq(Telling(offline_msg[u], order, told))]
  BY <1>2
<1>4. /\ FlattenSeq(Telling(offline_msg[u], order, told)) \in Seq(Message)
      /\ sent[u] \in Seq(Message)
  BY TellingType DEF TypeInv
<1>5. sent[u] \o FlattenSeq(Telling(offline_msg[u], order, told)) \in Seq(Message)
  BY <1>4, ConcatProperties
<1>6. sent' \in [Uin -> Seq(Message)]
  BY <1>3, <1>5 DEF TypeInv
<1>7. offline_msg' \in [Uin -> Rows]
  <2>1. [w \in Uin |-> NULL] \in Rows
    BY DEF Rows
  <2>2. QED BY <2>1 DEF cmd_offline_msg, overrun_rows, TypeInv
<1>8. QED BY <1>6, <1>7

LEMMA StoredAllType ==
    ASSUME NEW rows \in Rows, NEW msgs \in Seq(Message), NEW failed
    PROVE  StoredAll(rows, msgs, failed) \in Rows
<1>1. PICK r \in [0 .. Len(msgs) -> Rows] : StoredAll(rows, msgs, failed) = r[Len(msgs)]
  BY StoredSteps
<1>2. Len(msgs) \in 0 .. Len(msgs)
  BY LenProperties
<1>3. QED BY <1>1, <1>2

LEMMA TypeStep ==
    ASSUME TypeInv, [Next]_vars
    PROVE  TypeInv'
<1>1. IInv'
  BY WaitingStep DEF TypeInv
<1>2. CASE UNCHANGED vars
  BY <1>1, <1>2 DEF vars, TypeInv
<1>3. ASSUME NEW from \in Uin, NEW to \in Uin, NEW type, NEW len,
             cmd_message(from, to, type, len)
      PROVE  TypeInv'
  <2>1. accepted' \in 0 .. MaxMsg
    BY <1>3, MsgAssumption DEF TypeInv, cmd_message
  <2>2. QED BY <1>1, <1>3, <2>1 DEF TypeInv, cmd_message
<1>4. CASE send_msg
  <2>1. Head(replies).uin \in Uin
    <3>1. Head(replies) \in Answers
      BY <1>4, HeadTailProperties DEF send_msg, TypeInv, IInv, WaitingType
    <3>2. QED BY <3>1 DEF Answers
  <2>2. sent' \in [Uin -> Seq(Message)]
    <3>1. \A u \in Uin : sent[u] \o map[u] \in Seq(Message)
      BY ConcatProperties DEF TypeInv, IInv, WaitingType
    <3>2. QED BY <1>4, <2>1, <3>1 DEF send_msg, TypeInv
  <2>3. QED BY <1>1, <1>4, <2>2 DEF TypeInv, send_msg
<1>5. CASE store_offline_msg \/ overrun_query
  <2>1. offline_msg' \in [Uin -> Rows]
    <3>1. \A u \in Uin : \A failed : StoredAll(offline_msg[u], map[u], failed) \in Rows
      BY StoredAllType DEF TypeInv, IInv, WaitingType
    <3>2. PICK failed : offline_msg' = [offline_msg EXCEPT ![Head(replies).uin] =
                            StoredAll(offline_msg[Head(replies).uin], map[Head(replies).uin], failed)]
      BY <1>5 DEF store_offline_msg, overrun_query
    <3>3. QED BY <3>1, <3>2 DEF TypeInv
  <2>2. accepted' = accepted /\ sent' = sent /\ may' = may /\ running' \in BOOLEAN
    BY <1>5 DEF store_offline_msg, overrun_query, Dies, TypeInv
  <2>3. QED BY <1>1, <2>1, <2>2 DEF TypeInv
<1>6. ASSUME NEW u \in Uin, cmd_offline_msg(u) \/ overrun_rows(u)
      PROVE  TypeInv'
  <2>1. sent' \in [Uin -> Seq(Message)] /\ offline_msg' \in [Uin -> Rows]
    BY <1>6, SentType
  <2>2. accepted' = accepted /\ may' = may /\ running' \in BOOLEAN
    BY <1>6 DEF cmd_offline_msg, overrun_rows, Dies, TypeInv
  <2>3. QED BY <1>1, <2>1, <2>2 DEF TypeInv
<1>7. ASSUME \/ GetStatus
             \/ \E u \in Uin : LogOut(u)
             \/ \E c \in Con : cmd_conn_info(c) \/ del_con(c)
             \/ \E u \in Uin, c \in Con : LogIn(u, c)
      PROVE  TypeInv'
  <2>1. UNCHANGED <<offline_msg, accepted, sent, running, may>>
    BY <1>7 DEF GetStatus, LogOut, cmd_conn_info, del_con, LogIn
  <2>2. QED BY <1>1, <2>1 DEF TypeInv
<1>8. QED BY <1>2, <1>3, <1>4, <1>5, <1>6, <1>7 DEF Next

\* The variables have their types: whatever fails and whoever leaves, a row has
\* a message in its text, so that message_get finds what a friend message was.
THEOREM TypeCorrect == Spec => []TypeOK
<1>1. TypeInv => TypeOK
  <2> SUFFICES ASSUME TypeInv PROVE TypeOK
    OBVIOUS
  <2>1. Rows \subseteq [Uin -> Row \cup {NULL}]
    BY DEF Rows, FullRow
  <2>2. offline_msg \in [Uin -> [Uin -> Row \cup {NULL}]]
    BY <2>1 DEF TypeInv
  <2>3. QED BY <2>2 DEF TypeInv, IInv, WaitingType, Answers, TypeOK
<1>2. QED BY <1>1, TypeInit, TypeStep, PTL DEF Spec

-----------------------------------------------------------------------------
(* Sequences of distinct messages.                                         *)

LEMMA SeqSet ==
    ASSUME NEW T, NEW s \in Seq(T)
    PROVE  /\ Len(s) \in Nat /\ DOMAIN s = 1 .. Len(s)
           /\ ToSet(s) = {s[i] : i \in 1 .. Len(s)}
           /\ IsInjective(s) <=> \A i, j \in 1 .. Len(s) : s[i] = s[j] => i = j
<1>1. Len(s) \in Nat /\ DOMAIN s = 1 .. Len(s)
  BY LenProperties
<1>2. QED BY <1>1 DEF ToSet, IsInjective

LEMMA ConcatSet ==
    ASSUME NEW T, NEW s \in Seq(T), NEW t \in Seq(T)
    PROVE  /\ s \o t \in Seq(T)
           /\ ToSet(s \o t) = ToSet(s) \cup ToSet(t)
           /\ IsInjective(s) /\ IsInjective(t) /\ ToSet(s) \cap ToSet(t) = {}
                => IsInjective(s \o t)
<1> DEFINE r == s \o t
           k == Len(s)
           l == Len(t)
<1>1. /\ r \in Seq(T) /\ Len(r) = k + l
      /\ \A i \in 1 .. k + l : r[i] = IF i <= k THEN s[i] ELSE t[i - k]
  BY ConcatProperties
<1>2. /\ k \in Nat /\ l \in Nat
      /\ ToSet(s) = {s[i] : i \in 1 .. k} /\ ToSet(t) = {t[i] : i \in 1 .. l}
      /\ IsInjective(s) <=> \A i, j \in 1 .. k : s[i] = s[j] => i = j
      /\ IsInjective(t) <=> \A i, j \in 1 .. l : t[i] = t[j] => i = j
  BY SeqSet
<1>3. /\ ToSet(r) = {r[i] : i \in 1 .. k + l}
      /\ IsInjective(r) <=> \A i, j \in 1 .. k + l : r[i] = r[j] => i = j
  BY <1>1, SeqSet
<1> HIDE DEF r, k, l
<1>4. /\ \A i \in 1 .. k : i \in 1 .. k + l /\ r[i] = s[i]
      /\ \A i \in 1 .. l : i + k \in 1 .. k + l /\ r[i + k] = t[i]
      /\ \A i \in 1 .. k + l :
            \/ i \in 1 .. k /\ r[i] = s[i]
            \/ i - k \in 1 .. l /\ r[i] = t[i - k]
  <2>1. ASSUME NEW i \in 1 .. k PROVE i \in 1 .. k + l /\ r[i] = s[i]
    <3>1. i \in 1 .. k + l /\ i <= k
      BY <1>2
    <3>2. QED BY <1>1, <3>1
  <2>2. ASSUME NEW i \in 1 .. l PROVE i + k \in 1 .. k + l /\ r[i + k] = t[i]
    <3>1. PICK j \in 1 .. k + l : j = i + k /\ ~(j <= k) /\ j - k = i
      BY <1>2
    <3>2. r[j] = t[j - k]
      BY <1>1, <3>1
    <3>3. QED BY <3>1, <3>2
  <2>3. ASSUME NEW i \in 1 .. k + l
        PROVE  \/ i \in 1 .. k /\ r[i] = s[i]
               \/ i - k \in 1 .. l /\ r[i] = t[i - k]
    <3>1. (i <= k /\ i \in 1 .. k) \/ (~(i <= k) /\ i - k \in 1 .. l)
      BY <1>2
    <3>2. r[i] = IF i <= k THEN s[i] ELSE t[i - k]
      BY <1>1
    <3>3. QED BY <3>1, <3>2
  <2>4. QED BY <2>1, <2>2, <2>3
<1>5. ToSet(r) = ToSet(s) \cup ToSet(t)
  <2>1. ASSUME NEW x \in ToSet(r) PROVE x \in ToSet(s) \cup ToSet(t)
    <3>1. PICK i \in 1 .. k + l : x = r[i]
      BY <1>3
    <3>2. \/ i \in 1 .. k /\ r[i] = s[i]
          \/ i - k \in 1 .. l /\ r[i] = t[i - k]
      BY <1>4
    <3>3. QED BY <1>2, <3>1, <3>2
  <2>2. ASSUME NEW x \in ToSet(s) PROVE x \in ToSet(r)
    <3>1. PICK i \in 1 .. k : x = s[i]
      BY <1>2
    <3>2. i \in 1 .. k + l /\ r[i] = x
      BY <1>4, <3>1
    <3>3. QED BY <1>3, <3>2
  <2>3. ASSUME NEW x \in ToSet(t) PROVE x \in ToSet(r)
    <3>1. PICK i \in 1 .. l : x = t[i]
      BY <1>2
    <3>2. i + k \in 1 .. k + l /\ r[i + k] = x
      BY <1>4, <3>1
    <3>3. QED BY <1>3, <3>2
  <2>4. QED BY <2>1, <2>2, <2>3
<1>6. ASSUME IsInjective(s), IsInjective(t), ToSet(s) \cap ToSet(t) = {}
      PROVE  IsInjective(r)
  <2>1. SUFFICES ASSUME NEW i \in 1 .. k + l, NEW j \in 1 .. k + l, r[i] = r[j]
                 PROVE  i = j
    BY <1>3
  <2>2. ASSUME NEW x \in 1 .. k, NEW y \in 1 .. l PROVE s[x] # t[y]
    <3>1. s[x] \in ToSet(s) /\ t[y] \in ToSet(t)
      BY <1>2
    <3>2. QED BY <1>6, <3>1
  <2>3. CASE i \in 1 .. k /\ r[i] = s[i]
    <3>1. j \in 1 .. k /\ r[j] = s[j]
      BY <1>4, <2>1, <2>2, <2>3
    <3>2. QED BY <1>2, <1>6, <2>1, <2>3, <3>1
  <2>4. CASE i - k \in 1 .. l /\ r[i] = t[i - k]
    <3>1. j - k \in 1 .. l /\ r[j] = t[j - k]
      BY <1>4, <2>1, <2>2, <2>4
    <3>2. i - k = j - k
      BY <1>2, <1>6, <2>1, <2>4, <3>1
    <3>3. QED BY <1>2, <3>2
  <2>5. QED BY <1>4, <2>3, <2>4
<1>7. QED BY <1>1, <1>5, <1>6 DEF r

LEMMA SingleSet ==
    ASSUME NEW T, NEW x \in T
    PROVE  <<x>> \in Seq(T) /\ ToSet(<<x>>) = {x} /\ IsInjective(<<x>>)
<1>1. <<x>> \in Seq(T) /\ Len(<<x>>) = 1 /\ <<x>>[1] = x
  OBVIOUS
<1>2. QED BY <1>1 DEF ToSet, IsInjective

LEMMA EmptySet == ToSet(<<>>) = {} /\ IsInjective(<<>>)
BY DEF ToSet, IsInjective

\* What comes after s in s \o t.
LEMMA NextOfConcat ==
    ASSUME NEW T, NEW s \in Seq(T), NEW t \in Seq(T)
    PROVE  SubSeq(s \o t, Len(s) + 1, Len(s \o t)) = t
<1> DEFINE r == s \o t
           k == Len(s)
           l == Len(t)
           q == SubSeq(r, k + 1, k + l)
<1>1. /\ r \in Seq(T) /\ Len(r) = k + l
      /\ \A i \in 1 .. k + l : r[i] = IF i <= k THEN s[i] ELSE t[i - k]
  BY ConcatProperties
<1>2. k \in Nat /\ l \in Nat /\ \A i \in 1 .. k + l : r[i] \in T
  BY <1>1, LenProperties, ElementOfSeq
<1> HIDE DEF r, k, l
<1>3. k + 1 \in Int /\ k + l \in Int /\ \A i \in k + 1 .. k + l : r[i] \in T
  BY <1>2
<1>4. /\ q \in Seq(T)
      /\ Len(q) = IF k + 1 <= k + l THEN (k + l) - (k + 1) + 1 ELSE 0
      /\ \A i \in 1 .. (k + l) - (k + 1) + 1 : q[i] = r[k + 1 + i - 1]
  BY <1>3, SubSeqProperties
<1> HIDE DEF q
<1>5. Len(q) = l /\ (k + l) - (k + 1) + 1 = l
  BY <1>2, <1>4
<1>6. ASSUME NEW i \in 1 .. l PROVE q[i] = t[i]
  <2>1. k + 1 + i - 1 = k + i /\ k + i \in 1 .. k + l /\ ~(k + i <= k) /\ k + i - k = i
    BY <1>2
  <2>2. q[i] = r[k + i]
    BY <1>4, <1>5, <2>1
  <2>3. r[k + i] = t[i]
    <3>1. PICK j \in 1 .. k + l : j = k + i /\ ~(j <= k) /\ j - k = i
      BY <1>2, <2>1
    <3>2. r[j] = t[j - k]
      BY <1>1, <3>1
    <3>3. QED BY <3>1, <3>2
  <2>4. QED BY <2>2, <2>3
<1>7. q = t
  BY <1>4, <1>5, <1>6, SeqEqual DEF l
<1>8. QED BY <1>1, <1>7 DEF q, r, k

\* A text of chat messages only is told as it is.
LEMMA ChatsAll ==
    ASSUME NEW text \in Seq(Message), \A m \in ToSet(text) : m.type = "chat"
    PROVE  Chats(text) = text
<1> DEFINE n == Len(text)
<1>1. PICK c \in [0 .. n -> Seq(Message)] :
        /\ c[0] = <<>>
        /\ \A i \in 1 .. n :
              c[i] = IF text[i].type = "chat" THEN Append(c[i - 1], text[i]) ELSE c[i - 1]
        /\ Chats(text) = c[n]
  BY ChatsSteps
<1>2. n \in Nat /\ \A i \in 1 .. n : text[i] \in Message /\ text[i].type = "chat"
  BY SeqSet, ElementOfSeq
<1> HIDE DEF n
<1> DEFINE S == {i \in 0 .. n : Len(c[i]) = i /\ \A j \in 1 .. i : c[i][j] = text[j]}
<1>3. 0 \in S
  BY <1>1, <1>2, EmptySeq
<1>4. ASSUME NEW i \in 1 .. n, i - 1 \in S PROVE i \in S
  <2>1. /\ i - 1 \in 0 .. n /\ Len(c[i - 1]) = i - 1 /\ c[i - 1] \in Seq(Message)
        /\ \A j \in 1 .. (i - 1) : c[i - 1][j] = text[j]
    BY <1>1, <1>4
  <2>2. c[i] = Append(c[i - 1], text[i])
    BY <1>1, <1>2
  <2>3. /\ Len(c[i]) = (i - 1) + 1
        /\ \A j \in 1 .. (i - 1) : c[i][j] = c[i - 1][j]
        /\ c[i][(i - 1) + 1] = text[i]
    BY <1>2, <2>1, <2>2, AppendProperties
  <2>4. (i - 1) + 1 = i /\ i \in 0 .. n /\ \A j \in 1 .. i : j = i \/ j \in 1 .. (i - 1)
    BY <1>2
  <2>5. \A j \in 1 .. i : c[i][j] = text[j]
    BY <2>1, <2>3, <2>4
  <2>6. QED BY <2>3, <2>4, <2>5
<1> HIDE DEF S
<1>5. \A i \in 0 .. n : i \in S
  BY <1>2, <1>3, <1>4, UpTo
<1>6. n \in 0 .. n
  BY <1>2
<1>7. c[n] \in Seq(Message) /\ Len(c[n]) = n /\ \A j \in 1 .. n : c[n][j] = text[j]
  BY <1>1, <1>5, <1>6 DEF S
<1>8. c[n] = text
  BY <1>7, SeqEqual DEF n
<1>9. QED BY <1>1, <1>8

\* Sequences with nothing in common, each of distinct elements, one after the other.
LEMMA FlattenDistinct ==
    ASSUME NEW T, NEW s \in Seq(Seq(T)),
           \A i \in 1 .. Len(s) : IsInjective(s[i]),
           \A i, j \in 1 .. Len(s) : i # j => ToSet(s[i]) \cap ToSet(s[j]) = {}
    PROVE  /\ ToSet(FlattenSeq(s)) = UNION {ToSet(s[i]) : i \in 1 .. Len(s)}
           /\ IsInjective(FlattenSeq(s))
<1> DEFINE n == Len(s)
           Upto(k) == UNION {ToSet(s[j]) : j \in 1 .. k}
<1>1. PICK f \in [0 .. n -> Seq(T)] :
        /\ f[0] = <<>>
        /\ \A i \in 1 .. n : f[i] = f[i - 1] \o s[i]
        /\ FlattenSeq(s) = f[n]
  BY FlattenSteps
<1>2. n \in Nat /\ \A i \in 1 .. n : s[i] \in Seq(T) /\ IsInjective(s[i])
  BY LenProperties, ElementOfSeq
<1>3. \A i, j \in 1 .. n : i # j => ToSet(s[i]) \cap ToSet(s[j]) = {}
  OBVIOUS
<1> HIDE DEF n
<1> DEFINE S == {i \in 0 .. n : ToSet(f[i]) = Upto(i) /\ IsInjective(f[i])}
<1>4. 0 \in S
  <2>1. Upto(0) = {}
    OBVIOUS
  <2>2. QED BY <1>1, <1>2, <2>1, EmptySet
<1>5. ASSUME NEW i \in 1 .. n, i - 1 \in S PROVE i \in S
  <2>1. /\ i - 1 \in 0 .. n /\ f[i - 1] \in Seq(T) /\ s[i] \in Seq(T)
        /\ ToSet(f[i - 1]) = Upto(i - 1) /\ IsInjective(f[i - 1]) /\ IsInjective(s[i])
    BY <1>1, <1>2, <1>5
  <2>2. i \in 0 .. n /\ 1 .. i = (1 .. (i - 1)) \cup {i} /\ \A j \in 1 .. (i - 1) : j \in 1 .. n /\ j # i
    BY <1>2
  <2>3. Upto(i - 1) \cap ToSet(s[i]) = {}
    <3>1. \A j \in 1 .. (i - 1) : ToSet(s[j]) \cap ToSet(s[i]) = {}
      BY <1>3, <2>2
    <3>2. QED BY <3>1
  <2>4. Upto(i) = Upto(i - 1) \cup ToSet(s[i])
    BY <2>2
  <2> HIDE DEF Upto
  <2>5. /\ ToSet(f[i - 1] \o s[i]) = ToSet(f[i - 1]) \cup ToSet(s[i])
        /\ IsInjective(f[i - 1] \o s[i])
    BY <2>1, <2>3, ConcatSet
  <2>6. f[i] = f[i - 1] \o s[i]
    BY <1>1
  <2>7. QED BY <2>1, <2>2, <2>4, <2>5, <2>6
<1> HIDE DEF S
<1>6. \A i \in 0 .. n : i \in S
  BY <1>2, <1>4, <1>5, UpTo
<1>7. n \in 0 .. n
  BY <1>2
<1>8. ToSet(f[n]) = Upto(n) /\ IsInjective(f[n])
  BY <1>6, <1>7 DEF S
<1>9. QED BY <1>1, <1>8 DEF n

-----------------------------------------------------------------------------
(* Rows with no friend messages: a row holds chats of its sender, each once. *)

KeptOf(rows) == UNION {ToSet(rows[w].text) : w \in {v \in Uin : rows[v] # NULL}}
ChatRow(w) ==
    {row \in FullRow :
        /\ row.type = "chat"
        /\ IsInjective(row.text)
        /\ \A m \in ToSet(row.text) : m.from = w /\ m.type = "chat"}
ChatRows == {rows \in Rows : \A w \in Uin : rows[w] \in ChatRow(w) \cup {NULL}}

LEMMA NullRow == NULL \notin FullRow /\ \A w : NULL \notin ChatRow(w)
BY NULLAssumption DEF FullRow, ChatRow

LEMMA StoredKept ==
    ASSUME NEW rows \in ChatRows, NEW m \in Message,
           m.type = "chat", m \notin KeptOf(rows)
    PROVE  /\ Stored(rows, m) \in ChatRows
           /\ KeptOf(Stored(rows, m)) \in {KeptOf(rows), KeptOf(rows) \cup {m}}
           /\ \E x \in KeptOf(Stored(rows, m)) : x.from = m.from
<1> DEFINE w == m.from
           new == IF rows[w] = NULL THEN [type |-> m.type, text |-> <<m>>]
                  ELSE [type |-> rows[w].type, text |-> Append(rows[w].text, m)]
           old == IF rows[w] = NULL THEN {} ELSE ToSet(rows[w].text)
           after == Stored(rows, m)
<1>1. w \in Uin /\ rows \in Rows /\ after \in Rows
  BY StoredType DEF Message, ChatRows
<1>2. after = [rows EXCEPT ![w] = new] \/ (after = rows /\ rows[w] # NULL)
  <2>1. CASE rows[w] = NULL
    BY <2>1 DEF Stored
  <2>2. CASE rows[w] # NULL
    BY <2>2 DEF Stored
  <2>3. QED BY <2>1, <2>2
<1>3. new \in ChatRow(w) /\ ToSet(new.text) = old \cup {m}
  <2>1. CASE rows[w] = NULL
    <3>1. new = [type |-> "chat", text |-> <<m>>] /\ old = {}
      BY <2>1
    <3>2. <<m>> \in Seq(Message) /\ ToSet(<<m>>) = {m} /\ IsInjective(<<m>>) /\ <<m>> # <<>>
      BY SingleSet
    <3> HIDE DEF new, old
    <3>3. QED BY <3>1, <3>2 DEF ChatRow, FullRow, Row, w
  <2>2. CASE rows[w] # NULL
    <3> DEFINE text == rows[w].text
    <3>1. rows[w] \in ChatRow(w)
      BY <1>1, <2>2 DEF ChatRows
    <3>2. /\ text \in Seq(Message) /\ IsInjective(text) /\ rows[w].type = "chat"
          /\ \A x \in ToSet(text) : x.from = w /\ x.type = "chat"
      BY <3>1 DEF ChatRow, FullRow, Row
    <3>3. new = [type |-> "chat", text |-> Append(text, m)] /\ old = ToSet(text)
      BY <2>2, <3>2
    <3>4. m \notin ToSet(text)
      BY <1>1, <2>2 DEF KeptOf
    <3> HIDE DEF new, old, text
    <3>5. <<m>> \in Seq(Message) /\ ToSet(<<m>>) = {m} /\ IsInjective(<<m>>)
      BY SingleSet
    <3>6. Append(text, m) = text \o <<m>> /\ Append(text, m) # <<>>
      BY <3>2, AppendIsConcat, AppendProperties
    <3>7. /\ text \o <<m>> \in Seq(Message)
          /\ ToSet(text \o <<m>>) = ToSet(text) \cup {m}
          /\ IsInjective(text \o <<m>>)
      <4>1. ToSet(text) \cap ToSet(<<m>>) = {}
        BY <3>4, <3>5
      <4>2. /\ text \o <<m>> \in Seq(Message)
            /\ ToSet(text \o <<m>>) = ToSet(text) \cup ToSet(<<m>>)
            /\ IsInjective(text) /\ IsInjective(<<m>>) /\ ToSet(text) \cap ToSet(<<m>>) = {}
                => IsInjective(text \o <<m>>)
        BY <3>2, <3>5, ConcatSet
      <4>3. QED BY <3>2, <3>5, <4>1, <4>2
    <3>8. /\ new.type = "chat" /\ new.text = text \o <<m>> /\ new \in FullRow
      BY <3>3, <3>6, <3>7 DEF FullRow, Row
    <3>9. QED BY <3>2, <3>3, <3>7, <3>8 DEF ChatRow, w
  <2>3. QED BY <2>1, <2>2
<1> HIDE DEF new, after, w, old
<1>4. CASE after = [rows EXCEPT ![w] = new]
  <2>1. /\ after[w] = new /\ after[w] # NULL
        /\ \A v \in Uin : v # w => after[v] = rows[v]
    BY <1>1, <1>3, <1>4, NullRow DEF Rows
  <2>2. after \in ChatRows
    BY <1>1, <1>3, <2>1 DEF ChatRows
  <2>3. KeptOf(after) = KeptOf(rows) \cup {m}
    <3>1. KeptOf(after) = old \cup {m} \cup
              UNION {ToSet(rows[v].text) : v \in {x \in Uin \ {w} : rows[x] # NULL}}
      BY <1>1, <1>3, <2>1 DEF KeptOf
    <3>2. KeptOf(rows) = old \cup
              UNION {ToSet(rows[v].text) : v \in {x \in Uin \ {w} : rows[x] # NULL}}
      BY <1>1 DEF KeptOf, old
    <3>3. QED BY <3>1, <3>2
  <2>4. QED BY <2>2, <2>3 DEF after
<1>5. CASE after = rows /\ rows[w] # NULL
  <2>1. rows[w] \in ChatRow(w)
    BY <1>1, <1>5 DEF ChatRows
  <2>2. /\ rows[w].text \in Seq(Message) /\ rows[w].text # <<>>
        /\ \A x \in ToSet(rows[w].text) : x.from = w
    BY <2>1 DEF ChatRow, FullRow, Row
  <2>3. PICK x : x \in ToSet(rows[w].text)
    BY <2>2, TailSet
  <2>4. x \in KeptOf(rows) /\ x.from = m.from
    BY <1>1, <1>5, <2>2, <2>3 DEF KeptOf, w
  <2>5. QED BY <1>5, <2>4 DEF after
<1>6. QED BY <1>2, <1>4, <1>5

\* Of messages that are stored one after the other, but for those whose statement
\* has failed, nothing else is lost than what finds others of its sender there.
LEMMA StoredAllKept ==
    ASSUME NEW rows \in ChatRows, NEW msgs \in Seq(Message), NEW failed, IsInjective(msgs),
           \A m \in ToSet(msgs) : m.type = "chat" /\ m \notin KeptOf(rows)
    PROVE  /\ StoredAll(rows, msgs, failed) \in ChatRows
           /\ KeptOf(rows) \subseteq KeptOf(StoredAll(rows, msgs, failed))
           /\ KeptOf(StoredAll(rows, msgs, failed)) \subseteq KeptOf(rows) \cup ToSet(msgs)
           /\ \A j \in DOMAIN msgs :
                j \in failed \/ \E x \in KeptOf(StoredAll(rows, msgs, failed)) : x.from = msgs[j].from
<1> DEFINE n == Len(msgs)
           Upto(k) == {msgs[j] : j \in 1 .. k}
           Beside(k, K) == \A j \in 1 .. k : j \in failed \/ \E x \in K : x.from = msgs[j].from
<1>1. PICK r \in [0 .. n -> Rows] :
        /\ r[0] = rows
        /\ \A i \in 1 .. n :
              r[i] = IF i \in failed THEN r[i - 1] ELSE Stored(r[i - 1], msgs[i])
        /\ StoredAll(rows, msgs, failed) = r[n]
  <2>1. rows \in Rows
    BY DEF ChatRows
  <2>2. \E r \in [0 .. Len(msgs) -> Rows] :
          /\ r[0] = rows
          /\ \A i \in 1 .. Len(msgs) :
                r[i] = IF i \in failed THEN r[i - 1] ELSE Stored(r[i - 1], msgs[i])
          /\ StoredAll(rows, msgs, failed) = r[Len(msgs)]
    BY ONLY <2>1, StoredSteps, msgs \in Seq(Message)
  <2>3. QED BY <2>2
<1>2. /\ n \in Nat /\ ToSet(msgs) = Upto(n) /\ DOMAIN msgs = 1 .. n
      /\ \A i, j \in 1 .. n : msgs[i] = msgs[j] => i = j
      /\ \A i \in 1 .. n : msgs[i] \in Message /\ msgs[i] \in ToSet(msgs)
  BY SeqSet, ElementOfSeq
<1> HIDE DEF n
<1> DEFINE S == {i \in 0 .. n :
                    /\ r[i] \in ChatRows
                    /\ KeptOf(rows) \subseteq KeptOf(r[i])
                    /\ KeptOf(r[i]) \subseteq KeptOf(rows) \cup Upto(i)
                    /\ Beside(i, KeptOf(r[i]))}
<1>3. 0 \in S
  <2>1. Upto(0) = {} /\ \A K : Beside(0, K)
    OBVIOUS
  <2> HIDE DEF Upto, Beside
  <2>2. QED BY <1>1, <1>2, <2>1
<1>4. ASSUME NEW i \in 1 .. n, i - 1 \in S PROVE i \in S
  <2>1. /\ r[i - 1] \in ChatRows
        /\ KeptOf(rows) \subseteq KeptOf(r[i - 1])
        /\ KeptOf(r[i - 1]) \subseteq KeptOf(rows) \cup Upto(i - 1)
        /\ Beside(i - 1, KeptOf(r[i - 1]))
    BY <1>4
  <2>2. i \in 0 .. n /\ 1 .. i = (1 .. (i - 1)) \cup {i} /\ \A j \in 1 .. (i - 1) : j \in 1 .. n /\ j # i
    BY <1>2
  <2>3. msgs[i] \in Message /\ msgs[i].type = "chat" /\ msgs[i] \notin KeptOf(rows)
    BY <1>2
  <2>4. msgs[i] \notin Upto(i - 1)
    BY <1>2, <2>2
  <2>5. Upto(i) = Upto(i - 1) \cup {msgs[i]}
    BY <2>2
  <2>6. ASSUME NEW K, KeptOf(r[i - 1]) \subseteq K,
               i \in failed \/ \E x \in K : x.from = msgs[i].from
        PROVE  Beside(i, K)
    <3>1. \A j \in 1 .. (i - 1) : j \in failed \/ \E x \in K : x.from = msgs[j].from
      BY <2>1, <2>6
    <3>2. QED BY <2>2, <2>6, <3>1
  <2> HIDE DEF Upto, Beside
  <2>7. CASE i \in failed
    <3>1. r[i] = r[i - 1]
      BY <1>1, <2>7
    <3>2. QED BY <2>1, <2>2, <2>5, <2>6, <2>7, <3>1
  <2>8. CASE i \notin failed
    <3>1. /\ Stored(r[i - 1], msgs[i]) \in ChatRows
          /\ KeptOf(Stored(r[i - 1], msgs[i])) \in
                {KeptOf(r[i - 1]), KeptOf(r[i - 1]) \cup {msgs[i]}}
          /\ \E x \in KeptOf(Stored(r[i - 1], msgs[i])) : x.from = msgs[i].from
      BY <2>1, <2>3, <2>4, StoredKept
    <3>2. r[i] = Stored(r[i - 1], msgs[i])
      BY <1>1, <2>8
    <3>3. Beside(i, KeptOf(r[i]))
      BY <2>6, <3>1, <3>2
    <3>4. QED BY <2>1, <2>2, <2>5, <3>1, <3>2, <3>3
  <2>9. QED BY <2>7, <2>8
<1> HIDE DEF S
<1>5. \A i \in 0 .. n : i \in S
  BY <1>2, <1>3, <1>4, UpTo
<1>6. n \in 0 .. n
  BY <1>2
<1>7. /\ r[n] \in ChatRows
      /\ KeptOf(rows) \subseteq KeptOf(r[n])
      /\ KeptOf(r[n]) \subseteq KeptOf(rows) \cup Upto(n)
      /\ Beside(n, KeptOf(r[n]))
  BY <1>5, <1>6 DEF S
<1>8. QED BY <1>1, <1>2, <1>7

\* An order of the users has each of them.
LEMMA OrderAll ==
    ASSUME NEW order \in SetToSeqs(Uin)
    PROVE  /\ order \in [1 .. Cardinality(Uin) -> Uin]
           /\ \A i, j \in 1 .. Cardinality(Uin) : order[i] = order[j] => i = j
           /\ \A u \in Uin : \E i \in 1 .. Cardinality(Uin) : order[i] = u
<1> DEFINE n == Cardinality(Uin)
<1>1. n \in Nat
  BY UinAssumption, FS_CardinalityType
<1>2. /\ order \in [1 .. n -> Uin]
      /\ \A i, j \in 1 .. n : order[i] = order[j] => i = j
  BY DEF SetToSeqs
<1>3. IsFiniteSet(1 .. n) /\ Cardinality(1 .. n) = n
  <2> HIDE DEF n
  <2>1. 1 \in Int /\ n \in Int
    BY <1>1
  <2>2. IsFiniteSet(1 .. n) /\ Cardinality(1 .. n) = IF 1 > n THEN 0 ELSE n - 1 + 1
    BY <2>1, FS_Interval
  <2>3. QED BY <1>1, <2>2
<1>4. order \in Injection(1 .. n, Uin)
  BY <1>2 DEF Injection, IsInjective
<1>5. order \in Surjection(1 .. n, Uin)
  BY <1>3, <1>4, UinAssumption, FS_Injection
<1>6. QED BY <1>2, <1>5 DEF Surjection

LEMMA TellingKept ==
    ASSUME NEW rows \in ChatRows, NEW order \in SetToSeqs(Uin), NEW told
    PROVE  /\ IsInjective(FlattenSeq(Telling(rows, order, told)))
           /\ ToSet(FlattenSeq(Telling(rows, order, told))) \subseteq KeptOf(rows)
           /\ told = DOMAIN order =>
                ToSet(FlattenSeq(Telling(rows, order, told))) = KeptOf(rows)
<1> DEFINE n == Cardinality(Uin)
           s == Telling(rows, order, told)
<1>1. rows \in Rows /\ \A w \in Uin : rows[w] \in ChatRow(w) \cup {NULL}
  BY DEF ChatRows
<1>2. s \in Seq(Seq(Message)) /\ Len(s) = n
  BY <1>1, TellingType
<1>3. /\ order \in [1 .. n -> Uin]
      /\ \A i, j \in 1 .. n : order[i] = order[j] => i = j
      /\ \A u \in Uin : \E i \in 1 .. n : order[i] = u
  BY OrderAll
<1>4. \A i \in 1 .. n : s[i] = IF i \in told THEN Told(rows[order[i]]) ELSE <<>>
  BY <1>3 DEF Telling
<1> HIDE DEF s, n
<1>5. ASSUME NEW w \in Uin
      PROVE  /\ IsInjective(Told(rows[w]))
             /\ \A m \in ToSet(Told(rows[w])) : m.from = w
             /\ ToSet(Told(rows[w])) = IF rows[w] = NULL THEN {} ELSE ToSet(rows[w].text)
  <2>1. CASE rows[w] = NULL
    <3>1. Told(rows[w]) = <<>>
      BY <2>1 DEF Told
    <3>2. QED BY <2>1, <3>1, EmptySet
  <2>2. CASE rows[w] # NULL
    <3>1. rows[w] \in ChatRow(w)
      BY <1>1, <2>2
    <3>2. /\ rows[w].text \in Seq(Message) /\ rows[w].type = "chat" /\ IsInjective(rows[w].text)
          /\ \A m \in ToSet(rows[w].text) : m.from = w /\ m.type = "chat"
      BY <3>1 DEF ChatRow, FullRow, Row
    <3>3. Chats(rows[w].text) = rows[w].text
      BY <3>2, ChatsAll
    <3>4. Told(rows[w]) = rows[w].text
      BY <2>2, <3>2, <3>3 DEF Told
    <3>5. QED BY <2>2, <3>2, <3>4
  <2>3. QED BY <2>1, <2>2
<1>6. \A i \in 1 .. n : IsInjective(s[i]) /\ order[i] \in Uin
                        /\ \A m \in ToSet(s[i]) : m.from = order[i]
  BY <1>3, <1>4, <1>5, EmptySet
<1>7. \A i, j \in 1 .. n : i # j => ToSet(s[i]) \cap ToSet(s[j]) = {}
  BY <1>3, <1>6
<1>8. /\ ToSet(FlattenSeq(s)) = UNION {ToSet(s[i]) : i \in 1 .. n}
      /\ IsInjective(FlattenSeq(s))
  BY <1>2, <1>6, <1>7, FlattenDistinct
<1>9. UNION {ToSet(Told(rows[w])) : w \in Uin} = KeptOf(rows)
  <2>1. \A w \in {v \in Uin : rows[v] # NULL} : ToSet(Told(rows[w])) = ToSet(rows[w].text)
    BY <1>5
  <2>2. \A w \in Uin : rows[w] = NULL => ToSet(Told(rows[w])) = {}
    BY <1>5
  <2>3. QED BY <2>1, <2>2 DEF KeptOf
<1>10. \A i \in 1 .. n : ToSet(s[i]) \in {ToSet(Told(rows[order[i]])), {}}
  BY <1>4, EmptySet
<1>11. UNION {ToSet(s[i]) : i \in 1 .. n} \subseteq KeptOf(rows)
  BY <1>3, <1>9, <1>10
<1>12. ASSUME told = DOMAIN order
       PROVE  UNION {ToSet(s[i]) : i \in 1 .. n} = KeptOf(rows)
  <2>1. \A i \in 1 .. n : s[i] = Told(rows[order[i]])
    BY <1>3, <1>4, <1>12
  <2>2. UNION {ToSet(s[i]) : i \in 1 .. n} = UNION {ToSet(Told(rows[w])) : w \in Uin}
    BY <1>3, <2>1
  <2>3. QED BY <1>9, <2>2
<1>13. QED BY <1>8, <1>11, <1>12 DEF s

-----------------------------------------------------------------------------
(* The mailboxes.                                                          *)

\* What is known of the messages when the database does not fail and friend
\* messages do not come: the waiting ones are distinct and not in the table, and
\* each is one of those that were accepted.
BoxInv ==
    Sound => \A u \in Uin :
        /\ IsInjective(map[u])
        /\ \A m \in Waiting(u) : m.type = "chat" /\ m.id <= accepted /\ m \notin Kept(u)
        /\ offline_msg[u] \in ChatRows
        /\ \A m \in Kept(u) \cup ToSet(sent[u]) : m.id <= accepted

LEMMA KeptIs == \A u : Kept(u) = KeptOf(offline_msg[u])
BY DEF Kept, KeptOf

LEMMA BoxesSame ==
    /\ \A s : Boxes!ToSet(s) = ToSet(s)
    /\ \A s : Boxes!IsInjective(s) <=> IsInjective(s)
BY DEF Boxes!ToSet, ToSet, Boxes!IsInjective, IsInjective

LEMMA NoRows == [w \in Uin |-> NULL] \in ChatRows /\ KeptOf([w \in Uin |-> NULL]) = {}
BY DEF ChatRows, Rows, KeptOf

LEMMA BoxInit == Init => BoxInv /\ Boxes!Init
<1> SUFFICES ASSUME Init PROVE BoxInv /\ Boxes!Init
  OBVIOUS
<1>1. \A u \in Uin : map[u] = <<>> /\ sent[u] = <<>> /\ offline_msg[u] = [w \in Uin |-> NULL]
  BY DEF Init
<1>2. \A u \in Uin : Waiting(u) = {} /\ Kept(u) = {}
  BY <1>1, EmptySet, KeptIs, NoRows DEF Waiting
<1>3. Boxes!Init
  BY <1>2 DEF Init, Boxes!Init
<1>4. BoxInv
  BY <1>1, <1>2, EmptySet, NoRows DEF BoxInv
<1>5. QED BY <1>3, <1>4

\* A new message: its number is greater than all there are.
LEMMA AcceptStep ==
    ASSUME TypeInv, BoxInv, Sound, NEW from \in Uin, NEW to \in Uin,
           NEW len \in Nat, cmd_message(from, to, "chat", len)
    PROVE  BoxInv' /\ Boxes!Next
<1>1. PICK m \in Message :
        /\ m.id = accepted + 1 /\ m.type = "chat"
        /\ map' = [map EXCEPT ![to] = <<m>> \o map[to]]
  <2> DEFINE m == [id |-> accepted + 1, from |-> from, to |-> to, type |-> "chat",
                   len |-> len]
  <2>1. accepted + 1 \in 1 .. MaxMsg
    BY MsgAssumption DEF cmd_message, TypeInv
  <2>2. m \in Message
    BY <2>1 DEF Message
  <2>3. QED BY <2>2 DEF cmd_message
<1>2. accepted' = accepted + 1 /\ running /\ UNCHANGED <<offline_msg, sent, running, may>>
  BY DEF cmd_message
<1>3. /\ accepted \in Nat
      /\ \A u \in Uin : \A x \in Waiting(u) \cup Kept(u) \cup ToSet(sent[u]) : x.id <= accepted
      /\ \A u \in Uin : /\ map[u] \in Seq(Message) /\ IsInjective(map[u])
                        /\ \A x \in Waiting(u) : x.type = "chat" /\ x \notin Kept(u)
                        /\ offline_msg[u] \in ChatRows
                        /\ Kept(u) \subseteq Message /\ ToSet(sent[u]) \subseteq Message
                        /\ Waiting(u) \subseteq Message
  <2>1. accepted \in Nat /\ map \in [Uin -> Seq(Message)] /\ sent \in [Uin -> Seq(Message)]
        /\ offline_msg \in [Uin -> Rows]
    BY DEF TypeInv, IInv, WaitingType
  <2>2. \A q \in Seq(Message) : ToSet(q) \subseteq Message
    BY SeqSet, ElementOfSeq
  <2>3. \A u \in Uin : ToSet(sent[u]) \subseteq Message /\ Waiting(u) \subseteq Message
    BY <2>1, <2>2 DEF Waiting
  <2>4. \A u \in Uin : Kept(u) \subseteq Message
    BY <2>1, <2>2 DEF Kept, Rows, FullRow, Row
  <2>5. QED BY <2>1, <2>3, <2>4 DEF BoxInv
<1>4. \A u \in Uin : m \notin Waiting(u) \cup Kept(u) \cup ToSet(sent[u])
  <2>1. ~(m.id <= accepted)
    BY <1>1, <1>3
  <2>2. QED BY <1>3, <2>1
<1>5. /\ <<m>> \o map[to] \in Seq(Message)
      /\ ToSet(<<m>> \o map[to]) = {m} \cup Waiting(to)
      /\ IsInjective(<<m>> \o map[to])
  <2>1. <<m>> \in Seq(Message) /\ ToSet(<<m>>) = {m} /\ IsInjective(<<m>>)
    BY SingleSet
  <2>2. ToSet(<<m>>) \cap ToSet(map[to]) = {}
    BY <1>4, <2>1 DEF Waiting
  <2>3. map[to] \in Seq(Message) /\ IsInjective(map[to])
    BY <1>3
  <2>4. /\ <<m>> \o map[to] \in Seq(Message)
        /\ ToSet(<<m>> \o map[to]) = ToSet(<<m>>) \cup ToSet(map[to])
        /\ IsInjective(<<m>>) /\ IsInjective(map[to]) /\ ToSet(<<m>>) \cap ToSet(map[to]) = {}
            => IsInjective(<<m>> \o map[to])
    BY <2>1, <2>3, ConcatSet
  <2>5. QED BY <2>1, <2>2, <2>3, <2>4 DEF Waiting
<1>6. /\ \A u \in Uin : Kept(u)' = Kept(u)
      /\ \A u \in Uin : Waiting(u)' = IF u = to THEN {m} \cup Waiting(u) ELSE Waiting(u)
      /\ \A u \in Uin : IsInjective(map'[u])
  <2>1. \A u \in Uin : map'[u] = IF u = to THEN <<m>> \o map[to] ELSE map[u]
    BY <1>1 DEF TypeInv, IInv, WaitingType
  <2>2. \A u \in Uin : Kept(u)' = Kept(u)
    BY <1>2 DEF Kept
  <2>3. \A u \in Uin : Waiting(u)' = ToSet(map'[u])
    BY DEF Waiting
  <2>4. QED BY <1>3, <1>5, <2>1, <2>2, <2>3 DEF Waiting
<1>7. BoxInv'
  <2> SUFFICES ASSUME NEW u \in Uin
               PROVE  /\ IsInjective(map'[u])
                      /\ \A x \in Waiting(u)' : x.type = "chat" /\ x.id <= accepted' /\ x \notin Kept(u)'
                      /\ offline_msg'[u] \in ChatRows
                      /\ \A x \in Kept(u)' \cup ToSet(sent'[u]) : x.id <= accepted'
    BY DEF BoxInv
  <2>1. \A x \in Message : x.id <= accepted => x.id <= accepted'
    BY <1>2, <1>3 DEF Message
  <2>2. m.id <= accepted'
    BY <1>1, <1>2, <1>3
  <2>3. \A x \in Kept(u)' \cup ToSet(sent'[u]) : x.id <= accepted'
    BY <1>2, <1>3, <1>6, <2>1
  <2>4. \A x \in Waiting(u)' : x.type = "chat" /\ x.id <= accepted' /\ x \notin Kept(u)'
    BY <1>1, <1>3, <1>4, <1>6, <2>1, <2>2
  <2>5. QED BY <1>2, <1>3, <1>6, <2>3, <2>4
<1>8. Boxes!Accept
  <2> DEFINE box == [u \in Uin |-> Waiting(u) \cup Kept(u)]
             after == [u \in Uin |-> Waiting(u)' \cup Kept(u)']
  <2>1. after = [box EXCEPT ![to] = box[to] \cup {m}]
    BY <1>6
  <2>2. m \in after[to] \ (box[to] \cup ToSet(sent[to]))
    BY <1>4, <1>6
  <2>3. m \in after[to] \ (box[to] \cup Boxes!ToSet(sent[to]))
    BY <2>2, BoxesSame
  <2>4. box' = after
    OBVIOUS
  <2>5. QED BY <1>2, <2>1, <2>3, <2>4 DEF Boxes!Accept
<1>9. QED BY <1>7, <1>8 DEF Boxes!Next

\* Messages in the box of a user are sent to him.
LEMMA SendsIs ==
    ASSUME TypeInv, NEW u \in Uin, NEW next \in Seq(Message), IsInjective(next),
           ToSet(next) \subseteq Waiting(u) \cup Kept(u),
           sent' = [sent EXCEPT ![u] = sent[u] \o next]
    PROVE  /\ SubSeq(sent'[u], Len(sent[u]) + 1, Len(sent'[u])) = next
           /\ Boxes!Sends(u, next)
<1>1. sent[u] \in Seq(Message) /\ sent'[u] = sent[u] \o next
  BY DEF TypeInv
<1>2. SubSeq(sent'[u], Len(sent[u]) + 1, Len(sent'[u])) = next
  BY <1>1, NextOfConcat
<1>3. Boxes!IsInjective(next) /\ Boxes!ToSet(next) = ToSet(next)
  BY BoxesSame
<1>4. Boxes!Sends(u, next)
  BY <1>3 DEF Boxes!Sends
<1>5. QED BY <1>2, <1>4

LEMMA SendIs ==
    ASSUME TypeInv, NEW u \in Uin, NEW next \in Seq(Message), IsInjective(next),
           ToSet(next) \subseteq Waiting(u) \cup Kept(u),
           sent' = [sent EXCEPT ![u] = sent[u] \o next],
           running, running' = running,
           \A v \in Uin : Waiting(v)' \cup Kept(v)' =
                IF v = u THEN (Waiting(u) \cup Kept(u)) \ ToSet(next)
                ELSE Waiting(v) \cup Kept(v)
    PROVE  Boxes!Send
<1> DEFINE box == [v \in Uin |-> Waiting(v) \cup Kept(v)]
           after == [v \in Uin |-> Waiting(v)' \cup Kept(v)']
<1>1. /\ SubSeq(sent'[u], Len(sent[u]) + 1, Len(sent'[u])) = next
      /\ Boxes!Sends(u, next)
  BY SendsIs
<1>2. after = [box EXCEPT ![u] = box[u] \ ToSet(next)]
  OBVIOUS
<1>3. box' = after
  OBVIOUS
<1>4. Boxes!ToSet(next) = ToSet(next)
  BY BoxesSame
<1> HIDE DEF after
<1>5. LET n == SubSeq(sent'[u], Len(sent[u]) + 1, Len(sent'[u]))
      IN  /\ Boxes!Sends(u, n)
          /\ box' = [box EXCEPT ![u] = @ \ Boxes!ToSet(n)]
  <2> HIDE DEF box
  <2>1. box' = [box EXCEPT ![u] = box[u] \ Boxes!ToSet(next)]
    BY <1>2, <1>3, <1>4
  <2>2. QED BY <1>1, <2>1
<1>6. QED BY <1>5 DEF Boxes!Send

\* The server dies of what it has for a user.
LEMMA DieIs ==
    ASSUME TypeInv, NEW u \in Uin, NEW next \in Seq(Message), IsInjective(next),
           ToSet(next) \subseteq Waiting(u) \cup Kept(u),
           sent' = [sent EXCEPT ![u] = sent[u] \o next],
           running, running' = FALSE,
           Waiting(u) \cup Kept(u) # {},
           \A v \in Uin : Waiting(v)' \cup Kept(v)' \subseteq Waiting(v) \cup Kept(v)
    PROVE  Boxes!Die
<1> DEFINE box == [v \in Uin |-> Waiting(v) \cup Kept(v)]
<1>1. /\ SubSeq(sent'[u], Len(sent[u]) + 1, Len(sent'[u])) = next
      /\ Boxes!Sends(u, next)
  BY SendsIs
<1>2. Boxes!Sends(u, SubSeq(sent'[u], Len(sent[u]) + 1, Len(sent'[u])))
  BY <1>1
<1>3. box[u] # {} /\ \A v \in Uin : box'[v] \subseteq box[v]
  OBVIOUS
<1> HIDE DEF box
<1>4. QED BY <1>2, <1>3 DEF Boxes!Die, box

\* The waiting messages of a user are sent, or his connection server is not found.
LEMMA SendStep ==
    ASSUME TypeInv, BoxInv, Sound, send_msg
    PROVE  BoxInv' /\ (Boxes!Next \/ UNCHANGED Boxes!vars)
<1>1. PICK u \in Uin : u = Head(replies).uin
  <2>1. Head(replies) \in Answers
    BY HeadTailProperties DEF send_msg, TypeInv, IInv, WaitingType
  <2>2. QED BY <2>1 DEF Answers
<1>2. /\ UNCHANGED <<offline_msg, accepted, running, may>> /\ running
      /\ \A v : Kept(v)' = Kept(v)
  BY DEF send_msg, Kept
<1>3. CASE UNCHANGED <<map, sent>>
  <2>1. BoxInv'
    BY <1>2, <1>3 DEF BoxInv, Waiting, Kept, Sound
  <2>2. UNCHANGED Boxes!vars
    BY <1>2, <1>3 DEF Boxes!vars, Waiting, Kept
  <2>3. QED BY <2>1, <2>2
<1>4. CASE map' = [map EXCEPT ![u] = <<>>] /\ sent' = [sent EXCEPT ![u] = sent[u] \o map[u]]
  <2>1. map \in [Uin -> Seq(Message)] /\ sent \in [Uin -> Seq(Message)]
    BY DEF TypeInv, IInv, WaitingType
  <2>2. /\ \A v \in Uin : map'[v] = IF v = u THEN <<>> ELSE map[v]
        /\ \A v \in Uin : sent'[v] = IF v = u THEN sent[u] \o map[u] ELSE sent[v]
    BY <1>4, <2>1
  <2>3. ToSet(sent[u] \o map[u]) = ToSet(sent[u]) \cup Waiting(u)
    BY <2>1, ConcatSet DEF Waiting
  <2>4. \A v \in Uin : /\ Waiting(v)' = IF v = u THEN {} ELSE Waiting(v)
                       /\ IsInjective(map[v]) => IsInjective(map'[v])
    BY <2>2, EmptySet DEF Waiting
  <2>5. BoxInv'
    <3> SUFFICES ASSUME NEW v \in Uin
                 PROVE  /\ IsInjective(map'[v])
                        /\ \A x \in Waiting(v)' : x.type = "chat" /\ x.id <= accepted /\ x \notin Kept(v)
                        /\ offline_msg[v] \in ChatRows
                        /\ \A x \in Kept(v) \cup ToSet(sent'[v]) : x.id <= accepted
      BY <1>2 DEF BoxInv
    <3>1. /\ IsInjective(map[v]) /\ offline_msg[v] \in ChatRows
          /\ \A x \in Waiting(v) : x.type = "chat" /\ x.id <= accepted /\ x \notin Kept(v)
          /\ \A x \in Kept(v) \cup ToSet(sent[v]) : x.id <= accepted
      BY DEF BoxInv
    <3>2. ToSet(sent'[v]) \subseteq ToSet(sent[v]) \cup Waiting(v)
      BY <2>2, <2>3
    <3>3. \A x \in Kept(v) \cup ToSet(sent'[v]) : x.id <= accepted
      BY <3>1, <3>2
    <3>4. IsInjective(map'[v]) /\ Waiting(v)' \subseteq Waiting(v)
      BY <2>4, <3>1
    <3>5. QED BY <3>1, <3>3, <3>4
  <2>6. Boxes!Send
    <3>1. map[u] \in Seq(Message) /\ IsInjective(map[u]) /\ ToSet(map[u]) = Waiting(u)
      BY <2>1 DEF BoxInv, Waiting
    <3>2. Waiting(u) \cap Kept(u) = {}
      BY DEF BoxInv
    <3>3. ASSUME NEW v \in Uin
          PROVE  Waiting(v)' \cup Kept(v)' =
                    IF v = u THEN (Waiting(u) \cup Kept(u)) \ ToSet(map[u])
                    ELSE Waiting(v) \cup Kept(v)
      <4>1. CASE v = u
        <5>1. Waiting(v)' = {} /\ Kept(v)' = Kept(u)
          BY <1>2, <2>4, <4>1
        <5>2. QED BY <3>1, <3>2, <4>1, <5>1
      <4>2. CASE v # u
        <5>1. Waiting(v)' = Waiting(v) /\ Kept(v)' = Kept(v)
          BY <1>2, <2>4, <4>2
        <5>2. QED BY <4>2, <5>1
      <4>3. QED BY <4>1, <4>2
    <3>4. ToSet(map[u]) \subseteq Waiting(u) \cup Kept(u)
      BY <3>1
    <3>5. QED BY <1>2, <1>4, <3>1, <3>3, <3>4, SendIs
  <2>7. QED BY <2>5, <2>6 DEF Boxes!Next
<1>5. QED BY <1>1, <1>3, <1>4 DEF send_msg

\* Waiting messages of a user go to the table, whether the server lives or not.
LEMMA StoreBoxes ==
    ASSUME TypeInv, BoxInv, Sound, NEW u \in Uin, NEW failed,
           offline_msg' = [offline_msg EXCEPT ![u] = StoredAll(offline_msg[u], map[u], failed)],
           map'[u] = <<>>, \A v \in Uin : map'[v] \in {map[v], <<>>},
           UNCHANGED <<accepted, sent, may>>
    PROVE  /\ BoxInv'
           /\ \A v \in Uin :
                /\ Waiting(v)' \cup Kept(v)' \subseteq Waiting(v) \cup Kept(v)
                /\ Kept(v) \subseteq Kept(v)'
                /\ v # u => Kept(v)' = Kept(v)
           /\ \A j \in DOMAIN map[u] :
                j \in failed \/ \E x \in Kept(u)' : x.from = map[u][j].from
<1>1. map \in [Uin -> Seq(Message)] /\ offline_msg \in [Uin -> Rows]
  BY DEF TypeInv, IInv, WaitingType
<1> DEFINE after == StoredAll(offline_msg[u], map[u], failed)
<1>2. \A v \in Uin :
        /\ IsInjective(map[v]) /\ offline_msg[v] \in ChatRows
        /\ \A x \in Waiting(v) : x.type = "chat" /\ x.id <= accepted /\ x \notin Kept(v)
        /\ \A x \in Kept(v) \cup ToSet(sent[v]) : x.id <= accepted
  BY DEF BoxInv
<1>3. /\ after \in ChatRows
      /\ Kept(u) \subseteq KeptOf(after) /\ KeptOf(after) \subseteq Kept(u) \cup Waiting(u)
      /\ \A j \in DOMAIN map[u] :
            j \in failed \/ \E x \in KeptOf(after) : x.from = map[u][j].from
  <2>1. \A m \in ToSet(map[u]) : m.type = "chat" /\ m \notin KeptOf(offline_msg[u])
    BY <1>2, KeptIs DEF Waiting
  <2>2. map[u] \in Seq(Message) /\ IsInjective(map[u]) /\ offline_msg[u] \in ChatRows
    BY <1>1, <1>2
  <2>3. /\ after \in ChatRows
        /\ KeptOf(offline_msg[u]) \subseteq KeptOf(after)
        /\ KeptOf(after) \subseteq KeptOf(offline_msg[u]) \cup ToSet(map[u])
        /\ \A j \in DOMAIN map[u] :
              j \in failed \/ \E x \in KeptOf(after) : x.from = map[u][j].from
    BY ONLY <2>1, <2>2, StoredAllKept
  <2>4. QED BY <2>3, KeptIs DEF Waiting
<1> HIDE DEF after
<1>4. \A v \in Uin : offline_msg'[v] = IF v = u THEN after ELSE offline_msg[v]
  BY <1>1 DEF after
<1>5. \A v \in Uin :
        /\ Waiting(v)' \in {Waiting(v), {}} /\ Waiting(u)' = {}
        /\ Kept(v)' = IF v = u THEN KeptOf(after) ELSE Kept(v)
        /\ IsInjective(map'[v]) /\ offline_msg'[v] \in ChatRows
  <2>1. \A v : Kept(v)' = KeptOf(offline_msg'[v])
    BY DEF Kept, KeptOf
  <2>2. \A v \in Uin : Kept(v)' = IF v = u THEN KeptOf(after) ELSE Kept(v)
    BY <1>4, <2>1, KeptIs
  <2>3. \A v \in Uin : Waiting(v)' \in {Waiting(v), {}} /\ Waiting(u)' = {}
    BY EmptySet DEF Waiting
  <2>4. \A v \in Uin : IsInjective(map'[v]) /\ offline_msg'[v] \in ChatRows
    BY <1>2, <1>3, <1>4, EmptySet
  <2>5. QED BY <2>2, <2>3, <2>4
<1>6. \A v \in Uin :
        /\ Waiting(v)' \cup Kept(v)' \subseteq Waiting(v) \cup Kept(v)
        /\ Kept(v) \subseteq Kept(v)'
        /\ v # u => Kept(v)' = Kept(v)
  BY <1>3, <1>5
<1>7. BoxInv'
  <2> SUFFICES ASSUME NEW v \in Uin
               PROVE  /\ IsInjective(map'[v])
                      /\ \A x \in Waiting(v)' : x.type = "chat" /\ x.id <= accepted /\ x \notin Kept(v)'
                      /\ offline_msg'[v] \in ChatRows
                      /\ \A x \in Kept(v)' \cup ToSet(sent[v]) : x.id <= accepted
    BY DEF BoxInv
  <2>1. QED BY <1>2, <1>5, <1>6
<1>8. QED BY <1>3, <1>5, <1>6, <1>7

\* The waiting messages of a user go to the table: those that are lost were too
\* long, or there are others of their senders.
LEMMA StoreStep ==
    ASSUME TypeInv, BoxInv, Sound, store_offline_msg
    PROVE  BoxInv' /\ Boxes!Next
<1>1. PICK u \in Uin : u = Head(replies).uin
  <2>1. Head(replies) \in Answers
    BY HeadTailProperties DEF store_offline_msg, TypeInv, IInv, WaitingType
  <2>2. QED BY <2>1 DEF Answers
<1>2. PICK failed \in SUBSET DOMAIN map[u] :
        /\ \A i \in failed : "failure" \in may \/ Long(map[u][i])
        /\ offline_msg' = [offline_msg EXCEPT ![u] = StoredAll(offline_msg[u], map[u], failed)]
  BY <1>1 DEF store_offline_msg
<1>3. /\ map' = [map EXCEPT ![u] = <<>>]
      /\ UNCHANGED <<accepted, sent, may, running>> /\ running
  BY <1>1 DEF store_offline_msg
<1>4. /\ map \in [Uin -> Seq(Message)]
      /\ map'[u] = <<>> /\ \A v \in Uin : map'[v] \in {map[v], <<>>}
      /\ \A v \in Uin : v # u => map'[v] = map[v]
  BY <1>3 DEF TypeInv, IInv, WaitingType
<1>5. /\ BoxInv'
      /\ \A v \in Uin :
            /\ Waiting(v)' \cup Kept(v)' \subseteq Waiting(v) \cup Kept(v)
            /\ Kept(v) \subseteq Kept(v)'
            /\ v # u => Kept(v)' = Kept(v)
      /\ \A j \in DOMAIN map[u] :
            j \in failed \/ \E x \in Kept(u)' : x.from = map[u][j].from
  BY <1>2, <1>3, <1>4, StoreBoxes
<1> DEFINE box == [v \in Uin |-> Waiting(v) \cup Kept(v)]
<1>6. ASSUME NEW m \in box[u] \ box'[u]
      PROVE  m.len > QueryRoom \/ \E x \in box'[u] : x.from = m.from
  <2>1. m \in Waiting(u) /\ box'[u] = Waiting(u)' \cup Kept(u)'
    <3>1. m \in Waiting(u) \cup Kept(u) /\ m \notin Waiting(u)' \cup Kept(u)'
      OBVIOUS
    <3>2. Kept(u) \subseteq Kept(u)'
      BY <1>5
    <3>3. QED BY <3>1, <3>2
  <2>2. PICK j \in DOMAIN map[u] : m = map[u][j]
    BY <2>1 DEF Waiting, ToSet
  <2>3. CASE j \in failed
    BY <1>2, <2>2, <2>3 DEF Sound, Long
  <2>4. CASE \E x \in Kept(u)' : x.from = map[u][j].from
    BY <2>1, <2>2, <2>4
  <2>5. QED BY <1>5, <2>3, <2>4
<1>7. box'[u] \subseteq box[u] /\ \A v \in Uin : v # u => box'[v] = box[v]
  <2>1. \A v \in Uin : v # u => Waiting(v)' = Waiting(v)
    BY <1>4 DEF Waiting
  <2>2. \A v \in Uin : v # u => Kept(v)' = Kept(v)
    BY <1>5
  <2>3. Waiting(u)' \cup Kept(u)' \subseteq Waiting(u) \cup Kept(u)
    BY <1>5
  <2>4. QED BY <2>1, <2>2, <2>3
<1>8. box' = [box EXCEPT ![u] = box'[u]]
  <2>1. box' = [v \in Uin |-> box'[v]] /\ box = [v \in Uin |-> box[v]]
    OBVIOUS
  <2> HIDE DEF box
  <2>2. QED BY <1>7, <2>1
<1> HIDE DEF box
<1>9. Boxes!Lose
  BY <1>3, <1>6, <1>7, <1>8 DEF Boxes!Lose, box
<1>10. QED BY <1>5, <1>9 DEF Boxes!Next

\* Of what is stored of a list, nothing is lost but with the server.
LEMMA QueryStep ==
    ASSUME TypeInv, BoxInv, Sound, overrun_query
    PROVE  BoxInv' /\ Boxes!Next
<1>1. PICK u \in Uin : u = Head(replies).uin
  <2>1. Head(replies) \in Answers
    BY HeadTailProperties DEF overrun_query, TypeInv, IInv, WaitingType
  <2>2. QED BY <2>1 DEF Answers
<1>2. PICK i \in DOMAIN map[u], failed \in SUBSET DOMAIN map[u] :
        offline_msg' = [offline_msg EXCEPT ![u] = StoredAll(offline_msg[u], map[u], failed)]
  BY <1>1 DEF overrun_query
<1>3. /\ \A v \in Uin : map'[v] = <<>>
      /\ UNCHANGED <<accepted, sent, may>> /\ running /\ running' = FALSE
  BY DEF overrun_query, Dies
<1>4. /\ BoxInv'
      /\ \A v \in Uin : Waiting(v)' \cup Kept(v)' \subseteq Waiting(v) \cup Kept(v)
  BY <1>2, <1>3, StoreBoxes
<1>5. sent' = [sent EXCEPT ![u] = sent[u] \o <<>>] /\ <<>> \in Seq(Message)
  BY <1>3, ConcatEmptySeq, EmptySeq DEF TypeInv
<1>6. map[u][i] \in Waiting(u)
  BY DEF Waiting, ToSet
<1>7. Boxes!Die
  BY <1>3, <1>4, <1>5, <1>6, DieIs, EmptySet
<1>8. QED BY <1>4, <1>7 DEF Boxes!Next

\* What the mailboxes know still holds when rows are sent, and when a user's are
\* deleted or the lists are lost.
LEMMA TellBoxes ==
    ASSUME TypeInv, BoxInv, Sound, NEW u \in Uin, NEW next \in Seq(Message),
           ToSet(next) \subseteq Kept(u),
           sent' = [sent EXCEPT ![u] = sent[u] \o next],
           offline_msg' \in {offline_msg, [offline_msg EXCEPT ![u] = [w \in Uin |-> NULL]]},
           \A v \in Uin : map'[v] \in {map[v], <<>>},
           UNCHANGED <<accepted, may>>
    PROVE  /\ BoxInv'
           /\ \A v \in Uin :
                /\ Waiting(v)' \cup Kept(v)' \subseteq Waiting(v) \cup Kept(v)
                /\ Kept(v)' = IF v = u /\ offline_msg' # offline_msg THEN {} ELSE Kept(v)
<1>1. sent \in [Uin -> Seq(Message)] /\ offline_msg \in [Uin -> Rows]
  BY DEF TypeInv
<1>2. \A v \in Uin :
        /\ IsInjective(map[v]) /\ offline_msg[v] \in ChatRows
        /\ \A x \in Waiting(v) : x.type = "chat" /\ x.id <= accepted /\ x \notin Kept(v)
        /\ \A x \in Kept(v) \cup ToSet(sent[v]) : x.id <= accepted
  BY DEF BoxInv
<1>3. ToSet(sent[u] \o next) = ToSet(sent[u]) \cup ToSet(next)
  BY <1>1, ConcatSet
<1>4. \A v \in Uin : sent'[v] = IF v = u THEN sent[u] \o next ELSE sent[v]
  BY <1>1
<1>5. \A v \in Uin :
        /\ offline_msg'[v] \in ChatRows
        /\ KeptOf(offline_msg'[v]) =
              IF v = u /\ offline_msg' # offline_msg THEN {} ELSE KeptOf(offline_msg[v])
  <2>1. CASE offline_msg' = offline_msg
    BY <1>2, <2>1
  <2>2. CASE offline_msg' = [offline_msg EXCEPT ![u] = [w \in Uin |-> NULL]]
    <3>1. \A v \in Uin :
            offline_msg'[v] = IF v = u THEN [w \in Uin |-> NULL] ELSE offline_msg[v]
      BY <1>1, <2>2
    <3>2. QED BY <1>2, <3>1, NoRows
  <2>3. QED BY <2>1, <2>2
<1>6. \A v \in Uin :
        /\ Waiting(v)' \in {Waiting(v), {}}
        /\ Kept(v)' = IF v = u /\ offline_msg' # offline_msg THEN {} ELSE Kept(v)
        /\ IsInjective(map'[v])
        /\ ToSet(sent'[v]) \subseteq ToSet(sent[v]) \cup Kept(v)
  <2>1. \A v : Kept(v)' = KeptOf(offline_msg'[v])
    BY DEF Kept, KeptOf
  <2>2. \A v \in Uin : Waiting(v)' \in {Waiting(v), {}} /\ IsInjective(map'[v])
    BY <1>2, EmptySet DEF Waiting
  <2>3. QED BY <1>3, <1>4, <1>5, <2>1, <2>2, KeptIs
<1>7. BoxInv'
  <2> SUFFICES ASSUME NEW v \in Uin
               PROVE  /\ IsInjective(map'[v])
                      /\ \A x \in Waiting(v)' : x.type = "chat" /\ x.id <= accepted /\ x \notin Kept(v)'
                      /\ offline_msg'[v] \in ChatRows
                      /\ \A x \in Kept(v)' \cup ToSet(sent'[v]) : x.id <= accepted
    BY DEF BoxInv
  <2>1. QED BY <1>2, <1>5, <1>6
<1>8. QED BY <1>6, <1>7

\* The table gives a user what it has for him.
LEMMA OfflineStep ==
    ASSUME TypeInv, BoxInv, Sound, NEW u \in Uin, cmd_offline_msg(u)
    PROVE  BoxInv' /\ Boxes!Next
<1>1. PICK order \in SetToSeqs(Uin) :
        sent' = [sent EXCEPT ![u] = @ \o
                    FlattenSeq(Telling(offline_msg[u], order, DOMAIN order))]
  BY DEF cmd_offline_msg
<1>2. /\ offline_msg' = [offline_msg EXCEPT ![u] = [w \in Uin |-> NULL]]
      /\ UNCHANGED <<map, accepted, may, running>> /\ running
  BY DEF cmd_offline_msg, Sound
<1> DEFINE next == FlattenSeq(Telling(offline_msg[u], order, DOMAIN order))
<1>3. offline_msg[u] \in ChatRows /\ offline_msg[u] \in Rows
  BY DEF TypeInv, BoxInv
<1>4. next \in Seq(Message) /\ ToSet(next) = Kept(u) /\ IsInjective(next)
  <2>1. next \in Seq(Message)
    BY <1>3, TellingType
  <2>2. ToSet(next) = KeptOf(offline_msg[u]) /\ IsInjective(next)
    BY <1>3, TellingKept
  <2>3. QED BY <2>1, <2>2, KeptIs
<1>5. sent' = [sent EXCEPT ![u] = sent[u] \o next]
  BY <1>1
<1> HIDE DEF next
<1>6. /\ BoxInv'
      /\ \A v \in Uin :
            Kept(v)' = IF v = u /\ offline_msg' # offline_msg THEN {} ELSE Kept(v)
  BY <1>2, <1>4, <1>5, TellBoxes
<1>7. \A v \in Uin : Waiting(v)' = Waiting(v) /\ Waiting(v) \cap Kept(v) = {}
  BY <1>2 DEF Waiting, BoxInv
<1>8. \A v \in Uin : Kept(v)' = IF v = u THEN {} ELSE Kept(v)
  <2>1. \A v : Kept(v)' = KeptOf(offline_msg'[v])
    BY DEF Kept, KeptOf
  <2>2. offline_msg'[u] = [w \in Uin |-> NULL]
    BY <1>2 DEF TypeInv
  <2>3. QED BY <1>6, <2>1, <2>2, NoRows
<1>9. Boxes!Send
  <2>1. ASSUME NEW v \in Uin
        PROVE  Waiting(v)' \cup Kept(v)' =
                    IF v = u THEN (Waiting(u) \cup Kept(u)) \ ToSet(next)
                    ELSE Waiting(v) \cup Kept(v)
    BY <1>4, <1>7, <1>8
  <2>2. ToSet(next) \subseteq Waiting(u) \cup Kept(u)
    BY <1>4
  <2>3. QED BY <1>2, <1>4, <1>5, <2>1, <2>2, SendIs
<1>10. QED BY <1>6, <1>9 DEF Boxes!Next

\* The server dies of the rows of a user, some of which it has sent.
LEMMA RowsStep ==
    ASSUME TypeInv, BoxInv, Sound, NEW u \in Uin, overrun_rows(u)
    PROVE  BoxInv' /\ Boxes!Next
<1>1. PICK order \in SetToSeqs(Uin) : \E unfit \in SUBSET DOMAIN order :
        /\ Packed(offline_msg[u], order, unfit)
        /\ \E last \in unfit :
            sent' = [sent EXCEPT ![u] = @ \o
                        FlattenSeq(Telling(offline_msg[u], order, (1 .. last) \ unfit))]
  BY DEF overrun_rows
<1>2. PICK unfit \in SUBSET DOMAIN order : \E last \in unfit :
        /\ Packed(offline_msg[u], order, unfit)
        /\ sent' = [sent EXCEPT ![u] = @ \o
                        FlattenSeq(Telling(offline_msg[u], order, (1 .. last) \ unfit))]
  BY <1>1
<1>3. PICK last \in unfit :
        /\ Packed(offline_msg[u], order, unfit)
        /\ sent' = [sent EXCEPT ![u] = @ \o
                        FlattenSeq(Telling(offline_msg[u], order, (1 .. last) \ unfit))]
  BY <1>2
<1>4. /\ offline_msg' = offline_msg /\ \A v \in Uin : map'[v] = <<>>
      /\ UNCHANGED <<accepted, may>> /\ running /\ running' = FALSE
  BY DEF overrun_rows, Dies
<1> DEFINE next == FlattenSeq(Telling(offline_msg[u], order, (1 .. last) \ unfit))
<1>5. offline_msg[u] \in ChatRows /\ offline_msg[u] \in Rows
  BY DEF TypeInv, BoxInv
<1>6. next \in Seq(Message) /\ ToSet(next) \subseteq Kept(u) /\ IsInjective(next)
  <2>1. next \in Seq(Message)
    BY <1>5, TellingType
  <2>2. ToSet(next) \subseteq KeptOf(offline_msg[u]) /\ IsInjective(next)
    BY <1>5, TellingKept
  <2>3. QED BY <2>1, <2>2, KeptIs
<1>7. sent' = [sent EXCEPT ![u] = sent[u] \o next]
  BY <1>3
<1> HIDE DEF next
<1>8. /\ BoxInv'
      /\ \A v \in Uin : Waiting(v)' \cup Kept(v)' \subseteq Waiting(v) \cup Kept(v)
  BY <1>4, <1>6, <1>7, TellBoxes
<1>9. Kept(u) # {}
  <2>1. last \in DOMAIN order /\ order[last] \in Uin
    BY <1>3, OrderAll
  <2>2. offline_msg[u][order[last]] # NULL
    BY <1>3, <2>1 DEF Packed
  <2>3. offline_msg[u][order[last]] \in FullRow
    BY <1>5, <2>1, <2>2 DEF Rows
  <2> DEFINE text == offline_msg[u][order[last]].text
  <2>4. text \in Seq(Message) /\ text # <<>>
    BY <2>3 DEF FullRow, Row
  <2>5. Head(text) \in ToSet(text)
    BY <2>4, TailSet
  <2>6. QED BY <2>1, <2>2, <2>5 DEF Kept
<1>10. Boxes!Die
  BY <1>4, <1>6, <1>7, <1>8, <1>9, DieIs
<1>11. QED BY <1>8, <1>10 DEF Boxes!Next

LEMMA RestStep ==
    ASSUME BoxInv,
           \/ UNCHANGED vars
           \/ GetStatus
           \/ \E u \in Uin : LogOut(u)
           \/ \E c \in Con : cmd_conn_info(c) \/ del_con(c)
           \/ \E u \in Uin, c \in Con : LogIn(u, c)
    PROVE  BoxInv' /\ UNCHANGED Boxes!vars
<1>1. UNCHANGED <<map, offline_msg, accepted, sent, running, may>>
  BY DEF vars, GetStatus, LogOut, cmd_conn_info, del_con, LogIn
<1>2. QED BY <1>1 DEF BoxInv, Sound, Waiting, Kept, Boxes!vars

LEMMA BoxStep ==
    ASSUME TypeInv, BoxInv, [Next]_vars
    PROVE  BoxInv' /\ [Sound => Boxes!Next]_(Boxes!vars)
<1>1. may' = may
  BY DEF Next, vars, cmd_message, send_msg, store_offline_msg, overrun_query,
         cmd_offline_msg, overrun_rows, Dies, cmd_conn_info, del_con, GetStatus,
         LogIn, LogOut
<1>2. CASE ~Sound
  BY <1>1, <1>2 DEF BoxInv, Sound
<1>3. CASE Sound
  <2>1. "friend" \notin may
    BY <1>3 DEF Sound
  <2>2. ASSUME NEW from \in Uin, NEW to \in Uin, NEW len \in Length,
               cmd_message(from, to, "chat", len)
        PROVE  BoxInv' /\ Boxes!Next
    BY <1>3, <2>2, LengthAssumption, AcceptStep
  <2>3. CASE send_msg
    BY <1>3, <2>3, SendStep
  <2>4. CASE store_offline_msg \/ overrun_query
    BY <1>3, <2>4, StoreStep, QueryStep
  <2>5. CASE \E u \in Uin : cmd_offline_msg(u) \/ overrun_rows(u)
    BY <1>3, <2>5, OfflineStep, RowsStep
  <2>6. CASE \/ UNCHANGED vars
             \/ GetStatus
             \/ \E u \in Uin : LogOut(u)
             \/ \E c \in Con : cmd_conn_info(c) \/ del_con(c)
             \/ \E u \in Uin, c \in Con : LogIn(u, c)
    BY <2>6, RestStep
  <2>7. QED BY <2>1, <2>2, <2>3, <2>4, <2>5, <2>6 DEF Next
<1>4. QED BY <1>2, <1>3

\* With no friend messages and no failing database, a chat that was accepted is
\* kept, waiting or in the table, until it is sent to the user it is for, and is
\* sent to nobody else and once: even when a connection server leaves while the
\* status server is asked, and in whatever order the table gives its rows.  It is
\* lost only where it is too long for query_str, or finds others of its sender in
\* the table; or with the server, which dies of such a text, or of rows that do
\* not fit in one packet, and what it has sent by then is right.
THEOREM PromiseCorrect == Spec => MailboxSpec
<1>1. Init => TypeInv /\ BoxInv /\ (Sound => Boxes!Init)
  BY TypeInit, BoxInit
<1>2. TypeInv /\ BoxInv /\ [Next]_vars =>
        TypeInv' /\ BoxInv' /\ [Sound => Boxes!Next]_(Boxes!vars)
  BY TypeStep, BoxStep
<1>3. QED BY <1>1, <1>2, PTL DEF Spec, MailboxSpec
=============================================================================
