-------------------------- MODULE ContactServerProof --------------------------
(***************************************************************************)
(* The lists of the contact server are right, for any users, tables and    *)
(* requests: as long as the row of a user is not spoiled, it is in the     *)
(* first table, and it has whom he has agreed with, up to those that are   *)
(* being served.                                                           *)
(***************************************************************************)
EXTENDS ContactServer, SequenceTheorems, FiniteSetTheorems, WellFoundedInduction, TLAPS

\* Whether a user is one of the two of whom only the first was served.
Half(u) == IF accepting # NULL /\ u \in {accepting[1], accepting[2]} THEN 1 ELSE 0

Pending(u) == IF u \in ToSet(counters) THEN 1 ELSE 0

\* How many friends are in the tables: the second to be served lacks the last.
Written(u) ==
    IF accepting # NULL /\ accepting[2] = u THEN Len(accepted[u]) - 1 ELSE Len(accepted[u])

\* The count lacks those to be counted, and nobody waits twice to be counted.
CountInv(u) ==
    /\ contact_count[u] + Pending(u) + Half(u) = Len(accepted[u])
    /\ \A i, j \in 1 .. Len(counters) : counters[i] = u /\ counters[j] = u => i = j
    /\ accepting # NULL /\ accepting[1] = u =>
            u \notin ToSet(counters) /\ accepting[2] # u

\* His row is in the first table, and its columns are his friends in order.
TableInv(u) ==
    /\ Written(u) <= Size[1]
    /\ Written(u) = 0 => contact[u][1] = NULL
    /\ Written(u) > 0 => contact[u][1] # NULL
    /\ \A i \in 1 .. Written(u) : contact[u][1][i] = accepted[u][i]

\* While two are asked only once, they are not friends yet.
PairInv(u, f) ==
    /\ requests[<<u, f>>] > 0 =>
        /\ requests[<<u, f>>] = 1
        /\ u # f => requests[<<f, u>>] = 0
        /\ f \notin ToSet(accepted[u])
    /\ u # f => \A i, j \in 1 .. Len(accepted[u]) :
                    accepted[u][i] = f /\ accepted[u][j] = f => i = j

\* What holds of one, holds of the other.
SymmetryInv ==
    /\ \A u, f \in Uin : <<u, f>> \in crossed => <<f, u>> \in crossed
    /\ \A u, f \in Uin : f \in ToSet(accepted[u]) => u \in ToSet(accepted[f])
    /\ \A u \in Uin : u \in ToSet(accepted[u]) => u \in spoiled

HalfInv ==
    accepting # NULL =>
        /\ reply = NoReply
        /\ LET u == accepting[1]
               f == accepting[2]
           IN  /\ accepted[u] # <<>> /\ Last(accepted[u]) = f
               /\ accepted[f] # <<>> /\ (u # f => Last(accepted[f]) = u)

RowsInv == \A u \in Uin \ spoiled : CountInv(u) /\ TableInv(u)

PairsInv == \A u, f \in Uin : <<u, f>> \notin crossed => PairInv(u, f)

IInv ==
    /\ TypeOK
    /\ RowsInv
    /\ PairsInv
    /\ SymmetryInv
    /\ HalfInv

-----------------------------------------------------------------------------
(* The tables.                                                             *)

LEMMA Least ==
    ASSUME NEW T \in SUBSET Nat, T # {}
    PROVE  \E x \in T : \A y \in T : x <= y
<1>1. IsWellFoundedOn(OpToRel(<, Nat), Nat)
  BY NatLessThanWellFounded
<1>2. PICK x \in T : \A y \in T : ~(<<y, x>> \in OpToRel(<, Nat))
  BY <1>1, WFMin
<1>3. \A y \in T : x \in Nat /\ y \in Nat /\ ~(y < x)
  BY <1>2 DEF OpToRel
<1>4. \A y \in T : x <= y
  BY <1>3
<1>5. QED BY <1>2, <1>4

\* The tables: there is a first one, and each has columns.
LEMMA Sizes ==
    /\ Len(Size) \in Nat /\ Class = 1 .. Len(Size) /\ 1 \in Class
    /\ Len(Size) \in Class
    /\ \A c \in Class : Size[c] \in Nat /\ 0 < Size[c] /\ c \in Nat
    /\ Last(Size) = Size[Len(Size)]
<1>1. Len(Size) \in Nat /\ DOMAIN Size = 1 .. Len(Size) /\ Len(Size) # 0
  BY SizeAssumption, LenProperties, EmptySeq
<1>2. \A c \in 1 .. Len(Size) : Size[c] \in Nat \ {0}
  BY SizeAssumption, ElementOfSeq
<1>3. QED BY <1>1, <1>2 DEF Class, Last

LEMMA TableForSome ==
    ASSUME NEW num \in Nat, \E c \in Class : num <= Size[c]
    PROVE  TableFor(num) \in Class /\ num <= Size[TableFor(num)]
<1> DEFINE fit == {c \in Class : num <= Size[c]}
<1>1. fit # {} /\ fit \in SUBSET Nat
  BY Sizes
<1> HIDE DEF fit
<1>2. \E c \in fit : \A d \in fit : c <= d
  BY <1>1, Least
<1>3. TableFor(num) = CHOOSE c \in fit : \A d \in fit : c <= d
  BY <1>1 DEF TableFor, fit
<1>4. TableFor(num) \in fit
  BY <1>2, <1>3
<1>5. QED BY <1>4 DEF fit

LEMMA TableForNone ==
    ASSUME NEW num \in Nat, ~ \E c \in Class : num <= Size[c]
    PROVE  TableFor(num) = NULL
  BY DEF TableFor

\* What fits the first table is there.
LEMMA TableForFirst ==
    ASSUME NEW num \in Nat, num <= Size[1]
    PROVE  TableFor(num) = 1
<1> DEFINE fit == {c \in Class : num <= Size[c]}
<1>1. 1 \in fit /\ \A d \in fit : d \in Nat /\ 1 <= d
  BY Sizes
<1>2. TableFor(num) = CHOOSE c \in fit : \A d \in fit : c <= d
  BY <1>1 DEF TableFor
<1> HIDE DEF fit
<1>3. \A c \in fit : (\A d \in fit : c <= d) => c = 1
  BY <1>1
<1>4. QED BY <1>1, <1>2, <1>3

LEMMA RowsType ==
    ASSUME NEW r \in Rows, NEW c \in Class, NEW v,
           v = NULL \/ v \in [1 .. Size[c] -> Column]
    PROVE  [r EXCEPT ![c] = v] \in Rows
<1> DEFINE s == [r EXCEPT ![c] = v]
           All == UNION ({[1 .. Size[d] -> Column] : d \in Class} \cup {{NULL}})
<1>1. v \in All
  <2>1. CASE v = NULL
    BY <2>1
  <2>2. CASE v \in [1 .. Size[c] -> Column]
    BY <2>2
  <2>3. QED BY <2>1, <2>2
<1> HIDE DEF All
<1>2. r \in [Class -> All] /\ \A d \in Class : r[d] # NULL => r[d] \in [1 .. Size[d] -> Column]
  BY DEF Rows, All
<1>3. s \in [Class -> All]
  BY <1>1, <1>2
<1>4. \A d \in Class : s[d] # NULL => s[d] \in [1 .. Size[d] -> Column]
  BY <1>2
<1>5. QED BY <1>3, <1>4 DEF Rows, All

\* A list has as many as it should.
LEMMA ListType ==
    ASSUME TypeOK, NEW u \in Uin, NEW num \in Nat
    PROVE  /\ get_friend_list(u, num) \in Seq(Column)
           /\ Len(get_friend_list(u, num)) = num
<1> DEFINE l == get_friend_list(u, num)
<1>1. CASE num = 0
  BY <1>1, EmptySeq DEF get_friend_list
<1>2. CASE num # 0
  <2>1. l \in [1 .. num -> Column]
    <3>1. CASE TableFor(num) = NULL \/ contact[u][TableFor(num)] = NULL
      BY <1>2, <3>1 DEF get_friend_list, Column
    <3>2. CASE ~(TableFor(num) = NULL \/ contact[u][TableFor(num)] = NULL)
      <4> DEFINE c == TableFor(num)
      <4>1. c \in Class /\ num <= Size[c]
        BY <3>2, TableForSome, TableForNone
      <4>2. l = [i \in 1 .. num |-> contact[u][c][i]]
        BY <1>2, <3>2 DEF get_friend_list
      <4> HIDE DEF c
      <4>3. contact[u][c] \in [1 .. Size[c] -> Column]
        BY <3>2, <4>1 DEF TypeOK, Rows, c
      <4>4. \A i \in 1 .. num : i \in 1 .. Size[c]
        BY <4>1, Sizes
      <4>5. QED BY <4>2, <4>3, <4>4
    <3>3. QED BY <3>1, <3>2
  <2>2. l \in Seq(Column)
    BY <2>1, SeqDef
  <2>3. QED BY <2>1, <2>2, LenProperties
<1>3. QED BY <1>1, <1>2

\* So are the statements.
LEMMA InsertType ==
    ASSUME NEW r \in Rows, NEW c, NEW friends \in Seq(Column)
    PROVE  Insert(r, c, friends) \in Rows
<1> DEFINE v == [i \in 1 .. Size[c] |-> IF i <= Len(friends) THEN friends[i] ELSE NoUin]
<1>1. CASE r[c] # NULL
  BY <1>1 DEF Insert
<1>2. CASE r[c] = NULL /\ c \in Class
  <2>1. v \in [1 .. Size[c] -> Column]
    <3>1. \A i \in 1 .. Size[c] : i \in Nat \ {0}
      BY <1>2, Sizes
    <3>2. \A i \in 1 .. Size[c] : i <= Len(friends) => friends[i] \in Column
      BY <3>1, LenProperties, ElementOfSeq
    <3>3. QED BY <3>2 DEF Column
  <2> HIDE DEF v
  <2>2. [r EXCEPT ![c] = v] \in Rows
    BY <1>2, <2>1, RowsType
  <2>3. QED BY <1>2, <2>2 DEF Insert, v
<1>3. CASE r[c] = NULL /\ c \notin Class
  <2> HIDE DEF v
  <2>1. [r EXCEPT ![c] = v] = r
    BY <1>3 DEF Rows
  <2>2. QED BY <1>3, <2>1 DEF Insert, v
<1>4. QED BY <1>1, <1>2, <1>3

LEMMA UpdateType ==
    ASSUME NEW r \in Rows, NEW c \in Class, NEW column \in Nat, NEW f \in Uin
    PROVE  Update(r, c, column, f) \in Rows
<1>1. CASE r[c] = NULL \/ column > Size[c]
  BY <1>1 DEF Update
<1>2. CASE ~(r[c] = NULL \/ column > Size[c])
  <2> DEFINE v == [r[c] EXCEPT ![column] = f]
  <2>1. v \in [1 .. Size[c] -> Column]
    BY <1>2 DEF Rows, Column
  <2> HIDE DEF v
  <2>2. [r EXCEPT ![c] = v] \in Rows
    BY <2>1, RowsType
  <2>3. QED BY <1>2, <2>2 DEF Update, v
<1>3. QED BY <1>1, <1>2

LEMMA DeleteType ==
    ASSUME NEW r \in Rows, NEW c \in Class
    PROVE  Delete(r, c) \in Rows
  BY RowsType DEF Delete

LEMMA AddType ==
    ASSUME TypeOK, NEW u \in Uin, NEW f \in Uin
    PROVE  friend_add_contact(u, f) \subseteq Rows
<1> DEFINE num == contact_count[u]
           row == contact[u]
           c == TableFor(num)
<1>1. num \in Nat /\ row \in Rows
  BY DEF TypeOK
<1>2. \A a, b \in Rows : Tried(u, a, b) \subseteq Rows
  BY DEF Tried
<1> HIDE DEF num, row
<1>3. CASE num = 0
  <2>1. <<f>> \in Seq(Column)
    BY DEF Column
  <2>2. Insert(row, 1, <<f>>) \in Rows
    BY <1>1, <2>1, InsertType
  <2>3. friend_add_contact(u, f) = Tried(u, row, Insert(row, 1, <<f>>))
    BY <1>3 DEF friend_add_contact, num, row
  <2>4. QED BY <1>1, <1>2, <2>2, <2>3
<1>4. CASE num # 0 /\ num >= Last(Size)
  BY <1>1, <1>4 DEF friend_add_contact, num, row
<1>5. CASE num # 0 /\ ~(num >= Last(Size))
  <2>1. num <= Size[Len(Size)] /\ Len(Size) \in Class
    BY <1>1, <1>5, Sizes
  <2>2. c \in Class
    BY <1>1, <2>1, TableForSome
  <2>3. Size[c] \in Nat
    BY <2>2, Sizes
  <2> HIDE DEF c
  <2>4. CASE num < Size[c]
    <3>1. Update(row, c, num + 1, f) \in Rows
      BY <1>1, <2>2, UpdateType
    <3>2. friend_add_contact(u, f) = Tried(u, row, Update(row, c, num + 1, f))
      BY <1>5, <2>4 DEF friend_add_contact, num, row, c
    <3>3. QED BY <1>1, <1>2, <3>1, <3>2
  <2>5. CASE ~(num < Size[c])
    <3>1. Moved(u, c, f) \subseteq Rows
      <4> DEFINE copied == Insert(row, c + 1, get_friend_list(u, Size[c]))
      <4>1. copied \in Rows
        BY <1>1, <2>3, ListType, InsertType
      <4>2. Delete(copied, c) \in Rows
        BY <2>2, <4>1, DeleteType
      <4> HIDE DEF copied
      <4>3. Tried(u, copied, Delete(copied, c)) \subseteq Rows
        BY <1>2, <4>1, <4>2
      <4>4. \A r \in Rows : \A d \in Class : Update(r, d, Size[c] + 1, f) \in Rows
        BY <2>3, UpdateType
      <4>5. Moved(u, c, f) = UNION {{r} \cup {Update(r, d, Size[c] + 1, f) : d \in Class} :
                                    r \in Tried(u, copied, Delete(copied, c))}
        BY DEF Moved, copied, row
      <4>6. QED BY <4>3, <4>4, <4>5
    <3>2. friend_add_contact(u, f) \subseteq {row} \cup Moved(u, c, f)
      BY <1>5, <2>5 DEF friend_add_contact, num, row, c
    <3>3. QED BY <1>1, <3>1, <3>2
  <2>6. QED BY <2>4, <2>5
<1>6. QED BY <1>3, <1>4, <1>5

-----------------------------------------------------------------------------
(* The types.                                                              *)

LEMMA AddedType ==
    ASSUME TypeOK, NEW u \in Uin, NEW f \in Uin, Added(u, f)
    PROVE  contact' \in [Uin -> Rows] /\ spoiled' \subseteq Uin
<1>1. PICK row \in friend_add_contact(u, f) : contact' = [contact EXCEPT ![u] = row]
  BY DEF Added
<1>2. row \in Rows
  BY AddType
<1>3. spoiled' = spoiled \cup {u} \/ spoiled' = spoiled
  BY DEF Added
<1>4. QED BY <1>1, <1>2, <1>3 DEF TypeOK

\* A pair of users, and what it is made of.
LEMMA Asked ==
    ASSUME NEW p \in Asking
    PROVE  p[1] \in Uin /\ p[2] \in Uin /\ p = <<p[1], p[2]>>
<1>1. p \in Uin \X Uin
  BY AskingAssumption, UinAssumption
<1>2. QED BY <1>1

LEMMA InitType == Init => TypeOK
<1> SUFFICES ASSUME Init PROVE TypeOK
  OBVIOUS
<1>1. contact \in [Uin -> Rows]
  <2>1. [c \in Class |-> NULL] \in Rows
    BY DEF Rows
  <2>2. QED BY <2>1 DEF Init
<1>2. <<>> \in Seq(Uin)
  BY EmptySeq
<1>3. QED BY <1>1, <1>2 DEF Init, TypeOK

LEMMA TypeStep == TypeOK /\ [Next]_vars => TypeOK'
<1> SUFFICES ASSUME TypeOK, [Next]_vars PROVE TypeOK'
  OBVIOUS
<1> USE DEF TypeOK
<1>1. ASSUME NEW u \in Uin, NEW f \in Uin, cmd_add_contact(u, f) PROVE TypeOK'
  <2>1. requests' \in [Uin \X Uin -> Nat] /\ crossed' \subseteq Uin \X Uin
    <3>1. requests[<<u, f>>] + 1 \in Nat /\ <<u, f>> \in Uin \X Uin /\ <<f, u>> \in Uin \X Uin
      OBVIOUS
    <3>2. \/ requests' = [requests EXCEPT ![<<u, f>>] = @ + 1]
          \/ requests' = requests
      BY <1>1 DEF cmd_add_contact
    <3>3. crossed' = crossed \cup {<<u, f>>, <<f, u>>} \/ crossed' = crossed
      BY <1>1 DEF cmd_add_contact
    <3>4. QED BY <3>1, <3>2, <3>3
  <2>2. QED BY <1>1, <2>1 DEF cmd_add_contact, tables
<1>2. ASSUME NEW u \in Uin, NEW f \in Uin, Answered(u, f)
      PROVE  requests' \in [Uin \X Uin -> Nat]
  <2>1. requests[<<u, f>>] \in Nat /\ requests[<<u, f>>] > 0
    BY <1>2 DEF Answered
  <2>2. requests[<<u, f>>] - 1 \in Nat
    BY <2>1
  <2>3. QED BY <1>2, <2>2 DEF Answered
<1>3. ASSUME NEW u \in Uin, NEW f \in Uin, accept(u, f) PROVE TypeOK'
  <2>1. requests' \in [Uin \X Uin -> Nat]
    BY <1>2, <1>3 DEF accept
  <2>2. accepted' \in [Uin -> Seq(Uin)]
    <3>1. \A s \in Seq(Uin) : s \o <<f, f>> \in Seq(Uin) /\ Append(s, f) \in Seq(Uin)
                                  /\ Append(s, u) \in Seq(Uin)
      OBVIOUS
    <3>2. QED BY <1>3, <3>1 DEF accept
  <2>3. contact' \in [Uin -> Rows] /\ spoiled' \subseteq Uin
    BY <1>3, AddedType DEF accept, Smashed
  <2>4. accepting' \in (Uin \X Uin) \cup {NULL} /\ running' \in BOOLEAN
    BY <1>3 DEF accept, Smashed
  <2>5. UNCHANGED <<contact_count, counters, fdmap, infos, origin, crossed>>
    BY <1>3 DEF accept
  <2>6. QED BY <2>1, <2>2, <2>3, <2>4, <2>5
<1>4. ASSUME NEW u \in Uin, NEW f \in Uin, refuse(u, f) PROVE TypeOK'
  BY <1>2, <1>4 DEF refuse, tables, history
<1>5. ASSUME accept_other PROVE TypeOK'
  <2> DEFINE u == accepting[1]
             f == accepting[2]
  <2>1. u \in Uin /\ f \in Uin
    BY <1>5 DEF accept_other
  <2>2. contact' \in [Uin -> Rows] /\ spoiled' \subseteq Uin
    <3>1. CASE Added(f, u)
      BY <2>1, <3>1, AddedType
    <3>2. CASE Smashed(f, u, f) /\ UNCHANGED contact
      BY <2>1, <3>2 DEF Smashed
    <3>3. QED BY <1>5, <3>1, <3>2 DEF accept_other
  <2>3. counters' \in Seq(Uin) /\ running' \in BOOLEAN
    <3>1. <<u, f>> \in Seq(Uin)
      BY <2>1
    <3>2. counters' = counters \/ counters' = counters \o <<u, f>>
      BY <1>5 DEF accept_other
    <3>3. running' = running \/ running' = FALSE
      BY <1>5 DEF accept_other, Smashed
    <3> HIDE DEF u, f
    <3>. counters \o <<u, f>> \in Seq(Uin)
      BY <3>1, ConcatProperties
    <3>4. QED BY <3>2, <3>3
  <2>4. QED BY <1>5, <2>2, <2>3 DEF accept_other
<1>6. ASSUME user_friend_add PROVE TypeOK'
  <2>1. Head(counters) \in Uin /\ Tail(counters) \in Seq(Uin)
    BY <1>6, EmptySeq, HeadTailProperties DEF user_friend_add
  <2>2. contact_count' \in [Uin -> Nat] /\ spoiled' \subseteq Uin
    <3>1. contact_count[Head(counters)] + 1 \in Nat
      BY <2>1
    <3>2. QED BY <1>6, <2>1, <3>1 DEF user_friend_add
  <2>3. QED BY <1>6, <2>1, <2>2 DEF user_friend_add
<1>7. ASSUME NEW u \in Uin, cmd_contact_list(u) PROVE TypeOK'
  BY <1>7 DEF cmd_contact_list, tables, history
<1>8. ASSUME NEW u \in Uin, NEW con \in Con, cmd_contact_info_multi(u, con) PROVE TypeOK'
  BY <1>8 DEF cmd_contact_info_multi, tables, history
<1>9. ASSUME rep_multi_status PROVE TypeOK'
  BY <1>9, EmptySeq, HeadTailProperties DEF rep_multi_status, tables, history
<1>10. CASE UNCHANGED vars
  BY <1>10 DEF vars, tables, history
<1>11. \A u \in Asker : u \in Uin
  BY AskingAssumption, UinAssumption
<1>12. QED
  BY <1>1, <1>3, <1>4, <1>5, <1>6, <1>7, <1>8, <1>9, <1>10, <1>11, Asked
  DEF Next, ListStep, DetailStep

\* Rows have the columns of their table, and the columns hold users, nothing or
\* what was never written (friend_db.c).
THEOREM TypeCorrect == Spec => []TypeOK
<1>1. QED BY InitType, TypeStep, PTL DEF Spec

-----------------------------------------------------------------------------
(* A list is what was agreed, up to the count.                             *)

LEMMA HalfValue == \A u : Half(u) \in {0, 1} /\ Pending(u) \in {0, 1}
  BY DEF Half, Pending

\* As far as the count goes, friends are written.
LEMMA CountBound ==
    ASSUME TypeOK, NEW u \in Uin, CountInv(u)
    PROVE  /\ contact_count[u] \in Nat /\ Len(accepted[u]) \in Nat
           /\ Written(u) \in Nat
           /\ contact_count[u] <= Written(u) /\ Written(u) <= Len(accepted[u])
<1>1. accepted[u] \in Seq(Uin) /\ contact_count[u] \in Nat
  BY DEF TypeOK
<1>2. Len(accepted[u]) \in Nat
  BY <1>1, LenProperties
<1>3. accepting # NULL /\ accepting[2] = u => Half(u) = 1
  BY DEF Half
<1> DEFINE n == Len(accepted[u])
           k == contact_count[u]
           h == Half(u)
           p == Pending(u)
<1>4. k + p + h = n
  BY DEF CountInv
<1>5. Written(u) = n \/ (h = 1 /\ Written(u) = n - 1)
  BY <1>3 DEF Written
<1>6. h \in {0, 1} /\ p \in {0, 1}
  BY HalfValue
<1> HIDE DEF n, k, h, p
<1>7. k \in Nat /\ n \in Nat
  BY <1>1, <1>2 DEF n, k
<1>8. Written(u) \in Nat /\ k <= Written(u) /\ Written(u) <= n
  BY <1>4, <1>5, <1>6, <1>7
<1>9. QED BY <1>7, <1>8 DEF n, k

LEMMA ListedIs ==
    ASSUME TypeOK, NEW u \in Uin, CountInv(u), TableInv(u)
    PROVE  Listed(u) = [i \in 1 .. contact_count[u] |-> accepted[u][i]]
<1> DEFINE k == contact_count[u]
           w == Written(u)
<1>1. k \in Nat /\ w \in Nat /\ k <= w
  BY CountBound
<1>2. w <= Size[1] /\ (w > 0 => contact[u][1] # NULL)
  BY DEF TableInv
<1>3. \A i \in 1 .. w : contact[u][1][i] = accepted[u][i]
  BY DEF TableInv
<1>4. Listed(u) = get_friend_list(u, k)
  BY DEF Listed
<1> HIDE DEF k, w
<1>5. CASE k = 0
  <2>1. Listed(u) = <<>>
    BY <1>4, <1>5 DEF get_friend_list
  <2>2. QED BY <1>5, <2>1 DEF k
<1>6. CASE k # 0
  <2>1. k <= Size[1] /\ w > 0
    BY <1>1, <1>2, <1>6, Sizes
  <2>2. TableFor(k) = 1
    BY <1>1, <2>1, TableForFirst
  <2>3. 1 # NULL /\ contact[u][1] # NULL
    BY <1>2, <2>1, NullAssumption
  <2>4. Listed(u) = [i \in 1 .. k |-> contact[u][1][i]]
    BY <1>4, <1>6, <2>2, <2>3 DEF get_friend_list
  <2>5. \A i \in 1 .. k : contact[u][1][i] = accepted[u][i]
    BY <1>1, <1>3
  <2>6. QED BY <2>4, <2>5 DEF k
<1>7. QED BY <1>5, <1>6

\* Who is served and not spoiled is written to the next column of the first table.
LEMMA AddedRight ==
    ASSUME TypeOK, NEW u \in Uin, NEW f \in Uin, Added(u, f), u \notin spoiled',
           CountInv(u), TableInv(u),
           accepting # NULL => accepting[1] # u
    PROVE  /\ u # f /\ u \notin ToSet(counters) /\ u \notin spoiled
           /\ Written(u) = contact_count[u] /\ contact_count[u] < Size[1]
           /\ \A v \in Uin : v # u => contact'[v] = contact[v]
           /\ contact'[u][1] # NULL
           /\ contact'[u][1][contact_count[u] + 1] = f
           /\ \A i \in 1 .. contact_count[u] : contact'[u][1][i] = contact[u][1][i]
<1> DEFINE k == contact_count[u]
           w == Written(u)
           row == contact[u]
<1>1. PICK new \in friend_add_contact(u, f) : contact' = [contact EXCEPT ![u] = new]
  BY DEF Added
<1>2. spoiled' = spoiled /\ ~Spoils(u) /\ u # f
  BY DEF Added
<1>3. u \notin ToSet(counters) /\ (\A c \in Class : k # Size[c]) /\ new # row
  <2>1. contact'[u] = new
    BY <1>1 DEF TypeOK
  <2>2. QED BY <1>2, <2>1 DEF Spoils
<1>4. w = k /\ k \in Nat
  <2>1. k + Pending(u) + Half(u) = Len(accepted[u]) /\ Pending(u) = 0
    BY <1>3 DEF CountInv, Pending
  <2>2. k \in Nat /\ Len(accepted[u]) \in Nat /\ Half(u) \in {0, 1}
    BY CountBound, HalfValue
  <2>3. CASE accepting # NULL /\ accepting[2] = u
    <3>1. Half(u) = 1 /\ w = Len(accepted[u]) - 1
      BY <2>3 DEF Half, Written
    <3> HIDE DEF k, w
    <3>2. QED BY <2>1, <2>2, <3>1 DEF k
  <2>4. CASE ~(accepting # NULL /\ accepting[2] = u)
    <3>1. Half(u) = 0 /\ w = Len(accepted[u])
      BY <2>4 DEF Half, Written
    <3> HIDE DEF k, w
    <3>2. QED BY <2>1, <2>2, <3>1 DEF k
  <2>5. QED BY <2>3, <2>4
<1>5. Size[1] \in Nat /\ 1 \in Class /\ 0 < Size[1]
  BY Sizes
<1>6. w <= Size[1] /\ (w = 0 => row[1] = NULL) /\ (w > 0 => row[1] # NULL)
  BY DEF TableInv
<1>7. k < Size[1]
  <2>1. k # Size[1] /\ w <= Size[1]
    BY <1>3, <1>5, <1>6
  <2> HIDE DEF k, w
  <2>2. QED BY <1>4, <1>5, <2>1
<1>8. row \in Rows
  BY DEF TypeOK
<1> HIDE DEF k, w, row
<1>9. new[1] # NULL /\ new[1][k + 1] = f /\ \A i \in 1 .. k : new[1][i] = row[1][i]
  <2>1. CASE k = 0
    <3> DEFINE columns == [i \in 1 .. Size[1] |-> IF i <= Len(<<f>>) THEN <<f>>[i] ELSE NoUin]
    <3>1. new \in Tried(u, row, Insert(row, 1, <<f>>))
      BY <1>1, <2>1 DEF friend_add_contact, k, row
    <3>2. new = Insert(row, 1, <<f>>)
      BY <1>3, <3>1 DEF Tried
    <3>3. row[1] = NULL
      BY <1>4, <1>6, <2>1
    <3>4. columns \in [1 .. Size[1] -> Column] /\ columns[1] = f
      BY <1>5 DEF Column
    <3> HIDE DEF columns
    <3>5. new = [row EXCEPT ![1] = columns]
      BY <3>2, <3>3 DEF Insert, columns
    <3>6. new[1] = columns
      BY <1>5, <1>8, <3>5 DEF Rows
    <3>7. columns # NULL
      BY <3>4, <1>5, NullAssumption
    <3>8. QED BY <2>1, <3>4, <3>6, <3>7
  <2>2. CASE k # 0
    <3>1. k < Last(Size)
      <4>1. Last(Size) = Size[Len(Size)] /\ Len(Size) \in Class /\ Len(Size) \in Nat
            /\ Size[Len(Size)] \in Nat
        BY Sizes
      <4>2. Size[1] <= Size[Len(Size)]
        <5>1. CASE Len(Size) = 1
          BY <5>1, <1>5
        <5>2. CASE Len(Size) # 1
          <6>1. 1 \in 1 .. Len(Size) /\ Len(Size) \in Nat /\ Class = 1 .. Len(Size)
            BY Sizes
          <6> DEFINE n == Len(Size)
          <6> HIDE DEF n
          <6>2. n \in Nat /\ 1 \in 1 .. n /\ n # 1
            BY <5>2, <6>1 DEF n
          <6>3. 1 < n
            BY <6>2
          <6>4. Size[1] < Size[Len(Size)]
            BY <4>1, <1>5, <6>3, SizeAssumption DEF Class, n
          <6>5. QED BY <6>4, <4>1, <1>5
        <5>3. QED BY <5>1, <5>2
      <4>3. QED BY <1>4, <1>5, <1>7, <4>1, <4>2
    <3>2. TableFor(k) = 1
      BY <1>4, <1>5, <1>7, TableForFirst
    <3>3. ~(k >= Last(Size))
      BY <1>4, <3>1, Sizes
    <3>4. new \in Tried(u, row, Update(row, 1, k + 1, f))
      BY <1>1, <1>7, <2>2, <3>2, <3>3 DEF friend_add_contact, k, row
    <3>5. new = Update(row, 1, k + 1, f)
      BY <1>3, <3>4 DEF Tried
    <3>6. row[1] # NULL
      BY <1>4, <1>6, <2>2
    <3>7. ~(k + 1 > Size[1]) /\ k + 1 \in 1 .. Size[1]
      BY <1>4, <1>5, <1>7
    <3> DEFINE columns == [row[1] EXCEPT ![k + 1] = f]
    <3>8. row[1] \in [1 .. Size[1] -> Column]
      BY <1>5, <1>8, <3>6 DEF Rows
    <3>9. columns \in [1 .. Size[1] -> Column] /\ columns[k + 1] = f
      BY <3>7, <3>8 DEF Column
    <3>10. \A i \in 1 .. k : columns[i] = row[1][i]
      BY <1>4, <1>5, <1>7, <3>8
    <3> HIDE DEF columns
    <3>11. new = [row EXCEPT ![1] = columns]
      BY <3>5, <3>6, <3>7 DEF Update, columns
    <3>12. new[1] = columns
      BY <1>5, <1>8, <3>11 DEF Rows
    <3>13. columns # NULL
      BY <3>9, <1>5, NullAssumption
    <3>14. QED BY <3>9, <3>10, <3>12, <3>13
  <2>3. QED BY <2>1, <2>2
<1>10. contact'[u] = new /\ \A v \in Uin : v # u => contact'[v] = contact[v]
  BY <1>1 DEF TypeOK
<1>11. QED BY <1>2, <1>3, <1>4, <1>7, <1>9, <1>10 DEF k, w, row

-----------------------------------------------------------------------------
(* The invariant.                                                          *)

LEMMA AppendFacts ==
    ASSUME NEW S, NEW s \in Seq(S), NEW e \in S
    PROVE  /\ Append(s, e) \in Seq(S) /\ Append(s, e) # <<>>
           /\ Len(s) \in Nat /\ Len(Append(s, e)) = Len(s) + 1
           /\ \A i \in 1 .. Len(s) : Append(s, e)[i] = s[i]
           /\ Append(s, e)[Len(s) + 1] = e /\ Last(Append(s, e)) = e
           /\ ToSet(Append(s, e)) = ToSet(s) \cup {e}
<1> DEFINE t == Append(s, e)
           n == Len(s)
<1>1. /\ t \in Seq(S) /\ n \in Nat /\ Len(t) = n + 1
      /\ \A i \in 1 .. n : t[i] = s[i]
      /\ t[n + 1] = e
      /\ DOMAIN s = 1 .. n /\ DOMAIN t = 1 .. n + 1
  BY AppendProperties, LenProperties
<1> HIDE DEF t, n
<1>2. t # <<>>
  BY <1>1, EmptySeq
<1>3. ToSet(t) = ToSet(s) \cup {e}
  <2>1. DOMAIN t = DOMAIN s \cup {n + 1}
    BY <1>1
  <2>2. QED BY <1>1, <2>1 DEF ToSet
<1>4. QED BY <1>1, <1>2, <1>3 DEF t, n, Last

LEMMA TwoFacts ==
    ASSUME NEW S, NEW s \in Seq(S), NEW e \in S, NEW f \in S
    PROVE  /\ s \o <<e, f>> \in Seq(S) /\ s \o <<e, f>> # <<>>
           /\ Len(s) \in Nat /\ Len(s \o <<e, f>>) = Len(s) + 2
           /\ \A i \in 1 .. Len(s) : (s \o <<e, f>>)[i] = s[i]
           /\ (s \o <<e, f>>)[Len(s) + 1] = e /\ (s \o <<e, f>>)[Len(s) + 2] = f
           /\ Last(s \o <<e, f>>) = f
           /\ ToSet(s \o <<e, f>>) = ToSet(s) \cup {e, f}
<1>1. s \o <<e, f>> = Append(Append(s, e), f)
  OBVIOUS
<1> DEFINE t == Append(s, e)
           n == Len(s)
<1>2. /\ t \in Seq(S) /\ n \in Nat /\ Len(t) = n + 1
      /\ \A i \in 1 .. n : t[i] = s[i]
      /\ t[n + 1] = e
      /\ ToSet(t) = ToSet(s) \cup {e}
  BY AppendFacts
<1> HIDE DEF t
<1>3. /\ Append(t, f) \in Seq(S) /\ Append(t, f) # <<>>
      /\ Len(Append(t, f)) = Len(t) + 1
      /\ \A i \in 1 .. Len(t) : Append(t, f)[i] = t[i]
      /\ Append(t, f)[Len(t) + 1] = f /\ Last(Append(t, f)) = f
      /\ ToSet(Append(t, f)) = ToSet(t) \cup {f}
  BY <1>2, AppendFacts
<1> HIDE DEF n
<1>4. n + 1 \in 1 .. n + 1 /\ (n + 1) + 1 = n + 2 /\ \A i \in 1 .. n : i \in 1 .. n + 1
  BY <1>2
<1>5. QED BY <1>1, <1>2, <1>3, <1>4 DEF t, n

\* Nobody's row is mended.
LEMMA SpoiledStays == TypeOK /\ [Next]_vars => spoiled \subseteq spoiled'
<1> SUFFICES ASSUME TypeOK, [Next]_vars PROVE spoiled \subseteq spoiled'
  OBVIOUS
<1>1. ASSUME NEW u, NEW f, Added(u, f) PROVE spoiled \subseteq spoiled'
  BY <1>1 DEF Added
<1>2. ASSUME NEW w, NEW u, NEW f, Smashed(w, u, f) PROVE spoiled \subseteq spoiled'
  BY <1>2 DEF Smashed
<1>3. ASSUME NEW u, NEW f, accept(u, f) PROVE spoiled \subseteq spoiled'
  BY <1>1, <1>2, <1>3 DEF accept
<1>4. ASSUME accept_other PROVE spoiled \subseteq spoiled'
  BY <1>1, <1>2, <1>4 DEF accept_other
<1>5. ASSUME user_friend_add PROVE spoiled \subseteq spoiled'
  BY <1>5 DEF user_friend_add
<1>6. QED
  BY <1>3, <1>4, <1>5
  DEF Next, ListStep, DetailStep, cmd_add_contact, refuse, cmd_contact_list,
      cmd_contact_info_multi, rep_multi_status, vars, history

LEMMA InitInv == Init => IInv
<1> SUFFICES ASSUME Init PROVE IInv
  OBVIOUS
<1>1. TypeOK
  BY InitType
<1>2. ToSet(<<>>) = {} /\ Len(<<>>) = 0
  BY EmptySeq DEF ToSet
<1>3. RowsInv
  <2> SUFFICES ASSUME NEW u \in Uin PROVE CountInv(u) /\ TableInv(u)
    BY DEF RowsInv
  <2>1. contact_count[u] = 0 /\ accepted[u] = <<>> /\ counters = <<>> /\ accepting = NULL
        /\ contact[u][1] = NULL
    BY Sizes DEF Init
  <2>2. CountInv(u)
    BY <1>2, <2>1 DEF CountInv, Pending, Half
  <2>3. Written(u) = 0
    BY <1>2, <2>1 DEF Written
  <2>4. TableInv(u)
    BY <2>1, <2>3, Sizes DEF TableInv
  <2>5. QED BY <2>2, <2>4
<1>4. PairsInv
  BY <1>2 DEF Init, PairsInv, PairInv
<1>5. SymmetryInv /\ HalfInv
  BY <1>2 DEF Init, SymmetryInv, HalfInv
<1>6. QED BY <1>1, <1>3, <1>4, <1>5 DEF IInv

LEMMA AskStep ==
    ASSUME IInv, NEW u \in Uin, NEW f \in Uin, cmd_add_contact(u, f)
    PROVE  RowsInv' /\ PairsInv' /\ SymmetryInv' /\ HalfInv'
<1>1. TypeOK /\ RowsInv /\ PairsInv /\ SymmetryInv
  BY DEF IInv
<1>2. UNCHANGED <<contact_count, contact, counters, accepting, accepted, spoiled>>
      /\ accepting = NULL
  BY DEF cmd_add_contact, tables, Ready
<1>3. RowsInv'
  BY <1>1, <1>2 DEF RowsInv, CountInv, TableInv, Written, Pending, Half
<1>4. PICK result \in check_friend(u, f) :
        IF result = "ok"
        THEN /\ requests' = [requests EXCEPT ![<<u, f>>] = @ + 1]
             /\ crossed' = IF Unsettled(u, f)
                           THEN crossed \cup {<<u, f>>, <<f, u>>} ELSE crossed
        ELSE UNCHANGED <<requests, crossed>>
  BY DEF cmd_add_contact
<1>5. SymmetryInv'
  BY <1>1, <1>2, <1>4 DEF SymmetryInv
<1>6. PairsInv'
  <2> SUFFICES ASSUME NEW a \in Uin, NEW b \in Uin, <<a, b>> \notin crossed'
               PROVE  PairInv(a, b)'
    BY DEF PairsInv
  <2>1. PairInv(a, b) /\ <<b, a>> \notin crossed /\ <<b, a>> \notin crossed'
    BY <1>1, <1>4, <1>5 DEF PairsInv, SymmetryInv
  <2>2. CASE result # "ok"
    BY <1>2, <1>4, <2>1, <2>2 DEF PairInv
  <2>3. CASE result = "ok" /\ {a, b} = {u, f}
    <3>1. ~Unsettled(u, f)
      BY <1>4, <2>1, <2>3
    <3>2. requests[<<u, f>>] = 0 /\ requests[<<f, u>>] = 0
      <4>1. requests[<<u, f>>] \in Nat /\ requests[<<f, u>>] \in Nat
        BY <1>1 DEF TypeOK
      <4>2. ~(requests[<<u, f>>] + requests[<<f, u>>] > 0)
        BY <3>1 DEF Unsettled
      <4>3. QED BY <4>1, <4>2
    <3>3. u \notin spoiled /\ u \notin ToSet(counters)
      BY <3>1 DEF Unsettled
    <3>4. contact_count[u] = Len(accepted[u]) /\ accepted[u] \in Seq(Uin)
      <4>1. contact_count[u] + Pending(u) + Half(u) = Len(accepted[u])
        BY <1>1, <3>3 DEF RowsInv, CountInv
      <4>2. Pending(u) = 0 /\ Half(u) = 0
        BY <1>2, <3>3 DEF Pending, Half
      <4>3. contact_count[u] \in Nat /\ accepted[u] \in Seq(Uin)
        BY <1>1 DEF TypeOK
      <4>4. QED BY <4>1, <4>2, <4>3
    <3>5. f \notin ToSet(accepted[u])
      <4>1. f \notin ToSet(Listed(u))
        BY <1>4, <2>3 DEF check_friend
      <4>2. Listed(u) = [i \in 1 .. Len(accepted[u]) |-> accepted[u][i]]
        BY <1>1, <3>3, <3>4, ListedIs DEF RowsInv
      <4>3. DOMAIN accepted[u] = 1 .. Len(accepted[u])
        BY <3>4, LenProperties
      <4>4. QED BY <4>1, <4>2, <4>3 DEF ToSet
    <3>6. requests' = [requests EXCEPT ![<<u, f>>] = 1]
      BY <1>4, <2>3, <3>2
    <3>7. requests'[<<u, f>>] = 1 /\ (u # f => requests'[<<f, u>>] = 0)
      BY <1>1, <3>2, <3>6 DEF TypeOK
    <3>8. CASE a = u /\ b = f
      BY <1>2, <2>1, <3>5, <3>7, <3>8 DEF PairInv
    <3>9. CASE a = f /\ b = u /\ a # b
      BY <1>2, <2>1, <3>7, <3>9 DEF PairInv
    <3>10. QED BY <2>3, <3>8, <3>9
  <2>4. CASE result = "ok" /\ {a, b} # {u, f}
    <3>1. requests'[<<a, b>>] = requests[<<a, b>>] /\ requests'[<<b, a>>] = requests[<<b, a>>]
      <4>1. <<a, b>> # <<u, f>> /\ <<b, a>> # <<u, f>>
        BY <2>4
      <4>2. QED BY <1>1, <1>4, <2>4, <4>1 DEF TypeOK
    <3>2. QED BY <1>2, <2>1, <3>1 DEF PairInv
  <2>5. QED BY <2>2, <2>3, <2>4
<1>7. HalfInv'
  BY <1>2 DEF HalfInv
<1>8. QED BY <1>3, <1>5, <1>6, <1>7

\* A request that is answered is no longer there.
LEMMA AnsweredOnce ==
    ASSUME TypeOK, PairsInv, NEW u \in Uin, NEW f \in Uin, Answered(u, f)
    PROVE  /\ accepting = NULL
           /\ requests[<<u, f>>] \in Nat /\ requests[<<u, f>>] > 0
           /\ \A p \in Uin \X Uin : requests'[p] = IF p = <<u, f>> THEN requests[p] - 1 ELSE requests[p]
           /\ <<u, f>> \notin crossed =>
                /\ requests'[<<u, f>>] = 0 /\ requests'[<<f, u>>] = 0
                /\ f \notin ToSet(accepted[u])
<1>1. accepting = NULL /\ requests[<<u, f>>] > 0
      /\ requests' = [requests EXCEPT ![<<u, f>>] = @ - 1]
  BY DEF Answered, Ready
<1>2. requests \in [Uin \X Uin -> Nat] /\ requests[<<u, f>>] \in Nat
  BY DEF TypeOK
<1>3. \A p \in Uin \X Uin : requests'[p] = IF p = <<u, f>> THEN requests[p] - 1 ELSE requests[p]
  BY <1>1, <1>2
<1>4. ASSUME <<u, f>> \notin crossed
      PROVE  requests'[<<u, f>>] = 0 /\ requests'[<<f, u>>] = 0 /\ f \notin ToSet(accepted[u])
  <2>1. requests[<<u, f>>] = 1 /\ (u # f => requests[<<f, u>>] = 0) /\ f \notin ToSet(accepted[u])
    BY <1>1, <1>4 DEF PairsInv, PairInv
  <2>2. QED BY <1>3, <2>1
<1>5. QED BY <1>1, <1>2, <1>3, <1>4

LEMMA RefuseStep ==
    ASSUME IInv, NEW u \in Uin, NEW f \in Uin, refuse(u, f)
    PROVE  RowsInv' /\ PairsInv' /\ SymmetryInv' /\ HalfInv'
<1>1. TypeOK /\ RowsInv /\ PairsInv /\ SymmetryInv
  BY DEF IInv
<1>2. UNCHANGED <<contact_count, contact, counters, accepting, accepted, crossed, spoiled>>
      /\ Answered(u, f)
  BY DEF refuse, tables, history
<1>3. RowsInv' /\ SymmetryInv'
  BY <1>1, <1>2 DEF RowsInv, CountInv, TableInv, Written, Pending, Half, SymmetryInv
<1>4. PairsInv'
  <2> SUFFICES ASSUME NEW a \in Uin, NEW b \in Uin, <<a, b>> \notin crossed
               PROVE  PairInv(a, b)'
    BY <1>2 DEF PairsInv
  <2>1. PairInv(a, b) /\ <<b, a>> \notin crossed
    BY <1>1 DEF PairsInv, SymmetryInv
  <2>2. CASE (a = u /\ b = f) \/ (a = f /\ b = u)
    <3>1. <<u, f>> \notin crossed
      BY <2>1, <2>2
    <3>2. requests'[<<a, b>>] = 0
      <4>1. requests'[<<u, f>>] = 0 /\ requests'[<<f, u>>] = 0
        BY <1>1, <1>2, <3>1, AnsweredOnce
      <4>2. QED BY <2>2, <4>1
    <3>3. QED BY <1>2, <2>1, <3>2 DEF PairInv
  <2>3. CASE ~((a = u /\ b = f) \/ (a = f /\ b = u))
    <3>1. requests'[<<a, b>>] = requests[<<a, b>>] /\ requests'[<<b, a>>] = requests[<<b, a>>]
      <4>1. <<a, b>> # <<u, f>> /\ <<b, a>> # <<u, f>>
        BY <2>3
      <4>2. QED BY <1>1, <1>2, <4>1, AnsweredOnce
    <3>2. QED BY <1>2, <2>1, <3>1 DEF PairInv
  <2>4. QED BY <2>2, <2>3
<1>5. HalfInv'
  BY <1>1, <1>2, AnsweredOnce DEF HalfInv
<1>6. QED BY <1>3, <1>4, <1>5

\* What accept makes of the lists of friends.
LEMMA AcceptedNow ==
    ASSUME TypeOK, NEW u \in Uin, NEW f \in Uin, accept(u, f)
    PROVE  /\ \A w \in Uin : w \notin {u, f} => accepted'[w] = accepted[w]
           /\ u # f => accepted'[u] = Append(accepted[u], f) /\ accepted'[f] = Append(accepted[f], u)
           /\ u = f => accepted'[u] = accepted[u] \o <<f, f>>
           /\ ToSet(accepted'[u]) = ToSet(accepted[u]) \cup {f}
           /\ ToSet(accepted'[f]) = ToSet(accepted[f]) \cup {u}
           /\ accepted'[u] # <<>> /\ Last(accepted'[u]) = f
           /\ accepted'[f] # <<>> /\ (u # f => Last(accepted'[f]) = u)
           /\ \A w \in Uin : \A i \in 1 .. Len(accepted[w]) : accepted'[w][i] = accepted[w][i]
           /\ \A w \in Uin : Len(accepted'[w]) \in Nat /\ Len(accepted[w]) <= Len(accepted'[w])
<1>1. accepted \in [Uin -> Seq(Uin)] /\ accepted[u] \in Seq(Uin) /\ accepted[f] \in Seq(Uin)
  BY DEF TypeOK
<1>2. CASE u = f
  <2>1. accepted' = [accepted EXCEPT ![u] = accepted[u] \o <<f, f>>]
    BY <1>2 DEF accept
  <2> DEFINE s == accepted[u] \o <<f, f>>
  <2>2. /\ s \in Seq(Uin) /\ s # <<>>
        /\ Len(accepted[u]) \in Nat /\ Len(s) = Len(accepted[u]) + 2
        /\ \A i \in 1 .. Len(accepted[u]) : s[i] = accepted[u][i]
        /\ Last(s) = f /\ ToSet(s) = ToSet(accepted[u]) \cup {f}
    BY <1>1, TwoFacts
  <2> HIDE DEF s
  <2>3. accepted'[u] = s /\ \A w \in Uin : w # u => accepted'[w] = accepted[w]
    BY <1>1, <2>1 DEF s
  <2>4. \A w \in Uin : Len(accepted[w]) \in Nat
    BY <1>1, LenProperties
  <2>5. \A w \in Uin : Len(accepted'[w]) \in Nat /\ Len(accepted[w]) <= Len(accepted'[w])
    BY <2>2, <2>3, <2>4
  <2>6. \A w \in Uin : \A i \in 1 .. Len(accepted[w]) : accepted'[w][i] = accepted[w][i]
    BY <2>2, <2>3
  <2>7. QED BY <1>2, <2>2, <2>3, <2>5, <2>6 DEF s
<1>3. CASE u # f
  <2>1. accepted' = [accepted EXCEPT ![u] = Append(accepted[u], f), ![f] = Append(accepted[f], u)]
    BY <1>1, <1>3 DEF accept
  <2> DEFINE s == Append(accepted[u], f)
  <2>2. /\ s \in Seq(Uin) /\ s # <<>>
        /\ Len(accepted[u]) \in Nat /\ Len(s) = Len(accepted[u]) + 1
        /\ \A i \in 1 .. Len(accepted[u]) : s[i] = accepted[u][i]
        /\ Last(s) = f /\ ToSet(s) = ToSet(accepted[u]) \cup {f}
    <3> DEFINE a == accepted[u]
    <3>1. a \in Seq(Uin)
      BY <1>1
    <3> HIDE DEF a
    <3>2. QED BY <3>1, AppendFacts DEF a
  <2> HIDE DEF s
  <2> DEFINE t == Append(accepted[f], u)
  <2>3. /\ t \in Seq(Uin) /\ t # <<>>
        /\ Len(accepted[f]) \in Nat /\ Len(t) = Len(accepted[f]) + 1
        /\ \A i \in 1 .. Len(accepted[f]) : t[i] = accepted[f][i]
        /\ Last(t) = u /\ ToSet(t) = ToSet(accepted[f]) \cup {u}
    <3> DEFINE a == accepted[f]
    <3>1. a \in Seq(Uin)
      BY <1>1
    <3> HIDE DEF a
    <3>2. QED BY <3>1, AppendFacts DEF a
  <2> HIDE DEF t
  <2>4. /\ accepted'[u] = s /\ accepted'[f] = t
        /\ \A w \in Uin : w \notin {u, f} => accepted'[w] = accepted[w]
    BY <1>1, <1>3, <2>1 DEF s, t
  <2>5. \A w \in Uin : Len(accepted[w]) \in Nat
    BY <1>1, LenProperties
  <2>6. \A w \in Uin : Len(accepted'[w]) \in Nat /\ Len(accepted[w]) <= Len(accepted'[w])
    <3> SUFFICES ASSUME NEW w \in Uin
                 PROVE  Len(accepted'[w]) \in Nat /\ Len(accepted[w]) <= Len(accepted'[w])
      OBVIOUS
    <3>1. CASE w = u
      BY <2>2, <2>4, <3>1
    <3>2. CASE w = f
      BY <2>3, <2>4, <3>2
    <3>3. CASE w \notin {u, f}
      BY <2>4, <2>5, <3>3
    <3>4. QED BY <3>1, <3>2, <3>3
  <2>7. \A w \in Uin : \A i \in 1 .. Len(accepted[w]) : accepted'[w][i] = accepted[w][i]
    <3> SUFFICES ASSUME NEW w \in Uin
                 PROVE  \A i \in 1 .. Len(accepted[w]) : accepted'[w][i] = accepted[w][i]
      OBVIOUS
    <3>1. CASE w = u
      BY <2>2, <2>4, <3>1
    <3>2. CASE w = f
      BY <2>3, <2>4, <3>2
    <3>3. CASE w \notin {u, f}
      BY <2>4, <3>3
    <3>4. QED BY <3>1, <3>2, <3>3
  <2>8. QED BY <1>3, <2>2, <2>3, <2>4, <2>6, <2>7 DEF s, t
<1>4. QED BY <1>2, <1>3

\* Who agrees is in no list twice, but when requests crossed.
LEMMA AcceptPairs ==
    ASSUME IInv, NEW u \in Uin, NEW f \in Uin, accept(u, f)
    PROVE  PairsInv' /\ SymmetryInv'
<1>1. TypeOK /\ PairsInv /\ SymmetryInv /\ Answered(u, f) /\ crossed' = crossed
  BY DEF IInv, accept
<1>2. u = f => u \in spoiled'
  BY DEF accept, Added, Smashed
<1>3. spoiled \subseteq spoiled'
  BY DEF accept, Added, Smashed
<1>4. SymmetryInv'
  <2>1. \A w \in Uin : w \notin {u, f} => ToSet(accepted'[w]) = ToSet(accepted[w])
    <3>1. \A w \in Uin : w \notin {u, f} => accepted'[w] = accepted[w]
      BY <1>1, AcceptedNow
    <3>2. QED BY <3>1
  <2>2. ToSet(accepted'[u]) = ToSet(accepted[u]) \cup {f}
        /\ ToSet(accepted'[f]) = ToSet(accepted[f]) \cup {u}
    BY <1>1, AcceptedNow
  <2>3. \A a, b \in Uin : b \in ToSet(accepted'[a]) =>
            b \in ToSet(accepted[a]) \/ (a = u /\ b = f) \/ (a = f /\ b = u)
    BY <2>1, <2>2
  <2>4. \A a, b \in Uin : b \in ToSet(accepted[a]) => b \in ToSet(accepted'[a])
    BY <2>1, <2>2
  <2>5. \A a, b \in Uin : b \in ToSet(accepted'[a]) => a \in ToSet(accepted'[b])
    BY <1>1, <2>2, <2>3, <2>4 DEF SymmetryInv
  <2>6. \A a \in Uin : a \in ToSet(accepted'[a]) => a \in spoiled'
    BY <1>1, <1>2, <1>3, <2>3 DEF SymmetryInv
  <2>7. QED BY <1>1, <2>5, <2>6 DEF SymmetryInv
<1>5. \A w \in Uin : w \notin {u, f} => accepted'[w] = accepted[w]
  BY <1>1, AcceptedNow
<1>6. PairsInv'
  <2> SUFFICES ASSUME NEW a \in Uin, NEW b \in Uin, <<a, b>> \notin crossed
               PROVE  PairInv(a, b)'
    BY <1>1 DEF PairsInv
  <2>1. PairInv(a, b) /\ <<b, a>> \notin crossed
    BY <1>1 DEF PairsInv, SymmetryInv
  <2>2. accepted[a] \in Seq(Uin)
    BY <1>1 DEF TypeOK
  <2>3. CASE (a = u /\ b = f) \/ (a = f /\ b = u)
    <3>1. <<u, f>> \notin crossed
      BY <2>1, <2>3
    <3>2. requests'[<<a, b>>] = 0 /\ f \notin ToSet(accepted[u])
      <4>1. requests'[<<u, f>>] = 0 /\ requests'[<<f, u>>] = 0 /\ f \notin ToSet(accepted[u])
        BY <1>1, <3>1, AnsweredOnce
      <4>2. QED BY <2>3, <4>1
    <3>3. b \notin ToSet(accepted[a])
      BY <1>1, <2>3, <3>2 DEF SymmetryInv
    <3>4. ASSUME a # b PROVE \A i, j \in 1 .. Len(accepted'[a]) :
                    accepted'[a][i] = b /\ accepted'[a][j] = b => i = j
      <4>1. accepted'[a] = Append(accepted[a], b)
        <5>1. u # f => accepted'[u] = Append(accepted[u], f) /\ accepted'[f] = Append(accepted[f], u)
          BY <1>1, AcceptedNow
        <5>2. QED BY <2>3, <3>4, <5>1
      <4>2. \A i \in 1 .. Len(accepted[a]) : accepted[a][i] # b
        BY <2>2, <3>3, LenProperties DEF ToSet
      <4> DEFINE n == Len(accepted[a])
      <4>3. /\ n \in Nat /\ Len(accepted'[a]) = n + 1
            /\ \A i \in 1 .. n : accepted'[a][i] = accepted[a][i]
        BY <2>2, <4>1, AppendFacts
      <4> HIDE DEF n
      <4>4. \A i \in 1 .. n + 1 : i \notin 1 .. n => i = n + 1
        BY <4>3
      <4>5. QED BY <4>2, <4>3, <4>4 DEF n
    <3>5. QED BY <3>2, <3>4 DEF PairInv
  <2>4. CASE ~((a = u /\ b = f) \/ (a = f /\ b = u))
    <3>1. requests'[<<a, b>>] = requests[<<a, b>>] /\ requests'[<<b, a>>] = requests[<<b, a>>]
      <4>1. <<a, b>> # <<u, f>> /\ <<b, a>> # <<u, f>>
        BY <2>4
      <4>2. QED BY <1>1, <4>1, AnsweredOnce
    <3>2. b \in ToSet(accepted'[a]) => b \in ToSet(accepted[a])
      <4>1. a \notin {u, f} => accepted'[a] = accepted[a]
        BY <1>5
      <4>2. ToSet(accepted'[u]) = ToSet(accepted[u]) \cup {f}
            /\ ToSet(accepted'[f]) = ToSet(accepted[f]) \cup {u}
        BY <1>1, AcceptedNow
      <4>3. QED BY <2>4, <4>1, <4>2
    <3>3. ASSUME a # b PROVE \A i, j \in 1 .. Len(accepted'[a]) :
                    accepted'[a][i] = b /\ accepted'[a][j] = b => i = j
      <4> DEFINE n == Len(accepted[a])
      <4>1. \A i, j \in 1 .. n : accepted[a][i] = b /\ accepted[a][j] = b => i = j
        BY <2>1, <3>3 DEF PairInv
      <4>2. n \in Nat /\ \A i \in 1 .. n : accepted'[a][i] = accepted[a][i]
        BY <1>1, <2>2, LenProperties, AcceptedNow
      <4>3. CASE a \notin {u, f}
        <5>1. accepted'[a] = accepted[a]
          BY <1>5, <4>3
        <5>2. QED BY <4>1, <5>1
      <4>4. CASE a \in {u, f}
        <5>1. PICK g \in {u, f} : g # b /\
                  (accepted'[a] = Append(accepted[a], g) \/ accepted'[a] = accepted[a] \o <<g, g>>)
          <6>1. /\ u # f => accepted'[u] = Append(accepted[u], f) /\ accepted'[f] = Append(accepted[f], u)
                /\ u = f => accepted'[u] = accepted[u] \o <<f, f>>
            BY <1>1, AcceptedNow
          <6>2. CASE a = u
            <7>1. f # b
              BY <2>4, <6>2
            <7>2. QED BY <6>1, <6>2, <7>1
          <6>3. CASE a = f
            <7>1. u # b
              BY <2>4, <6>3
            <7>2. QED BY <6>1, <6>3, <7>1
          <6>4. QED BY <4>4, <6>2, <6>3
        <5>2. \A i \in 1 .. Len(accepted'[a]) : i \notin 1 .. n => accepted'[a][i] = g
          <6>1. CASE accepted'[a] = Append(accepted[a], g)
            <7>1. Len(accepted'[a]) = n + 1 /\ accepted'[a][n + 1] = g
              BY <2>2, <6>1, AppendFacts
            <7> HIDE DEF n
            <7>2. QED BY <4>2, <7>1
          <6>2. CASE accepted'[a] = accepted[a] \o <<g, g>>
            <7>1. Len(accepted'[a]) = n + 2 /\ accepted'[a][n + 1] = g /\ accepted'[a][n + 2] = g
              BY <2>2, <6>2, TwoFacts
            <7> HIDE DEF n
            <7>2. \A i \in 1 .. n + 2 : i \notin 1 .. n => i = n + 1 \/ i = n + 2
              BY <4>2
            <7>3. QED BY <7>1, <7>2
          <6>3. QED BY <5>1, <6>1, <6>2
        <5> HIDE DEF n
        <5>3. QED BY <4>1, <4>2, <5>1, <5>2
      <4>5. QED BY <4>3, <4>4
    <3>4. QED BY <2>1, <3>1, <3>2, <3>3 DEF PairInv
  <2>5. QED BY <2>3, <2>4
<1>7. QED BY <1>4, <1>6

\* A user whom a step leaves alone.
LEMMA RowStays ==
    ASSUME NEW w \in Uin, CountInv(w), TableInv(w),
           contact_count'[w] = contact_count[w], contact'[w] = contact[w],
           accepted'[w] = accepted[w], Half(w)' = Half(w), Written(w)' = Written(w),
           counters' = counters,
           accepting' # NULL /\ accepting'[1] = w => w \notin ToSet(counters) /\ accepting'[2] # w
    PROVE  CountInv(w)' /\ TableInv(w)'
<1>1. CountInv(w)'
  BY DEF CountInv, Pending
<1>2. TableInv(w)'
  BY DEF TableInv
<1>3. QED BY <1>1, <1>2

\* The first of the two is written, the second is still to be.
LEMMA AcceptRows ==
    ASSUME IInv, NEW u \in Uin, NEW f \in Uin, accept(u, f)
    PROVE  RowsInv' /\ HalfInv'
<1>1. TypeOK /\ RowsInv /\ accepting = NULL
  BY DEF IInv, accept, Answered, Ready
<1>2. UNCHANGED <<contact_count, counters>> /\ reply' = NoReply
  BY DEF accept
<1>3. \A w \in Uin : w \notin {u, f} => accepted'[w] = accepted[w]
  BY <1>1, AcceptedNow
<1>4. <<u, f>> # NULL
  BY NullAssumption
<1>5. \A w \in Uin : Half(w) = 0 /\ Written(w) = Len(accepted[w])
  BY <1>1 DEF Half, Written
<1>6. CASE Smashed(u, u, f) /\ UNCHANGED <<contact, accepting>>
  <2>1. spoiled' = spoiled \cup {u, f}
    BY <1>6 DEF Smashed
  <2>2. RowsInv'
    <3> SUFFICES ASSUME NEW w \in Uin, w \notin spoiled, w \notin {u, f}
                 PROVE  CountInv(w)' /\ TableInv(w)'
      BY <2>1 DEF RowsInv
    <3>1. CountInv(w) /\ TableInv(w)
      BY <1>1 DEF RowsInv
    <3>2. accepted'[w] = accepted[w]
      BY <1>3
    <3>3. Half(w)' = Half(w) /\ Written(w)' = Written(w)
      BY <1>6, <3>2 DEF Half, Written
    <3>4. QED BY <1>1, <1>2, <1>6, <3>1, <3>2, <3>3, RowStays
  <2>3. HalfInv'
    BY <1>1, <1>6 DEF HalfInv
  <2>4. QED BY <2>2, <2>3
<1>7. CASE Added(u, f) /\ accepting' = <<u, f>>
  <2>1. spoiled \subseteq spoiled' /\ (\A w \in Uin : w # u => contact'[w] = contact[w])
    BY <1>1, <1>7 DEF Added, TypeOK
  <2>2. HalfInv'
    <3>1. /\ accepted'[u] # <<>> /\ Last(accepted'[u]) = f
          /\ accepted'[f] # <<>> /\ (u # f => Last(accepted'[f]) = u)
      BY <1>1, AcceptedNow
    <3>2. QED BY <1>2, <1>7, <3>1 DEF HalfInv
  <2>3. RowsInv'
    <3> SUFFICES ASSUME NEW w \in Uin, w \notin spoiled'
                 PROVE  CountInv(w)' /\ TableInv(w)'
      BY DEF RowsInv
    <3>1. CountInv(w) /\ TableInv(w)
      BY <1>1, <2>1 DEF RowsInv
    <3> DEFINE n == Len(accepted[w])
               k == contact_count[w]
    <3>2. n \in Nat /\ k \in Nat
      BY <1>1, <3>1, CountBound
    <3>3. k + Pending(w) + 0 = n /\ Written(w) = n
      BY <1>5, <3>1 DEF CountInv
    <3>4. Pending(w)' = Pending(w)
      BY <1>2 DEF Pending
    <3>5. CASE w = u
      <4>1. /\ u # f /\ u \notin ToSet(counters)
            /\ Written(u) = contact_count[u] /\ contact_count[u] < Size[1]
            /\ contact'[u][1] # NULL
            /\ contact'[u][1][contact_count[u] + 1] = f
            /\ \A i \in 1 .. contact_count[u] : contact'[u][1][i] = contact[u][1][i]
        BY <1>1, <1>7, <3>1, <3>5, AddedRight
      <4>2. accepted'[u] = Append(accepted[u], f) /\ accepted[u] \in Seq(Uin)
        BY <1>1, <4>1, AcceptedNow DEF TypeOK
      <4>3. /\ Len(accepted'[u]) = n + 1 /\ accepted'[u][n + 1] = f
            /\ \A i \in 1 .. n : accepted'[u][i] = accepted[u][i]
        BY <3>5, <4>2, AppendFacts
      <4>4. Half(u)' = 1 /\ Written(u)' = Len(accepted'[u])
        BY <1>4, <1>7, <4>1 DEF Half, Written
      <4>5. CountInv(u)'
        <5>1. \A i, j \in 1 .. Len(counters) : counters[i] = u /\ counters[j] = u => i = j
          BY <3>1, <3>5 DEF CountInv
        <5>2. contact_count'[u] + Pending(u)' + Half(u)' = Len(accepted'[u])
          <6>1. contact_count'[u] = k /\ Pending(u)' = Pending(w) /\ Pending(w) \in {0, 1}
            BY <1>2, <3>4, <3>5, HalfValue
          <6> HIDE DEF n, k
          <6>2. QED BY <3>2, <3>3, <4>3, <4>4, <6>1
        <5>3. QED BY <1>2, <1>7, <4>1, <5>1, <5>2 DEF CountInv
      <4>6. TableInv(u)'
        <5>1. k = n /\ n < Size[1] /\ Size[1] \in Nat
          BY <3>3, <3>5, <4>1, Sizes
        <5>2. \A i \in 1 .. n : contact[u][1][i] = accepted[u][i]
          BY <3>1, <3>3, <3>5 DEF TableInv
        <5>3. contact'[u][1][n + 1] = f /\ contact'[u][1] # NULL
              /\ \A i \in 1 .. n : contact'[u][1][i] = contact[u][1][i]
          BY <3>5, <4>1, <5>1
        <5> HIDE DEF n, k
        <5>4. \A i \in 1 .. n + 1 : i \in 1 .. n \/ i = n + 1
          BY <3>2
        <5>5. \A i \in 1 .. n + 1 : contact'[u][1][i] = accepted'[u][i]
          BY <4>3, <5>2, <5>3, <5>4
        <5>6. n + 1 <= Size[1] /\ n + 1 # 0
          BY <3>2, <5>1
        <5>7. Written(u)' = n + 1
          BY <4>3, <4>4
        <5>8. QED BY <5>3, <5>5, <5>6, <5>7 DEF TableInv
      <4>7. QED BY <3>5, <4>5, <4>6
    <3>6. CASE w = f /\ u # f
      <4>1. accepted'[f] = Append(accepted[f], u) /\ accepted[f] \in Seq(Uin)
        BY <1>1, <3>6, AcceptedNow DEF TypeOK
      <4>2. /\ Len(accepted'[f]) = n + 1
            /\ \A i \in 1 .. n : accepted'[f][i] = accepted[f][i]
        BY <3>6, <4>1, AppendFacts
      <4>3. Half(f)' = 1 /\ Written(f)' = Len(accepted'[f]) - 1
        BY <1>4, <1>7 DEF Half, Written
      <4>4. Written(f)' = n
        <5> HIDE DEF n
        <5>1. QED BY <3>2, <4>2, <4>3
      <4>5. CountInv(f)'
        <5>1. \A i, j \in 1 .. Len(counters) : counters[i] = f /\ counters[j] = f => i = j
          BY <3>1, <3>6 DEF CountInv
        <5>2. contact_count'[f] + Pending(f)' + Half(f)' = Len(accepted'[f])
          <6>1. contact_count'[f] = k /\ Pending(f)' = Pending(w) /\ Pending(w) \in {0, 1}
            BY <1>2, <3>4, <3>6, HalfValue
          <6> HIDE DEF n, k
          <6>2. QED BY <3>2, <3>3, <4>2, <4>3, <6>1
        <5>3. QED BY <1>2, <1>7, <3>6, <5>1, <5>2 DEF CountInv
      <4>6. TableInv(f)'
        <5>1. contact'[f] = contact[f]
          BY <2>1, <3>6
        <5>2. \A i \in 1 .. n : contact[f][1][i] = accepted[f][i]
          BY <3>1, <3>3, <3>6 DEF TableInv
        <5>3. n <= Size[1] /\ (n = 0 => contact[f][1] = NULL) /\ (n > 0 => contact[f][1] # NULL)
          BY <3>1, <3>3, <3>6 DEF TableInv
        <5> HIDE DEF n
        <5>4. QED BY <4>2, <4>4, <5>1, <5>2, <5>3 DEF TableInv
      <4>7. QED BY <3>6, <4>5, <4>6
    <3>7. CASE w \notin {u, f}
      <4>1. accepted'[w] = accepted[w] /\ contact'[w] = contact[w]
        BY <1>3, <2>1, <3>7
      <4>2. Half(w)' = Half(w) /\ Written(w)' = Written(w)
        BY <1>1, <1>7, <3>7, <4>1 DEF Half, Written
      <4>3. accepting'[1] # w
        BY <1>7, <3>7
      <4>4. QED BY <1>2, <3>1, <4>1, <4>2, <4>3, RowStays
    <3>8. QED BY <3>5, <3>6, <3>7
  <2>4. QED BY <2>2, <2>3
<1>8. QED BY <1>6, <1>7 DEF accept

\* The second is written, and both are to be counted.
LEMMA OtherStep ==
    ASSUME IInv, accept_other
    PROVE  RowsInv' /\ PairsInv' /\ SymmetryInv' /\ HalfInv'
<1>1. TypeOK /\ RowsInv /\ PairsInv /\ SymmetryInv /\ HalfInv
  BY DEF IInv
<1>2. /\ UNCHANGED <<contact_count, requests, accepted, crossed>>
      /\ accepting # NULL /\ accepting' = NULL
  BY DEF accept_other
<1>3. PICK u \in Uin, f \in Uin : u = accepting[1] /\ f = accepting[2]
  BY <1>1, <1>2 DEF TypeOK
<1>4. \/ Smashed(f, u, f) /\ UNCHANGED <<contact, counters>>
      \/ Added(f, u) /\ counters' = counters \o <<u, f>>
  BY <1>3 DEF accept_other
<1>5. accepted[f] # <<>> /\ (u # f => Last(accepted[f]) = u)
  BY <1>1, <1>2, <1>3 DEF HalfInv
<1>6. /\ \A w : Half(w) = IF w \in {u, f} THEN 1 ELSE 0
      /\ \A w : Half(w)' = 0
      /\ \A w : Written(w)' = Len(accepted[w])
  BY <1>2, <1>3 DEF Half, Written
<1>7. spoiled \subseteq spoiled'
  BY <1>4 DEF Added, Smashed
<1>8. HalfInv'
  BY <1>2 DEF HalfInv
<1>9. PairsInv' /\ SymmetryInv'
  BY <1>1, <1>2, <1>7 DEF PairsInv, PairInv, SymmetryInv
<1>10. counters \in Seq(Uin)
  BY <1>1 DEF TypeOK
<1>11. RowsInv'
  <2> SUFFICES ASSUME NEW w \in Uin, w \notin spoiled'
               PROVE  CountInv(w)' /\ TableInv(w)'
    BY DEF RowsInv
  <2>1. CountInv(w) /\ TableInv(w)
    BY <1>1, <1>7 DEF RowsInv
  <2> DEFINE n == Len(accepted[w])
             k == contact_count[w]
  <2>2. n \in Nat /\ k \in Nat /\ k + Pending(w) + Half(w) = n /\ Pending(w) \in {0, 1}
    BY <1>1, <2>1, CountBound, HalfValue DEF CountInv
  <2>3. \A i, j \in 1 .. Len(counters) : counters[i] = w /\ counters[j] = w => i = j
    BY <2>1 DEF CountInv
  <2>4. CASE Smashed(f, u, f) /\ UNCHANGED <<contact, counters>>
    <3>1. w \notin {u, f}
      BY <2>4 DEF Smashed
    <3>2. Half(w)' = Half(w) /\ Written(w)' = Written(w)
      BY <1>3, <1>6, <3>1 DEF Written
    <3>3. QED BY <1>2, <2>1, <2>4, <3>2, RowStays
  <2>5. CASE Added(f, u) /\ counters' = counters \o <<u, f>>
    <3>1. \A v \in Uin : v # f => contact'[v] = contact[v]
      BY <1>1, <2>5 DEF Added, TypeOK
    <3> DEFINE m == Len(counters)
    <3>2. /\ m \in Nat /\ Len(counters') = m + 2
          /\ \A i \in 1 .. m : counters'[i] = counters[i]
          /\ counters'[m + 1] = u /\ counters'[m + 2] = f
          /\ ToSet(counters') = ToSet(counters) \cup {u, f}
      BY <1>3, <1>10, <2>5, TwoFacts
    <3>3. \A i \in 1 .. m : counters[i] \in ToSet(counters)
      BY <1>10, LenProperties DEF ToSet
    <3>4. contact_count'[w] = k /\ Len(accepted'[w]) = n
      BY <1>2
    <3>5. CASE w = f
      <4>1. /\ f # u /\ f \notin ToSet(counters)
            /\ Written(f) = contact_count[f] /\ contact_count[f] < Size[1]
            /\ contact'[f][1] # NULL
            /\ contact'[f][1][contact_count[f] + 1] = u
            /\ \A i \in 1 .. contact_count[f] : contact'[f][1][i] = contact[f][1][i]
        <5>1. accepting # NULL => accepting[1] # f
          <6>1. f # u
            BY <2>5, <3>5 DEF Added
          <6>2. QED BY <1>3, <6>1
        <5>2. QED BY <1>1, <1>3, <2>1, <2>5, <3>5, <5>1, AddedRight
      <4>2. Pending(f) = 0 /\ Pending(f)' = 1
        BY <3>2, <4>1 DEF Pending
      <4>3. CountInv(f)'
        <5>1. \A i, j \in 1 .. Len(counters') : counters'[i] = f /\ counters'[j] = f => i = j
          <6>1. \A i \in 1 .. m : counters'[i] # f
            BY <3>2, <3>3, <4>1
          <6> HIDE DEF m
          <6>2. \A i \in 1 .. m + 2 : i \in 1 .. m \/ i = m + 1 \/ i = m + 2
            BY <3>2
          <6>3. \A i \in 1 .. m + 2 : counters'[i] = f => i = m + 2
            BY <3>2, <4>1, <6>1, <6>2
          <6>4. QED BY <3>2, <6>3
        <5>2. contact_count'[f] + Pending(f)' + Half(f)' = Len(accepted'[f])
          <6>1. Half(w) = 1 /\ Half(f)' = 0 /\ Pending(w) = 0
            BY <1>6, <3>5, <4>2
          <6> HIDE DEF n, k
          <6>2. QED BY <2>2, <3>4, <3>5, <4>2, <6>1
        <5>3. QED BY <1>2, <5>1, <5>2 DEF CountInv
      <4>4. TableInv(f)'
        <5>1. n = k + 1
          <6>1. Half(w) = 1 /\ Pending(w) = 0
            BY <1>6, <3>5, <4>2
          <6> HIDE DEF n, k
          <6>2. QED BY <2>2, <6>1
        <5>2. accepted[f][n] = u
          BY <1>5, <3>5, <4>1 DEF Last
        <5>3. \A i \in 1 .. k : contact[f][1][i] = accepted[f][i]
          BY <2>1, <3>5, <4>1 DEF TableInv
        <5>4. k < Size[1] /\ Size[1] \in Nat /\ contact'[f][1] # NULL
              /\ contact'[f][1][k + 1] = u
              /\ \A i \in 1 .. k : contact'[f][1][i] = contact[f][1][i]
          BY <3>5, <4>1, Sizes
        <5>5. Written(f)' = n /\ accepted'[f] = accepted[f]
          BY <1>2, <1>6, <3>5
        <5> HIDE DEF n, k
        <5>6. \A i \in 1 .. k + 1 : i \in 1 .. k \/ i = k + 1
          BY <2>2
        <5>7. \A i \in 1 .. k + 1 : contact'[f][1][i] = accepted[f][i]
          BY <5>1, <5>2, <5>3, <5>4, <5>6
        <5>8. k + 1 <= Size[1] /\ k + 1 # 0
          BY <2>2, <5>4
        <5>9. QED BY <5>1, <5>4, <5>5, <5>7, <5>8 DEF TableInv
      <4>5. QED BY <3>5, <4>3, <4>4
    <3>6. CASE w = u /\ u # f
      <4>1. u \notin ToSet(counters)
        BY <1>2, <1>3, <2>1, <3>6 DEF CountInv
      <4>2. Pending(u) = 0 /\ Pending(u)' = 1
        BY <3>2, <4>1 DEF Pending
      <4>3. CountInv(u)'
        <5>1. \A i, j \in 1 .. Len(counters') : counters'[i] = u /\ counters'[j] = u => i = j
          <6>1. \A i \in 1 .. m : counters'[i] # u
            BY <3>2, <3>3, <4>1
          <6> HIDE DEF m
          <6>2. \A i \in 1 .. m + 2 : i \in 1 .. m \/ i = m + 1 \/ i = m + 2
            BY <3>2
          <6>3. \A i \in 1 .. m + 2 : counters'[i] = u => i = m + 1
            BY <3>2, <3>6, <6>1, <6>2
          <6>4. QED BY <3>2, <6>3
        <5>2. contact_count'[u] + Pending(u)' + Half(u)' = Len(accepted'[u])
          <6>1. Half(w) = 1 /\ Half(u)' = 0 /\ Pending(w) = 0
            BY <1>6, <3>6, <4>2
          <6> HIDE DEF n, k
          <6>2. QED BY <2>2, <3>4, <3>6, <4>2, <6>1
        <5>3. QED BY <1>2, <5>1, <5>2 DEF CountInv
      <4>4. TableInv(u)'
        <5>1. Written(u) = Len(accepted[u]) /\ Written(u)' = Len(accepted[u])
          BY <1>3, <1>6, <3>6 DEF Written
        <5>2. contact'[u] = contact[u] /\ accepted'[u] = accepted[u]
          BY <1>2, <1>3, <3>1, <3>6
        <5>3. QED BY <2>1, <3>6, <5>1, <5>2 DEF TableInv
      <4>5. QED BY <3>6, <4>3, <4>4
    <3>7. CASE w \notin {u, f}
      <4>1. contact'[w] = contact[w] /\ accepted'[w] = accepted[w]
        BY <1>2, <3>1, <3>7
      <4>2. Pending(w)' = Pending(w)
        BY <3>2, <3>7 DEF Pending
      <4>3. Half(w) = 0 /\ Half(w)' = 0 /\ Written(w)' = Written(w)
        BY <1>3, <1>6, <3>7 DEF Written
      <4>4. CountInv(w)'
        <5>1. \A i, j \in 1 .. Len(counters') : counters'[i] = w /\ counters'[j] = w => i = j
          <6> HIDE DEF m
          <6>1. \A i \in 1 .. m + 2 : i \in 1 .. m \/ i = m + 1 \/ i = m + 2
            BY <3>2
          <6>2. \A i \in 1 .. m + 2 : counters'[i] = w => i \in 1 .. m /\ counters[i] = w
            BY <3>2, <3>7, <6>1
          <6>3. QED BY <2>3, <3>2, <6>2 DEF m
        <5>2. contact_count'[w] + Pending(w)' + Half(w)' = Len(accepted'[w])
          BY <2>2, <3>4, <4>2, <4>3
        <5>3. QED BY <1>2, <5>1, <5>2 DEF CountInv
      <4>5. TableInv(w)'
        BY <2>1, <4>1, <4>3 DEF TableInv
      <4>6. QED BY <4>4, <4>5
    <3>8. QED BY <3>5, <3>6, <3>7
  <2>6. QED BY <1>4, <2>4, <2>5
<1>12. QED BY <1>8, <1>9, <1>11

\* A friend is counted.
LEMMA CountStep ==
    ASSUME IInv, user_friend_add
    PROVE  /\ RowsInv' /\ PairsInv' /\ SymmetryInv' /\ HalfInv'
           /\ Head(counters) \in Uin
           /\ Head(counters) \notin spoiled' =>
                 contact_count'[Head(counters)] = contact_count[Head(counters)] + 1
           /\ \A w \in Uin : w # Head(counters) => contact_count'[w] = contact_count[w]
<1> DEFINE h == Head(counters)
           m == Len(counters)
<1>1. TypeOK /\ RowsInv /\ PairsInv /\ SymmetryInv /\ HalfInv
  BY DEF IInv
<1>2. /\ UNCHANGED <<contact, requests, accepting, accepted, crossed>>
      /\ counters # <<>> /\ counters' = Tail(counters) /\ reply' = NoReply
  BY DEF user_friend_add
<1>3. \/ contact_count' = [contact_count EXCEPT ![h] = @ + 1] /\ spoiled' = spoiled
      \/ contact_count' = contact_count /\ spoiled' = spoiled \cup {h}
  BY DEF user_friend_add
<1>4. counters \in Seq(Uin) /\ contact_count \in [Uin -> Nat]
  BY <1>1 DEF TypeOK
<1>5. /\ h \in Uin /\ m \in Nat /\ m > 0
      /\ h = counters[1] /\ Len(counters') = m - 1
      /\ \A i \in 1 .. m - 1 : counters'[i] = counters[i + 1]
      /\ DOMAIN counters = 1 .. m /\ DOMAIN counters' = 1 .. m - 1
  <2>1. /\ Head(counters) \in Uin /\ Head(counters) = counters[1]
        /\ Tail(counters) \in Seq(Uin) /\ Len(Tail(counters)) = Len(counters) - 1
        /\ \A i \in 1 .. Len(Tail(counters)) : Tail(counters)[i] = counters[i + 1]
    BY <1>2, <1>4, HeadTailProperties
  <2>2. Len(counters) \in Nat /\ Len(counters) # 0
    BY <1>2, <1>4, LenProperties, EmptySeq
  <2>3. QED BY <1>2, <1>4, <2>1, <2>2, LenProperties
<1> HIDE DEF h, m
<1>6. spoiled \subseteq spoiled'
  BY <1>3
<1>7. /\ h \notin spoiled' => contact_count'[h] = contact_count[h] + 1
      /\ \A w \in Uin : w # h => contact_count'[w] = contact_count[w]
  BY <1>3, <1>4, <1>5
<1>8. PairsInv' /\ SymmetryInv' /\ HalfInv'
  BY <1>1, <1>2, <1>6 DEF PairsInv, PairInv, SymmetryInv, HalfInv
<1>9. RowsInv'
  <2> SUFFICES ASSUME NEW w \in Uin, w \notin spoiled'
               PROVE  CountInv(w)' /\ TableInv(w)'
    BY DEF RowsInv
  <2>1. CountInv(w) /\ TableInv(w)
    BY <1>1, <1>6 DEF RowsInv
  <2>2. Half(w)' = Half(w) /\ Written(w)' = Written(w)
    BY <1>2 DEF Half, Written
  <2>3. TableInv(w)'
    BY <1>2, <2>1, <2>2 DEF TableInv
  <2>4. \A i, j \in 1 .. m : counters[i] = w /\ counters[j] = w => i = j
    BY <2>1 DEF CountInv, m
  <2>5. \A i, j \in 1 .. Len(counters') : counters'[i] = w /\ counters'[j] = w => i = j
    <3>1. \A i \in 1 .. m - 1 : i + 1 \in 1 .. m
      BY <1>5
    <3>2. ASSUME NEW i \in 1 .. m - 1, NEW j \in 1 .. m - 1, counters'[i] = w, counters'[j] = w
          PROVE  i = j
      <4>1. i + 1 = j + 1
        BY <1>5, <2>4, <3>1, <3>2
      <4>2. QED BY <4>1, <1>5
    <3>3. QED BY <1>5, <3>2
  <2>6. w \in ToSet(counters') => w \in ToSet(counters)
    <3>1. \A i \in 1 .. m - 1 : i + 1 \in 1 .. m
      BY <1>5
    <3>2. QED BY <1>5, <3>1 DEF ToSet
  <2>7. CASE w # h
    <3>1. w \in ToSet(counters) => w \in ToSet(counters')
      <4> SUFFICES ASSUME w \in ToSet(counters) PROVE w \in ToSet(counters')
        OBVIOUS
      <4>1. PICK i \in 1 .. m : counters[i] = w
        BY <1>5 DEF ToSet
      <4>2. i # 1
        BY <1>5, <2>7, <4>1
      <4>3. i - 1 \in 1 .. m - 1 /\ (i - 1) + 1 = i
        BY <1>5, <4>2
      <4>4. counters'[i - 1] = w
        BY <1>5, <4>1, <4>3
      <4>5. QED BY <1>5, <4>3, <4>4 DEF ToSet
    <3>2. Pending(w)' = Pending(w)
      BY <2>6, <3>1 DEF Pending
    <3>3. CountInv(w)'
      BY <1>2, <1>7, <2>1, <2>2, <2>5, <2>7, <3>2, <2>6 DEF CountInv
    <3>4. QED BY <2>3, <3>3
  <2>8. CASE w = h
    <3>1. h \in ToSet(counters)
      BY <1>5 DEF ToSet
    <3>2. h \notin ToSet(counters')
      <4> SUFFICES ASSUME h \in ToSet(counters') PROVE FALSE
        OBVIOUS
      <4>1. PICK i \in 1 .. m - 1 : counters'[i] = h
        BY <1>5 DEF ToSet
      <4>2. i + 1 \in 1 .. m /\ 1 \in 1 .. m /\ i + 1 # 1
        BY <1>5
      <4>3. counters[i + 1] = h
        BY <1>5, <4>1
      <4>4. QED BY <1>5, <2>4, <2>8, <4>2, <4>3
    <3>3. Pending(w) = 1 /\ Pending(w)' = 0
      BY <2>8, <3>1, <3>2 DEF Pending
    <3>4. contact_count'[w] = contact_count[w] + 1
      BY <1>7, <2>8
    <3>5. contact_count'[w] + Pending(w)' + Half(w)' = Len(accepted'[w])
      <4>1. contact_count[w] + Pending(w) + Half(w) = Len(accepted[w])
        BY <2>1 DEF CountInv
      <4>2. contact_count[w] \in Nat /\ Half(w) \in {0, 1} /\ accepted' = accepted
        BY <1>2, <1>4, HalfValue
      <4>3. QED BY <2>2, <3>3, <3>4, <4>1, <4>2
    <3>6. w \notin ToSet(counters')
      BY <2>8, <3>2
    <3>7. accepting' # NULL /\ accepting'[1] = w => accepting'[2] # w
      BY <1>2, <2>1 DEF CountInv
    <3>8. CountInv(w)'
      BY <2>5, <3>5, <3>6, <3>7 DEF CountInv
    <3>9. QED BY <2>3, <3>8
  <2>9. QED BY <2>7, <2>8
<1>10. QED BY <1>5, <1>7, <1>8, <1>9 DEF h

\* The other steps leave all of this alone.
LEMMA IdleStep ==
    ASSUME IInv,
           UNCHANGED <<tables, counters, requests, history>>,
           accepting' = accepting, accepting = NULL \/ reply' = reply
    PROVE  RowsInv' /\ PairsInv' /\ SymmetryInv' /\ HalfInv'
<1>1. UNCHANGED <<contact_count, contact, counters, requests, accepted, crossed, spoiled>>
  BY DEF tables, history
<1>2. RowsInv'
  BY <1>1 DEF IInv, RowsInv, CountInv, TableInv, Written, Pending, Half
<1>3. PairsInv' /\ SymmetryInv'
  BY <1>1 DEF IInv, PairsInv, PairInv, SymmetryInv
<1>4. HalfInv'
  BY <1>1 DEF IInv, HalfInv
<1>5. QED BY <1>2, <1>3, <1>4

LEMMA InvStep == IInv /\ [Next]_vars => IInv'
<1> SUFFICES ASSUME IInv, [Next]_vars PROVE RowsInv' /\ PairsInv' /\ SymmetryInv' /\ HalfInv'
  BY TypeStep DEF IInv
<1>1. ASSUME NEW u \in Uin, NEW f \in Uin, accept(u, f)
      PROVE  RowsInv' /\ PairsInv' /\ SymmetryInv' /\ HalfInv'
  BY <1>1, AcceptRows, AcceptPairs
<1>2. ASSUME NEW u, cmd_contact_list(u)
      PROVE  RowsInv' /\ PairsInv' /\ SymmetryInv' /\ HalfInv'
  BY <1>2, IdleStep DEF cmd_contact_list, Ready
<1>3. ASSUME NEW u, NEW con, cmd_contact_info_multi(u, con)
      PROVE  RowsInv' /\ PairsInv' /\ SymmetryInv' /\ HalfInv'
  BY <1>3, IdleStep DEF cmd_contact_info_multi, Ready
<1>4. ASSUME rep_multi_status
      PROVE  RowsInv' /\ PairsInv' /\ SymmetryInv' /\ HalfInv'
  BY <1>4, IdleStep DEF rep_multi_status, Ready
<1>5. CASE UNCHANGED vars
  BY <1>5, IdleStep DEF vars
<1>6. QED
  BY <1>1, <1>2, <1>3, <1>4, <1>5, AskStep, RefuseStep, OtherStep, CountStep, Asked
  DEF Next, ListStep, DetailStep

LEMMA InvAlways == Spec => []IInv
<1>1. QED BY InitInv, InvStep, PTL DEF Spec

-----------------------------------------------------------------------------
(* What a user is shown.                                                   *)

\* Nobody waits twice to be counted.
LEMMA PendingIs ==
    ASSUME TypeOK, NEW u \in Uin, CountInv(u)
    PROVE  Cardinality({i \in DOMAIN counters : counters[i] = u}) = Pending(u)
<1> DEFINE at == {i \in DOMAIN counters : counters[i] = u}
<1>1. DOMAIN counters = 1 .. Len(counters)
  BY LenProperties DEF TypeOK
<1>2. \A i, j \in at : i = j
  BY <1>1 DEF CountInv
<1>3. u \in ToSet(counters) <=> at # {}
  BY DEF ToSet
<1> HIDE DEF at
<1>4. CASE at = {}
  BY <1>3, <1>4, FS_EmptySet DEF Pending, at
<1>5. CASE at # {}
  <2>1. PICK i \in at : at = {i}
    BY <1>2, <1>5
  <2>2. Cardinality(at) = 1
    BY <2>1, FS_Singleton
  <2>3. QED BY <1>3, <1>5, <2>2 DEF Pending, at
<1>6. QED BY <1>4, <1>5

\* The lists of the users whose rows are not spoiled.
ListsInv ==
    \A u \in Uin \ spoiled :
        /\ Listed(u) = [i \in 1 .. contact_count[u] |-> accepted[u][i]]
        /\ contact_count[u] \in Nat /\ Len(accepted[u]) \in Nat
        /\ contact_count[u] <= Len(accepted[u])

LEMMA FriendsListed == IInv => ListsInv
<1> SUFFICES ASSUME IInv, NEW u \in Uin \ spoiled
             PROVE  /\ Listed(u) = [i \in 1 .. contact_count[u] |-> accepted[u][i]]
                    /\ contact_count[u] \in Nat /\ Len(accepted[u]) \in Nat
                    /\ contact_count[u] <= Len(accepted[u])
  BY DEF ListsInv
<1>1. TypeOK /\ CountInv(u) /\ TableInv(u)
  BY DEF IInv, RowsInv
<1>2. QED BY <1>1, ListedIs, CountBound

LEMMA ListLemma == IInv => ListIsFriends
<1> SUFFICES ASSUME IInv, NEW u \in Uin \ spoiled
             PROVE  Listed(u) = SubSeq(accepted[u], 1, Len(accepted[u]) -
                        (Cardinality({i \in DOMAIN counters : counters[i] = u})
                         + (IF accepting # NULL /\ u \in ToSet(accepting) THEN 1 ELSE 0)))
  BY DEF ListIsFriends
<1> DEFINE n == Len(accepted[u])
           k == contact_count[u]
           waiting == Cardinality({i \in DOMAIN counters : counters[i] = u})
           half == IF accepting # NULL /\ u \in ToSet(accepting) THEN 1 ELSE 0
<1>1. TypeOK /\ CountInv(u) /\ TableInv(u)
  BY DEF IInv, RowsInv
<1>2. waiting = Pending(u)
  BY <1>1, PendingIs
<1>3. half = Half(u)
  <2>1. CASE accepting = NULL
    BY <2>1 DEF Half
  <2>2. CASE accepting # NULL
    <3>1. accepting \in Uin \X Uin
      BY <1>1, <2>2 DEF TypeOK
    <3>2. DOMAIN accepting = {1, 2}
      BY <3>1
    <3>3. ToSet(accepting) = {accepting[1], accepting[2]}
      BY <3>2 DEF ToSet
    <3>4. QED BY <2>2, <3>3 DEF Half
  <2>3. QED BY <2>1, <2>2
<1>4. k + Pending(u) + Half(u) = n /\ Pending(u) \in {0, 1} /\ Half(u) \in {0, 1}
  BY <1>1, HalfValue DEF CountInv
<1>5. n \in Nat /\ k \in Nat
  BY <1>1, CountBound
<1> HIDE DEF n, k, waiting, half
<1>6. n - (waiting + half) = k
  BY <1>2, <1>3, <1>4, <1>5
<1>7. Listed(u) = [i \in 1 .. k |-> accepted[u][i]]
  BY FriendsListed DEF ListsInv, k
<1>8. SubSeq(accepted[u], 1, k) = [i \in 1 .. k |-> accepted[u][i]]
  <2>1. accepted[u] \in Seq(Uin) /\ k <= Len(accepted[u])
    BY <1>1, FriendsListed DEF TypeOK, ListsInv, k
  <2> HIDE DEF n
  <2>2. k - 1 + 1 = k
    BY <1>5
  <2>3. QED BY <1>5, <2>1
<1>9. QED BY <1>6, <1>7, <1>8 DEF n, k, waiting, half

LEMMA OnceLemma == IInv => EachOnce
<1> SUFFICES ASSUME IInv, NEW u \in Uin \ spoiled,
                    NEW i \in DOMAIN Listed(u), NEW j \in DOMAIN Listed(u),
                    i # j, Listed(u)[i] = Listed(u)[j]
             PROVE  <<u, Listed(u)[i]>> \in crossed
  BY DEF EachOnce
<1> DEFINE k == contact_count[u]
           n == Len(accepted[u])
           f == accepted[u][i]
<1>1. TypeOK /\ PairsInv /\ SymmetryInv
  BY DEF IInv
<1>2. /\ Listed(u) = [m \in 1 .. k |-> accepted[u][m]]
      /\ k \in Nat /\ n \in Nat /\ k <= n
  BY FriendsListed DEF ListsInv
<1> HIDE DEF k, n
<1>3. i \in 1 .. n /\ j \in 1 .. n /\ Listed(u)[i] = f /\ accepted[u][j] = f
  <2>1. i \in 1 .. k /\ j \in 1 .. k
    BY <1>2
  <2>2. QED BY <1>2, <2>1
<1>4. accepted[u] \in Seq(Uin) /\ DOMAIN accepted[u] = 1 .. n
  BY <1>1, LenProperties DEF TypeOK, n
<1>5. f \in Uin /\ f \in ToSet(accepted[u])
  BY <1>3, <1>4, ElementOfSeq DEF ToSet, n
<1> HIDE DEF f
<1>6. u # f
  BY <1>1, <1>5 DEF SymmetryInv
<1>7. accepted[u][i] = f
  BY DEF f
<1>8. <<u, f>> \in crossed
  <2>1. SUFFICES ASSUME <<u, f>> \notin crossed PROVE FALSE
    OBVIOUS
  <2>2. PairInv(u, f)
    BY <1>1, <1>5, <2>1 DEF PairsInv
  <2>3. \A a, b \in 1 .. n : accepted[u][a] = f /\ accepted[u][b] = f => a = b
    BY <1>6, <2>2 DEF PairInv, n
  <2>4. QED BY <1>3, <1>7, <2>3
<1>9. QED BY <1>3, <1>8

\* As long as his row is not spoiled, the list of a user is that of the friends
\* he has agreed with, up to those that are still to be counted
\* (friend_add_contact, get_friend_list).
THEOREM ListCorrect == Spec => []ListIsFriends
<1>1. QED BY InvAlways, ListLemma, PTL

\* Nobody is in such a list twice, unless requests crossed (check_friend).
THEOREM OnceCorrect == Spec => []EachOnce
<1>1. QED BY InvAlways, OnceLemma, PTL

-----------------------------------------------------------------------------
(* The promise.                                                            *)

\* The lists as the promise sees them.
LEMMA Indexes ==
    ASSUME TypeOK, NEW u \in Uin
    PROVE  /\ DOMAIN accepted[u] = 1 .. Len(accepted[u]) /\ Len(accepted[u]) \in Nat
           /\ \A i \in 1 .. Len(accepted[u]) : accepted[u][i] \in Uin
           /\ \A f : f \in ToSet(accepted[u]) <=> \E i \in 1 .. Len(accepted[u]) : accepted[u][i] = f
<1>1. accepted[u] \in Seq(Uin)
  BY DEF TypeOK
<1>2. QED BY <1>1, LenProperties, ElementOfSeq DEF ToSet

\* The socket that is kept is that of the last request, whatever has come between.
RouteInv == fdmap = origin
LEMMA RouteAlways == Spec => []RouteInv
<1>1. Init => RouteInv
  BY DEF Init, RouteInv
<1>2. ASSUME RouteInv, [Next]_vars PROVE RouteInv'
  <2>1. ASSUME NEW u, NEW f, cmd_add_contact(u, f) \/ accept(u, f) \/ refuse(u, f)
        PROVE  UNCHANGED <<fdmap, origin>>
    BY <2>1 DEF cmd_add_contact, accept, refuse
  <2>2. ASSUME accept_other \/ user_friend_add PROVE UNCHANGED <<fdmap, origin>>
    BY <2>2 DEF accept_other, user_friend_add
  <2>3. ASSUME NEW u, cmd_contact_list(u) \/ rep_multi_status \/ UNCHANGED vars
        PROVE  UNCHANGED <<fdmap, origin>>
    BY <2>3 DEF cmd_contact_list, rep_multi_status, vars
  <2>4. ASSUME NEW u, NEW con, cmd_contact_info_multi(u, con) PROVE RouteInv'
    BY <1>2, <2>4 DEF RouteInv, cmd_contact_info_multi
  <2>5. UNCHANGED <<fdmap, origin>> \/ \E u, con : cmd_contact_info_multi(u, con)
    BY <1>2, <2>1, <2>2, <2>3 DEF Next, ListStep, DetailStep
  <2>6. QED BY <1>2, <2>4, <2>5 DEF RouteInv
<1>3. RouteInv /\ [Next]_vars => RouteInv'
  BY <1>2
<1>4. QED BY <1>1, <1>3, PTL DEF Spec

\* A step that spoils nothing and crosses nothing.
LEMMA PromiseStep ==
    ASSUME IInv, ListsInv, ListsInv', IInv', RouteInv, [Next]_vars,
           spoiled' = {}, crossed' = {}
    PROVE  Lists!Next \/ UNCHANGED Lists!vars
<1> USE DEF Lists!NoReply, NoReply
<1> DEFINE invited == {p \in Uin \X Uin : requests[p] > 0}
           agreed == {p \in Uin \X Uin : p[2] \in ToSet(accepted[p[1]])}
           list == [u \in Uin |-> Listed(u)]
<1>1. TypeOK /\ PairsInv /\ SymmetryInv /\ HalfInv /\ spoiled = {}
  BY SpoiledStays DEF IInv
<1>2. crossed = {}
  BY DEF Next, ListStep, DetailStep, cmd_add_contact, accept, refuse, accept_other,
         user_friend_add, cmd_contact_list, cmd_contact_info_multi, rep_multi_status,
         vars, history
<1>3. \A u \in Uin :
        /\ Listed(u) = [i \in 1 .. contact_count[u] |-> accepted[u][i]]
        /\ contact_count[u] \in Nat /\ contact_count[u] <= Len(accepted[u])
        /\ Listed(u)' = [i \in 1 .. contact_count'[u] |-> accepted'[u][i]]
        /\ contact_count'[u] <= Len(accepted'[u])
  BY <1>1 DEF ListsInv
\* The lists do not change but by the counts.
<1>4. ASSUME \A u \in Uin : \A i \in 1 .. Len(accepted[u]) : accepted'[u][i] = accepted[u][i],
             contact_count' = contact_count
      PROVE  list' = list
  <2>1. \A u \in Uin : Len(accepted[u]) \in Nat
    BY <1>1, Indexes
  <2>2. \A u \in Uin : \A i \in 1 .. contact_count[u] : i \in 1 .. Len(accepted[u])
    BY <1>3, <2>1
  <2>3. \A u \in Uin : Listed(u)' = Listed(u)
    BY <1>3, <1>4, <2>2
  <2>4. QED BY <2>3
<1>5. ASSUME NEW u \in Uin, NEW f \in Uin, cmd_add_contact(u, f) PROVE Lists!Next
  <2>1. UNCHANGED <<agreed, list, origin, infos>>
    BY <1>4, <1>5 DEF cmd_add_contact, tables
  <2>2. Lists!InList(f, u) <=> f \in ToSet(Listed(u))
    BY DEF Lists!InList, ToSet
  <2>3. Junk \notin ToSet(Listed(u))
    <3> SUFFICES ASSUME NEW i \in 1 .. contact_count[u] PROVE accepted[u][i] # Junk
      BY <1>3 DEF ToSet
    <3>1. i \in 1 .. Len(accepted[u])
      BY <1>1, <1>3, Indexes
    <3>2. accepted[u][i] \in Nat
      BY <1>1, <3>1, Indexes, UinAssumption
    <3>3. QED BY <3>2 DEF Junk
  <2>4. PICK result \in check_friend(u, f) :
          IF result = "ok"
          THEN /\ requests' = [requests EXCEPT ![<<u, f>>] = @ + 1]
               /\ reply' = [cmd |-> "SRV_ADD_CONTACT_WAIT", uin |-> u]
          ELSE reply' = [cmd |-> "SRV_ERROR", uin |-> f] /\ requests' = requests
    BY <1>5 DEF cmd_add_contact
  <2>5. result = "ok" <=> ~(f \notin Registered \/ Lists!InList(f, u))
    BY <2>2, <2>3, <2>4 DEF check_friend
  <2>6. CASE result = "ok"
    <3>1. invited' = invited \cup {<<u, f>>}
      <4>1. requests \in [Uin \X Uin -> Nat]
        BY <1>1 DEF TypeOK
      <4>2. \A p \in Uin \X Uin : requests'[p] = IF p = <<u, f>> THEN requests[p] + 1 ELSE requests[p]
        BY <2>4, <2>6, <4>1
      <4>3. requests'[<<u, f>>] > 0
        BY <4>1, <4>2
      <4>4. QED BY <4>2, <4>3
    <3> HIDE DEF invited, agreed, list
    <3>2. Lists!Ask(u, f)
      BY <2>1, <2>4, <2>5, <2>6, <3>1 DEF Lists!Ask, invited, agreed, list
    <3>3. QED BY <3>2 DEF Lists!Next
  <2>7. CASE result # "ok"
    <3>1. invited' = invited
      BY <2>4, <2>7
    <3> HIDE DEF invited, agreed, list
    <3>2. Lists!Ask(u, f)
      BY <2>1, <2>4, <2>5, <2>7, <3>1 DEF Lists!Ask, invited, agreed, list
    <3>3. QED BY <3>2 DEF Lists!Next
  <2>8. QED BY <2>6, <2>7
<1>6. ASSUME NEW u \in Uin, NEW f \in Uin, Answered(u, f)
      PROVE  <<u, f>> \in invited /\ invited' = invited \ {<<u, f>>}
  <2>1. <<u, f>> \in invited
    BY <1>6 DEF Answered
  <2>2. \A p \in Uin \X Uin : requests'[p] = IF p = <<u, f>> THEN requests[p] - 1 ELSE requests[p]
    BY <1>1, <1>6, AnsweredOnce
  <2>3. requests'[<<u, f>>] = 0
    BY <1>1, <1>2, <1>6, AnsweredOnce
  <2>4. invited' = invited \ {<<u, f>>}
    BY <2>2, <2>3
  <2>5. QED BY <2>1, <2>4
<1>7. ASSUME NEW u \in Uin, NEW f \in Uin, accept(u, f) PROVE Lists!Next
  <2>1. <<u, f>> \in invited /\ invited' = invited \ {<<u, f>>}
    BY <1>6, <1>7 DEF accept
  <2>2. agreed' = agreed \cup {<<u, f>>, <<f, u>>}
    <3>1. \A w \in Uin : w \notin {u, f} => accepted'[w] = accepted[w]
      BY <1>1, <1>7, AcceptedNow
    <3>2. ToSet(accepted'[u]) = ToSet(accepted[u]) \cup {f}
          /\ ToSet(accepted'[f]) = ToSet(accepted[f]) \cup {u}
      BY <1>1, <1>7, AcceptedNow
    <3>3. \A a, b \in Uin : b \in ToSet(accepted'[a]) <=>
            b \in ToSet(accepted[a]) \/ (a = u /\ b = f) \/ (a = f /\ b = u)
      <4>1. \A w \in Uin : w \notin {u, f} => ToSet(accepted'[w]) = ToSet(accepted[w])
        BY <3>1
      <4>2. QED BY <3>2, <4>1
    <3>4. QED BY <3>3
  <2>3. list' = list
    <3>1. \A w \in Uin : \A i \in 1 .. Len(accepted[w]) : accepted'[w][i] = accepted[w][i]
      BY <1>1, <1>7, AcceptedNow
    <3>2. QED BY <1>4, <1>7, <3>1 DEF accept
  <2>4. reply' = NoReply /\ origin' = origin /\ infos' = infos
    BY <1>7 DEF accept
  <2> HIDE DEF invited, agreed, list
  <2>5. Lists!Agree(u, f)
    BY <2>1, <2>2, <2>3, <2>4 DEF Lists!Agree, Lists!Settle, invited, agreed, list
  <2>6. QED BY <2>5 DEF Lists!Next
<1>8. ASSUME NEW u \in Uin, NEW f \in Uin, refuse(u, f) PROVE Lists!Next
  <2>1. <<u, f>> \in invited /\ invited' = invited \ {<<u, f>>}
    BY <1>6, <1>8 DEF refuse
  <2>2. UNCHANGED <<agreed, list, origin, infos>> /\ reply' = NoReply
    BY <1>4, <1>8 DEF refuse, tables, history
  <2> HIDE DEF invited, agreed, list
  <2>3. Lists!Refuse(u, f)
    BY <2>1, <2>2 DEF Lists!Refuse, Lists!Settle, invited, agreed, list
  <2>4. QED BY <2>3 DEF Lists!Next
<1>9. ASSUME accept_other PROVE UNCHANGED Lists!vars
  <2>1. UNCHANGED <<invited, agreed, origin, infos>>
    BY <1>9 DEF accept_other
  <2>2. list' = list
    BY <1>4, <1>9 DEF accept_other
  <2>3. reply' = reply
    BY <1>1, <1>9 DEF accept_other, HalfInv
  <2>4. QED BY <2>1, <2>2, <2>3 DEF Lists!vars
<1>10. ASSUME user_friend_add PROVE Lists!Next
  <2>1. PICK u \in Uin : u = Head(counters)
    BY <1>10, CountStep
  <2>2. /\ contact_count'[u] = contact_count[u] + 1
        /\ \A w \in Uin : w # u => contact_count'[w] = contact_count[w]
    BY <1>10, <2>1, CountStep
  <2>3. UNCHANGED <<accepted, invited, agreed, origin, infos>> /\ reply' = NoReply
    BY <1>10 DEF user_friend_add
  <2> DEFINE k == contact_count[u]
             v == accepted[u][k + 1]
  <2>4. k \in Nat /\ k + 1 \in 1 .. Len(accepted[u])
    <3>1. k \in Nat /\ k + 1 <= Len(accepted[u])
      BY <1>3, <2>2, <2>3
    <3>2. Len(accepted[u]) \in Nat
      BY <1>1, Indexes
    <3> HIDE DEF k
    <3>3. QED BY <3>1, <3>2
  <2>5. v \in Uin /\ v \in ToSet(accepted[u])
    BY <1>1, <2>4, Indexes
  <2>6. ~Lists!InList(v, u)
    <3>1. u # v
      BY <1>1, <2>5 DEF SymmetryInv
    <3>2. \A i, j \in 1 .. Len(accepted[u]) : accepted[u][i] = v /\ accepted[u][j] = v => i = j
      <4>1. PairInv(u, v)
        BY <1>1, <1>2, <2>5 DEF PairsInv
      <4> HIDE DEF v
      <4>2. QED BY <3>1, <4>1 DEF PairInv
    <3>3. \A i \in 1 .. k : i \in 1 .. Len(accepted[u]) /\ i # k + 1
      <4>1. Len(accepted[u]) \in Nat
        BY <1>1, Indexes
      <4> HIDE DEF k
      <4>2. QED BY <2>4, <4>1
    <3>4. \A i \in 1 .. k : accepted[u][i] # v
      BY <2>4, <3>2, <3>3
    <3>5. Listed(u) = [i \in 1 .. k |-> accepted[u][i]]
      BY <1>3
    <3> HIDE DEF v, k
    <3>6. QED BY <3>4, <3>5 DEF Lists!InList
  <2>7. list' = [list EXCEPT ![u] = Append(@, v)]
    <3>1. ASSUME NEW w \in Uin, w # u PROVE Listed(w)' = Listed(w)
      <4>1. contact_count'[w] = contact_count[w] /\ accepted' = accepted
        BY <2>2, <2>3, <3>1
      <4>2. Listed(w) = [i \in 1 .. contact_count[w] |-> accepted[w][i]]
            /\ Listed(w)' = [i \in 1 .. contact_count'[w] |-> accepted'[w][i]]
        BY <1>3
      <4>3. QED BY <4>1, <4>2
    <3>2. Listed(u)' = [i \in 1 .. k + 1 |-> accepted[u][i]]
      BY <1>3, <2>2, <2>3
    <3>3. Listed(u) = [i \in 1 .. k |-> accepted[u][i]]
      BY <1>3
    <3>4. \A i \in 1 .. k + 1 : accepted[u][i] \in Uin
      <4>1. Len(accepted[u]) \in Nat
        BY <1>1, Indexes
      <4>2. \A i \in 1 .. k + 1 : i \in 1 .. Len(accepted[u])
        <5> HIDE DEF k
        <5>1. QED BY <2>4, <4>1
      <4>3. QED BY <1>1, <4>2, Indexes
    <3>5. [i \in 1 .. k + 1 |-> accepted[u][i]] = Append([i \in 1 .. k |-> accepted[u][i]], v)
      <4> DEFINE a == accepted[u]
      <4>1. v = a[k + 1] /\ \A i \in 1 .. k + 1 : a[i] \in Uin
        BY <3>4
      <4> HIDE DEF a, k, v
      <4>2. [i \in 1 .. k |-> a[i]] \in Seq(Uin) /\ Len([i \in 1 .. k |-> a[i]]) = k
        BY <2>4, <4>1
      <4>3. QED BY <2>4, <4>1, <4>2 DEF a
    <3> HIDE DEF k, v
    <3>6. Listed(u)' = Append(Listed(u), v)
      BY <3>2, <3>3, <3>5
    <3>7. QED BY <3>1, <3>6
  <2> HIDE DEF k, v
  <2>8. Lists!Learn(u, v)
    <3>1. <<u, v>> \in agreed
      BY <2>5
    <3>2. invited' = invited /\ agreed' = agreed
      BY <2>3
    <3> HIDE DEF invited, agreed, list
    <3>3. QED BY <2>3, <2>6, <2>7, <3>1, <3>2 DEF Lists!Learn, invited, agreed, list
  <2>9. QED BY <2>5, <2>8 DEF Lists!Next
<1>11. ASSUME NEW u \in Uin, cmd_contact_list(u) PROVE Lists!Next
  <2>1. UNCHANGED <<invited, agreed, list, origin, infos>>
        /\ reply' = [cmd |-> "SRV_CONTACT_LIST", uin |-> u, list |-> list[u]]
    BY <1>4, <1>11 DEF cmd_contact_list, tables, history
  <2>2. Lists!SendList(u)
    BY <2>1 DEF Lists!SendList
  <2>3. QED BY <2>2 DEF Lists!Next
<1>12. ASSUME NEW u \in Uin, NEW con \in Con, cmd_contact_info_multi(u, con) PROVE Lists!Next
  <2>1. UNCHANGED <<invited, agreed, list>> /\ origin' = [origin EXCEPT ![u] = con]
        /\ reply' = NoReply /\ infos' = Append(infos, u)
    BY <1>4, <1>12 DEF cmd_contact_info_multi, tables, history
  <2>2. Lists!AskDetails(u, con)
    BY <2>1 DEF Lists!AskDetails
  <2>3. QED BY <2>2 DEF Lists!Next
<1>13. ASSUME rep_multi_status PROVE Lists!Next
  <2>1. UNCHANGED <<invited, agreed, list, origin>>
        /\ infos # <<>> /\ infos' = Tail(infos)
        /\ reply' = [cmd |-> "SRV_CONTACT_INFO_MULTI", uin |-> Head(infos),
                     to |-> origin[Head(infos)]]
    BY <1>4, <1>13 DEF rep_multi_status, tables, history, RouteInv
  <2>2. Lists!SendDetails
    BY <2>1 DEF Lists!SendDetails
  <2>3. QED BY <2>2 DEF Lists!Next
<1>14. CASE UNCHANGED vars
  <2>1. UNCHANGED <<invited, agreed, list, origin, infos, reply>>
    BY <1>4, <1>14 DEF vars, tables, history
  <2>2. QED BY <2>1 DEF Lists!vars
<1>15. \A u \in Asker : u \in Uin
  BY AskingAssumption, UinAssumption
<1>16. QED
  BY <1>5, <1>7, <1>8, <1>9, <1>10, <1>11, <1>12, <1>13, <1>14, <1>15, Asked
  DEF Next, ListStep, DetailStep

LEMMA PromiseInit == Init => Lists!Init
<1> SUFFICES ASSUME Init PROVE Lists!Init
  OBVIOUS
<1>1. {p \in Uin \X Uin : requests[p] > 0} = {}
  BY DEF Init
<1>2. {p \in Uin \X Uin : p[2] \in ToSet(accepted[p[1]])} = {}
  <2>1. ToSet(<<>>) = {}
    BY DEF ToSet
  <2>2. QED BY <2>1 DEF Init
<1>3. \A u \in Uin : Listed(u) = <<>>
  BY DEF Init, Listed, get_friend_list
<1>4. QED BY <1>1, <1>2, <1>3 DEF Init, Lists!Init, NoReply, Lists!NoReply

\* As long as no row is spoiled and no requests cross, each step of the server is
\* one that the users were promised: nobody is in the list of another who has not
\* agreed, and whoever agrees gets there once.
THEOREM PromiseCorrect == Spec => FriendshipsSpec
<1> DEFINE Fair == spoiled' = {} /\ crossed' = {} => Lists!Next
<1>1. IInv /\ ListsInv /\ RouteInv /\ ListsInv' /\ IInv' /\ [Next]_vars
        => [Fair]_(Lists!vars)
  BY PromiseStep
<1>2. Spec => [](IInv /\ ListsInv /\ RouteInv)
  BY InvAlways, RouteAlways, FriendsListed, PTL
<1> HIDE DEF Fair
<1>3. Spec => Lists!Init /\ [][Fair]_(Lists!vars)
  BY <1>1, <1>2, PromiseInit, PTL DEF Spec
<1>4. QED BY <1>3 DEF FriendshipsSpec, Fair
=============================================================================
