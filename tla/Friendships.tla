----------------------------- MODULE Friendships -----------------------------
(***************************************************************************)
(* What the contact server promises: nobody is in the list of another who  *)
(* has not agreed, whoever agrees is added to both lists, at the end and   *)
(* once, though not at once, and the lists that are sent are the lists.    *)
(* Each request for details is answered once, in order, wherever the user  *)
(* has last asked.                                                         *)
(***************************************************************************)
EXTENDS Naturals, Sequences, FiniteSets

CONSTANTS
    Uin,        \* the users
    Registered, \* those who have an account
    Con,        \* the connection servers
    NULL

VARIABLES
    invited,    \* the pairs of users of whom the first waits for the second to agree
    agreed,     \* the pairs of users of whom each is to be in the list of the other
    list,       \* the list of each user
    where,      \* the connection server at which each has last asked for details
    awaited,    \* those who wait for details, in the order in which they asked
    reply       \* the packet that the last step sent

vars == <<invited, agreed, list, where, awaited, reply>>

NoReply == [cmd |-> "none"]

InList(v, u) == \E i \in DOMAIN list[u] : list[u][i] = v

Init ==
    /\ invited = {}
    /\ agreed = {}
    /\ list = [u \in Uin |-> <<>>]
    /\ where = [u \in Uin |-> NULL]
    /\ awaited = <<>>
    /\ reply = NoReply

\* A user asks another to be his friend.
Ask(u, v) ==
    /\ IF v \notin Registered \/ InList(v, u)
       THEN /\ reply' = [cmd |-> "SRV_ERROR", uin |-> v]
            /\ UNCHANGED invited
       ELSE /\ reply' = [cmd |-> "SRV_ADD_CONTACT_WAIT", uin |-> u]
            /\ invited' = invited \cup {<<u, v>>}
    /\ UNCHANGED <<agreed, list, where, awaited>>

\* The other agrees or refuses; he may have been asked more than once.
Settle(u, v) ==
    /\ <<u, v>> \in invited
    /\ invited' \in {invited, invited \ {<<u, v>>}}
    /\ reply' = NoReply
    /\ UNCHANGED <<list, where, awaited>>

Agree(u, v) ==
    /\ Settle(u, v)
    /\ agreed' = agreed \cup {<<u, v>>, <<v, u>>}

Refuse(u, v) == Settle(u, v) /\ UNCHANGED agreed

\* The list of one of two who have agreed gets the other.
Learn(u, v) ==
    /\ <<u, v>> \in agreed
    /\ ~InList(v, u)
    /\ list' = [list EXCEPT ![u] = Append(@, v)]
    /\ reply' = NoReply
    /\ UNCHANGED <<invited, agreed, where, awaited>>

SendList(u) ==
    /\ reply' = [cmd |-> "SRV_CONTACT_LIST", uin |-> u, list |-> list[u]]
    /\ UNCHANGED <<invited, agreed, list, where, awaited>>

AskDetails(u, c) ==
    /\ where' = [where EXCEPT ![u] = c]
    /\ awaited' = Append(awaited, u)
    /\ reply' = NoReply
    /\ UNCHANGED <<invited, agreed, list>>

\* To where he has asked last, even if this is the answer to an earlier request.
SendDetails ==
    /\ awaited # <<>>
    /\ LET u == Head(awaited)
       IN  reply' = [cmd |-> "SRV_CONTACT_INFO_MULTI", uin |-> u, to |-> where[u]]
    /\ awaited' = Tail(awaited)
    /\ UNCHANGED <<invited, agreed, list, where>>

Next ==
    \/ \E u \in Uin :
        \/ \E v \in Uin : Ask(u, v) \/ Agree(u, v) \/ Refuse(u, v) \/ Learn(u, v)
        \/ SendList(u)
        \/ \E c \in Con : AskDetails(u, c)
    \/ SendDetails

Spec == Init /\ [][Next]_vars
=============================================================================
