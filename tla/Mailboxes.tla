------------------------------ MODULE Mailboxes ------------------------------
(***************************************************************************)
(* What the message server promises: a message that was accepted is kept   *)
(* until it is sent to the user it is for, is sent to nobody else and is   *)
(* sent once.  Of a server that dies nothing more is promised than that    *)
(* what it has sent is right.  A message that waits may be lost if it is   *)
(* too long, or if there is no room beside another of the same sender.     *)
(***************************************************************************)
EXTENDS Naturals, SequencesExt

CONSTANTS
    Uin,        \* the users
    QueryRoom   \* messages that are longer may be lost, and kill the server

VARIABLES
    box,        \* for each user: the messages kept for him
    sent,       \* for each user: the messages sent to him, in order
    running     \* the server has not died

vars == <<box, sent, running>>

Init ==
    /\ box = [u \in Uin |-> {}]
    /\ sent = [u \in Uin |-> <<>>]
    /\ running = TRUE

\* A message that is new to the server.
Accept ==
    /\ running
    /\ \E u \in Uin : \E m \in box'[u] \ (box[u] \cup ToSet(sent[u])) :
        box' = [box EXCEPT ![u] = @ \cup {m}]
    /\ UNCHANGED <<sent, running>>

\* The next messages to u, each of which is kept for him.
Sends(u, next) ==
    /\ IsInjective(next)
    /\ ToSet(next) \subseteq box[u]
    /\ sent' = [sent EXCEPT ![u] = @ \o next]

Send ==
    /\ running
    /\ \E u \in Uin :
        LET next == SubSeq(sent'[u], Len(sent[u]) + 1, Len(sent'[u]))
        IN  /\ Sends(u, next)
            /\ box' = [box EXCEPT ![u] = @ \ ToSet(next)]
    /\ UNCHANGED running

\* There is no room.
Lose ==
    /\ running
    /\ \E u \in Uin :
        /\ \A m \in box[u] \ box'[u] :
            m.len > QueryRoom \/ \E x \in box'[u] : x.from = m.from
        /\ box'[u] \subseteq box[u]
        /\ box' = [box EXCEPT ![u] = box'[u]]
    /\ UNCHANGED <<sent, running>>

\* The server dies of what it has for a user, and may have sent some of it.
Die ==
    /\ running
    /\ \E u \in Uin :
        /\ box[u] # {}
        /\ Sends(u, SubSeq(sent'[u], Len(sent[u]) + 1, Len(sent'[u])))
    /\ \A u \in Uin : box'[u] \subseteq box[u]
    /\ running' = FALSE

Next == Accept \/ Send \/ Lose \/ Die

Spec == Init /\ [][Next]_vars
=============================================================================
