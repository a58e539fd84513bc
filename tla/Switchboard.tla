----------------------------- MODULE Switchboard -----------------------------
(***************************************************************************)
(* What the connection server promises: a switchboard with one line for    *)
(* each user.  Connections, sockets, the blocks of memory they live in and *)
(* the maps that lead to them are not to be seen: a user is signed in or   *)
(* not, what the other servers have for him goes to his line and to no     *)
(* other, and hanging up leaves nothing behind on the line.                *)
(***************************************************************************)
EXTENDS Sequences, Naturals, FiniteSets

CONSTANTS
    Uin,        \* the users
    Nobody,     \* who a connection belongs to before it has signed in
    Request,    \* what a signed-in user may ask for
    Server,     \* the servers the requests go to
    Dest        \* the server of each request

VARIABLES
    line,       \* for each user: hung up, or how far he has signed in
    inbox,      \* for each user: the packets waiting to be sent to him
    outbox      \* for each server: the packets waiting to be sent to it

vars == <<line, inbox, outbox>>

Packet(cmd, u) == [cmd |-> cmd, uin |-> u]
Offline(u) == Packet("OFFLINE", u)

Init ==
    /\ line = [u \in Uin |-> "none"]
    /\ inbox = [u \in Uin |-> <<>>]
    /\ outbox = [s \in Server |-> <<>>]

Forward(s, p) == outbox' = [outbox EXCEPT ![s] = Append(@, p)]

\* The user asks to be signed in; the user server will decide.
SignIn(u) ==
    /\ line[u] = "none"
    /\ line' = [line EXCEPT ![u] = "incomplete"]
    /\ Forward("user", Packet("CMD_LOGIN", u))
    /\ UNCHANGED inbox

\* Only a signed-in user is served.
Ask(u, cmd) ==
    /\ line[u] = "ok"
    /\ Forward(Dest[cmd], Packet(cmd, u))
    /\ UNCHANGED <<line, inbox>>

\* The user logs out, or his connection breaks: if he was signed in, the
\* status server hears of it, once.
HangUp(u) ==
    /\ line[u] # "none"
    /\ line' = [line EXCEPT ![u] = "none"]
    /\ inbox' = [inbox EXCEPT ![u] = <<>>]
    /\ IF line[u] = "ok" THEN Forward("status", Offline(u)) ELSE UNCHANGED outbox

\* The lines of some users are cut for silence, and with them connections of
\* nobody: the status server hears of each user once, signed in or not.
Cut ==
    LET old == outbox["status"]
        new == SubSeq(outbox'["status"], Len(old) + 1, Len(outbox'["status"]))
        cut == {u \in Uin : \E i \in DOMAIN new : new[i] = Offline(u)}
    IN  /\ outbox' = [outbox EXCEPT !["status"] = old \o new]
        /\ \A i \in DOMAIN new :
            /\ new[i] \in {Offline(u) : u \in Uin \cup {Nobody}}
            /\ \A j \in DOMAIN new : i # j /\ new[i] = new[j] => new[i] = Offline(Nobody)
        /\ \A u \in cut : line[u] # "none"
        /\ line' = [u \in Uin |-> IF u \in cut THEN "none" ELSE line[u]]
        /\ inbox' = [u \in Uin |-> IF u \in cut THEN <<>> ELSE inbox[u]]

\* A server has something for a user: a verdict on his login, or something
\* that only a signed-in user is to see.
Verdict(u, cmd, state) ==
    /\ line[u] # "none"
    /\ line' = [line EXCEPT ![u] = state]
    /\ inbox' = [inbox EXCEPT ![u] = Append(@, Packet(cmd, u))]
    /\ UNCHANGED outbox

Answer(u) ==
    /\ line[u] = "ok"
    /\ inbox' = [inbox EXCEPT ![u] = Append(@, Packet("SRV_OTHER", u))]
    /\ UNCHANGED <<line, outbox>>

\* Packets leave in the order in which they came.
Suffix(q, r) == \E n \in 0 .. Len(r) : q = SubSeq(r, n + 1, Len(r))

Send ==
    /\ \A u \in Uin : Suffix(inbox'[u], inbox[u])
    /\ \A s \in Server : Suffix(outbox'[s], outbox[s])
    /\ inbox' = [u \in Uin |-> inbox'[u]]
    /\ outbox' = [s \in Server |-> outbox'[s]]
    /\ UNCHANGED line

Next ==
    \/ \E u \in Uin :
        \/ SignIn(u) \/ HangUp(u) \/ Answer(u)
        \/ \E cmd \in Request : Ask(u, cmd)
        \/ Verdict(u, "SRV_LOGIN_OK", "ok")
        \/ Verdict(u, "SRV_ERROR", "error")
    \/ Cut
    \/ Send

Spec == Init /\ [][Next]_vars
=============================================================================
