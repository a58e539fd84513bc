---------------------------- MODULE StatusBoard ----------------------------
(***************************************************************************)
(* What the status server promises: a board that says, for every user,     *)
(* whether he is online and at which connection server, kept across        *)
(* restarts, with room for Capacity users.  A login on a full board kills  *)
(* the server; a question about several users that names one the board has *)
(* no place for is answered with anything for him, or kills the server.    *)
(***************************************************************************)
EXTENDS Naturals, FiniteSets

CONSTANTS
    Uin,        \* the user numbers that requests name
    MAX_USER,   \* users from here on never go online
    Con,        \* the addresses of the connection servers
    Capacity,   \* most users that can be online
    NoCon       \* what the board shows for a user that is not online

VARIABLES
    proc,       \* the server is running, was killed, or died of a fault
    board,      \* what it knows of each user
    reply       \* the last packet it sent

vars == <<proc, board, reply>>

Online == {u \in Uin : board[u] # NoCon}

TypeOK ==
    /\ proc \in {"running", "killed", "segv"}
    /\ board \in [Uin -> Con \cup {NoCon}]

NoReply == [cmd |-> "none"]

Init ==
    /\ proc = "running"
    /\ board = [u \in Uin |-> NoCon]
    /\ reply = NoReply

\* A user goes online.
GoOnline(u, con) ==
    /\ proc = "running"
    /\ u < MAX_USER
    /\ u \notin Online
    /\ Cardinality(Online) < Capacity
    /\ board' = [board EXCEPT ![u] = con]
    /\ reply' = [cmd |-> "REP_STATUS_CHANGED", uin |-> u]
    /\ UNCHANGED proc

\* The board is full: the request kills the server.
Overflow(u) ==
    /\ proc = "running"
    /\ u < MAX_USER
    /\ u \notin Online
    /\ Cardinality(Online) = Capacity
    /\ proc' = "segv"
    /\ UNCHANGED <<board, reply>>

\* A user goes offline.
GoOffline(u) ==
    /\ proc = "running"
    /\ u \in Online
    /\ board' = [board EXCEPT ![u] = NoCon]
    /\ reply' = [cmd |-> "REP_STATUS_CHANGED", uin |-> u]
    /\ UNCHANGED proc

\* Somebody asks about one user.
Ask(u) ==
    /\ proc = "running"
    /\ u < MAX_USER
    /\ reply' = [cmd |-> "REP_STATUS", uin |-> u,
                 stat |-> u \in Online, con |-> board[u]]
    /\ UNCHANGED <<proc, board>>

\* Somebody asks about several users.  For those the board has no place for the
\* answer may be anything.
AskMany(us) ==
    /\ proc = "running"
    /\ \E stat \in [us -> BOOLEAN] :
        /\ \A u \in us : u <= MAX_USER => (stat[u] <=> u \in Online)
        /\ reply' = [cmd |-> "REP_MULTI_STATUS", stat |-> stat]
    /\ UNCHANGED <<proc, board>>

\* Such a question may also kill the server.
AskBeyond(us) ==
    /\ proc = "running"
    /\ \E u \in us : u > MAX_USER
    /\ proc' = "segv"
    /\ UNCHANGED <<board, reply>>

Stop ==
    /\ proc = "running"
    /\ proc' = "killed"
    /\ UNCHANGED <<board, reply>>

Restart ==
    /\ proc # "running"
    /\ proc' = "running"
    /\ UNCHANGED <<board, reply>>

Next ==
    \/ \E u \in Uin : \/ \E con \in Con : GoOnline(u, con)
                      \/ Overflow(u) \/ GoOffline(u) \/ Ask(u)
    \/ \E us \in SUBSET Uin : AskMany(us) \/ AskBeyond(us)
    \/ Stop
    \/ Restart

Spec == Init /\ [][Next]_vars
=============================================================================
