------------------------------- MODULE Lease -------------------------------
(***************************************************************************)
(* What the connection timer promises, without a wheel: every open         *)
(* connection holds a lease of Timeout seconds that starts when it is      *)
(* accepted and starts again when a keep-alive packet of its client is     *)
(* honoured.  Seconds are counted by a sweep, which may come late: lag is  *)
(* the number of seconds no sweep has counted yet.                         *)
(*                                                                         *)
(* Grace is the largest lag with which a sweep still honours the           *)
(* keep-alive packets it finds; a later sweep closes their senders.  The   *)
(* intended timer has Grace = MaxLag.                                      *)
(***************************************************************************)
EXTENDS Naturals

CONSTANTS
    Client,     \* the clients; each has at most one connection here
    Timeout,    \* CLIENT_TIMEOUT, in seconds
    MaxLag,     \* the longest a sweep may be late
    Grace       \* the longest a sweep may be late and still renew leases

VARIABLES
    open,       \* the clients that have a connection
    age,        \* seconds counted since the lease of an open connection began
    known,      \* those whose client has logged in
    heard,      \* the clients a keep-alive packet came from since the last sweep
    lag         \* seconds passed since the last sweep

vars == <<open, age, known, heard, lag>>

TypeOK ==
    /\ open \in SUBSET Client
    /\ age \in [Client -> 0 .. (Timeout - 1)]
    /\ known \in SUBSET Client
    /\ heard \in SUBSET Client
    /\ lag \in 0 .. MaxLag

Init ==
    /\ open = {}
    /\ age = [c \in Client |-> 0]
    /\ known = {}
    /\ heard = {}
    /\ lag = 0

Open(c) ==
    /\ c \notin open
    /\ open' = open \cup {c}
    /\ UNCHANGED <<age, known, heard, lag>>

LogIn(c) ==
    /\ c \in open \ known
    /\ known' = known \cup {c}
    /\ UNCHANGED <<open, age, heard, lag>>

Hear(c) ==
    /\ c \in known
    /\ heard' = heard \cup {c}
    /\ UNCHANGED <<open, age, known, lag>>

HangUp(c) ==
    /\ c \in open
    /\ open' = open \ {c}
    /\ known' = known \ {c}
    /\ age' = [age EXCEPT ![c] = 0]
    /\ UNCHANGED <<heard, lag>>

Second ==
    /\ lag < MaxLag
    /\ lag' = lag + 1
    /\ UNCHANGED <<open, age, known, heard>>

\* The connections heard of, and the leases that go on, when a sweep counts
\* lag seconds.
Alive   == heard \cap known
Renewed == IF lag <= Grace THEN Alive ELSE {}
Running == {c \in open \ Alive : age[c] + lag < Timeout}

Sweep ==
    /\ lag > 0
    /\ open' = Renewed \cup Running
    /\ known' = known \cap open'
    /\ age' = [c \in Client |-> IF c \in Running THEN age[c] + lag ELSE 0]
    /\ heard' = {}
    /\ lag' = 0

Next ==
    \/ \E c \in Client : Open(c) \/ LogIn(c) \/ Hear(c) \/ HangUp(c)
    \/ Second
    \/ Sweep

Spec == Init /\ [][Next]_vars
=============================================================================
