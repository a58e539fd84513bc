---------------------------- MODULE StatusServer ----------------------------
(***************************************************************************)
(* The status server (server/status.c).  A table map[uin] of pointers to   *)
(* status_info entries, and the entries themselves, live in the file       *)
(* status.data, mapped into memory at an address the kernel chooses; the   *)
(* free list that links the unused entries is rebuilt at every start.      *)
(*                                                                         *)
(* The server is one thread; an action is the handling of one request      *)
(* packet, or the start or death of the process.  The free list gives out  *)
(* entries in an order on which nothing depends, so it is a set here.      *)
(***************************************************************************)
EXTENDS Naturals, FiniteSets

CONSTANTS
    Uin,        \* the user numbers that requests name
    Asked,      \* the sets of them that a CMD_MULTI_STATUS names
    MAX_USER,   \* set_status and get_status refuse user numbers from here on
    Entry,      \* the MAX_ONLINE_USER elements of cache
    Con,        \* the addresses (ip, port) of the connection servers
    NoCon,      \* the cleared address, ip 0 and port 0
    Base,       \* the addresses at which mmap may place the file
    NULL

ASSUME UinAssumption == Uin \subseteq Nat /\ MAX_USER \in Nat
ASSUME AskedAssumption == Asked \subseteq SUBSET Uin
ASSUME EntryAssumption == IsFiniteSet(Entry)
ASSUME ConAssumption == NoCon \notin Con
ASSUME BaseAssumption == Base # {}

VARIABLES
    proc,       \* the process: running, killed, dead of a fault, or (see
                \* SetOffline) running on with a free list that is no list
    base,       \* where it has mapped the file
    map,        \* map, in the file: a pointer or NULL for each user
    con,        \* con_ip and con_port of the entries, in the file
    free_list,  \* the entries on free_list_head
    reply,      \* the last packet written to a socket
    clean       \* history: no restart so far found a user shown online

vars == <<proc, base, map, con, free_list, reply, clean>>

\* A pointer is good only in a process that has the file at the same address.
Pointer == [at : Base, entry : Entry]
PointerTo(e) == [at |-> base, entry |-> e]
Valid(p) == p.at = base

ASSUME NULLAssumption == NULL \notin Pointer

Users  == {u \in Uin : u < MAX_USER}
Mapped == {u \in Uin : map[u] # NULL}
InUse  == {map[u].entry : u \in Mapped}

NoReply == [cmd |-> "none"]
Changed(u) == [cmd |-> "REP_STATUS_CHANGED", uin |-> u]
Status(u, on, c) == [cmd |-> "REP_STATUS", uin |-> u, stat |-> on, con |-> c]
MultiStatus(stat) == [cmd |-> "REP_MULTI_STATUS", stat |-> stat]

Reply ==
    {NoReply}
      \cup [cmd : {"REP_STATUS_CHANGED"}, uin : Uin]
      \cup [cmd : {"REP_STATUS"}, uin : Uin, stat : BOOLEAN,
            con : Con \cup {NoCon}]
      \cup [cmd : {"REP_MULTI_STATUS"},
            stat : UNION {[us -> BOOLEAN] : us \in SUBSET Uin}]

TypeOK ==
    /\ proc \in {"running", "killed", "segv", "corrupt"}
    /\ base \in Base
    /\ map \in [Uin -> Pointer \cup {NULL}]
    /\ con \in [Entry -> Con \cup {NoCon}]
    /\ free_list \in SUBSET Entry
    /\ reply \in Reply
    /\ clean \in BOOLEAN

\* status_list_init on a new file.
Init ==
    /\ proc = "running"
    /\ base \in Base
    /\ map = [u \in Uin |-> NULL]
    /\ con = [e \in Entry |-> NoCon]
    /\ free_list = Entry
    /\ reply = NoReply
    /\ clean = TRUE

-----------------------------------------------------------------------------
(* The process dies: what is in the file stays.                            *)
Die(cause) ==
    /\ proc' = cause
    /\ UNCHANGED <<base, map, con, free_list, reply, clean>>

Running == proc = "running"

\* Mutants: a user who is online already is not refused; the address is not
\* written to the entry.
SetOnline_Again(u, c) ==
    /\ Running
    /\ u \in Users
    /\ \E e \in free_list :
        /\ free_list' = free_list \ {e}
        /\ map' = [map EXCEPT ![u] = PointerTo(e)]
        /\ con' = [con EXCEPT ![e] = c]
    /\ reply' = Changed(u)
    /\ UNCHANGED <<proc, base, clean>>

SetOnline_NoAddress(u, c) ==
    /\ Running
    /\ u \in Users \ Mapped
    /\ \E e \in free_list :
        /\ free_list' = free_list \ {e}
        /\ map' = [map EXCEPT ![u] = PointerTo(e)]
    /\ reply' = Changed(u)
    /\ UNCHANGED <<proc, base, con, clean>>

\* CMD_STATUS_CHANGE with a stat other than 0, handled by set_status.  A user
\* number that is too big, or a user who is online already, is refused: no
\* packet is sent.
SetOnline(u, c) ==
    /\ Running
    /\ u \in Users \ Mapped
    /\ \E e \in free_list :
        /\ free_list' = free_list \ {e}
        /\ map' = [map EXCEPT ![u] = PointerTo(e)]
        /\ con' = [con EXCEPT ![e] = c]
    /\ reply' = Changed(u)
    /\ UNCHANGED <<proc, base, clean>>

\* status_list_get finds the list empty and returns NULL; set_status stores it
\* in map[uin], which was NULL, and writes through it.
SetOnlineFull(u) ==
    /\ Running
    /\ u \in Users \ Mapped
    /\ free_list = {}
    /\ Die("segv")

\* Mutant: the entry is not put back on the free list.
SetOffline_Leak(u) ==
    /\ Running
    /\ u \in Users \cap Mapped
    /\ Valid(map[u])
    /\ map' = [map EXCEPT ![u] = NULL]
    /\ con' = [con EXCEPT ![map[u].entry] = NoCon]
    /\ reply' = Changed(u)
    /\ UNCHANGED <<proc, base, free_list, clean>>

\* CMD_STATUS_CHANGE with stat 0.  list_add_tail on an entry that is already
\* linked leaves links that are no list any more; the model stops there, until
\* the process is restarted.
SetOffline(u) ==
    /\ Running
    /\ u \in Users \cap Mapped
    /\ Valid(map[u])
    /\ LET e == map[u].entry
       IN  /\ map' = [map EXCEPT ![u] = NULL]
           /\ con' = [con EXCEPT ![e] = NoCon]
           /\ free_list' = free_list \cup {e}
           /\ proc' = IF e \in free_list THEN "corrupt" ELSE proc
    /\ reply' = Changed(u)
    /\ UNCHANGED <<base, clean>>

\* Mutant: the pointer is sent, not what it points to.
ConOf_Pointer(u) == IF u \in Mapped THEN map[u] ELSE NoCon

\* The address found for a user.
ConOf(u) == IF u \in Mapped THEN con[map[u].entry] ELSE NoCon

\* CMD_GET_STATUS, handled by get_status.
GetStatus(u) ==
    /\ Running
    /\ u \in Users
    /\ u \in Mapped => Valid(map[u])
    /\ reply' = Status(u, u \in Mapped, ConOf(u))
    /\ UNCHANGED <<proc, base, map, con, free_list, clean>>

\* set_status and get_status follow a pointer of an earlier process into
\* memory that is not mapped.  (set_status has cleared map[uin] by then.)
FollowStale(u) ==
    /\ Running
    /\ u \in Users \cap Mapped
    /\ ~Valid(map[u])
    /\ map' \in {map, [map EXCEPT ![u] = NULL]}
    /\ proc' = "segv"
    /\ UNCHANGED <<base, con, free_list, reply, clean>>

\* What get_multi_status may read for a user: it has no test of MAX_USER.  The
\* file has one pointer more than users, which stays NULL; what follows it is
\* the cache, or memory that is not mapped.
Readings(u) == IF u <= MAX_USER THEN {u \in Mapped} ELSE BOOLEAN

\* CMD_MULTI_STATUS, handled by get_multi_status, which tests the pointers and
\* follows none.
GetMultiStatus(us) ==
    /\ Running
    /\ \E stat \in [us -> BOOLEAN] :
        /\ \A u \in us : stat[u] \in Readings(u)
        /\ reply' = MultiStatus(stat)
    /\ UNCHANGED <<proc, base, map, con, free_list, clean>>

\* It reads past all that is mapped.
ReadOutside(us) ==
    /\ Running
    /\ \E u \in us : u > MAX_USER
    /\ Die("segv")

\* The process is killed between two packets.
Kill ==
    /\ Running
    /\ Die("killed")

\* status_list_init on an existing file: map and cache are as they were left,
\* wherever the file is mapped now, and every entry goes on the free list.
Restart(b) ==
    /\ proc # "running"
    /\ proc' = "running"
    /\ base' = b
    /\ free_list' = Entry
    /\ clean' = (clean /\ Mapped = {})
    /\ UNCHANGED <<map, con, reply>>

Next ==
    \/ \E u \in Uin :
        \/ \E c \in Con : SetOnline(u, c)
        \/ SetOnlineFull(u) \/ SetOffline(u) \/ GetStatus(u) \/ FollowStale(u)
    \/ \E us \in Asked : GetMultiStatus(us) \/ ReadOutside(us)
    \/ Kill
    \/ \E b \in Base : Restart(b)

Spec == Init /\ [][Next]_vars

-----------------------------------------------------------------------------
(* Properties.                                                             *)

\* While the server runs, every entry is on the free list or holds the address
\* of exactly one user, never both and never neither: set_status leaks no entry
\* and gives none to a second user (status_list_get, status_list_put).
EntriesPartition ==
    proc = "running" =>
        /\ free_list = Entry \ InUse
        /\ \A u, w \in Mapped : map[u].entry = map[w].entry => u = w

\* It is so while no restart has found a user shown online (status_list_init
\* rebuilds the free list as if there never were one).
CleanPartition == clean => EntriesPartition

\* A user shown online has the address of a connection server, unless his entry
\* went to the free list while he was online: messages for him can be sent.
OnlineHasAddress ==
    proc = "running" =>
        \A u \in Mapped : con[map[u].entry] = NoCon => map[u].entry \in free_list

\* While no restart has found a user shown online, the server is the board it
\* promises to be: a login kills it only when the board is full, a question only
\* when it names a user number that is too big.
Board ==
    INSTANCE StatusBoard WITH
        board    <- [u \in Uin |-> ConOf(u)],
        Capacity <- Cardinality(Entry)

BoardSpec == Board!Init /\ [][clean' => Board!Next]_(Board!vars)
=============================================================================
