----------------------------- MODULE ConnTimer -----------------------------
(***************************************************************************)
(* The timer of the connection server (include/conn_timer.h,               *)
(* conn/conn_timer.c): a wheel of max_slots = CLIENT_TIMEOUT + 1 lists of  *)
(* connections, a cursor that SIGALRM and the event loop move, and the     *)
(* list of keep-alive packets that the next expiry pass consumes.          *)
(*                                                                         *)
(* The program is one thread: every action is a whole handler, except      *)
(* Alarm, the signal handler, which may come between any two of them.      *)
(* A connection is named by its client: here a client has at most one, so  *)
(* get_conn_by_uin finds the connection of a client that sent CMD_LOGIN.   *)
(* (ConnServer drops that assumption.)  The order of the connections of    *)
(* one slot, and of the keep-alive packets, decides nothing but the order  *)
(* of the offline reports, so both lists are sets.                         *)
(***************************************************************************)
EXTENDS Naturals

CONSTANTS
    Client,     \* the clients
    MaxSlots,   \* timer.max_slots, CLIENT_TIMEOUT + 1
    MaxLag      \* bound: most seconds between two passes of the event loop

\* max_slots is a uint8_t; conn_timer.c:59 asserts that a pass never finds
\* max_slots seconds or more to count.
ASSUME SlotsAssumption == MaxSlots \in 2 .. 255
ASSUME LagAssumption == MaxLag \in 1 .. (MaxSlots - 1)

VARIABLES
    prev,               \* timer.prev
    current,            \* timer.current
    timer_slots,        \* timer.timer_slots, a set of clients each
    uin_conn_map,       \* the clients get_conn_by_uin finds a connection of
    keep_alive_list,    \* the clients whose keep-alive packet is queued
    lag                 \* global_time_value - local_time_value

vars == <<prev, current, timer_slots, uin_conn_map, keep_alive_list, lag>>

Slot == 0 .. (MaxSlots - 1)

\* The connections that exist: each is on the wheel from accept to close.
Live == UNION {timer_slots[s] : s \in Slot}

TypeOK ==
    /\ prev \in Slot
    /\ current \in Slot
    /\ timer_slots \in [Slot -> SUBSET Client]
    /\ uin_conn_map \in SUBSET Client
    /\ keep_alive_list \in SUBSET Client
    /\ lag \in 0 .. MaxLag

Init ==
    /\ prev = 0
    /\ current = 0
    /\ timer_slots = [s \in Slot |-> {}]
    /\ uin_conn_map = {}
    /\ keep_alive_list = {}
    /\ lag = 0

-----------------------------------------------------------------------------
(* The operations of conn_timer.h, as functions of the wheel.              *)

\* The slot timer_add inserts into when the cursor is at cur.
InsertIndex(cur) == IF cur = 0 THEN MaxSlots - 1 ELSE cur - 1

\* Mutant: the slot under the cursor itself.
timer_add_AtCursor(slots, cur, C) == [slots EXCEPT ![cur] = @ \cup C]

timer_add(slots, cur, C) ==
    [slots EXCEPT ![InsertIndex(cur)] = @ \cup C]

timer_del(slots, C) == [s \in Slot |-> slots[s] \ C]

timer_mark_alive(slots, cur, C) == timer_add(timer_del(slots, C), cur, C)

\* Mutant: the cursor runs past the end of the wheel.
timer_tick_NoWrap(cur, interval) == cur + interval

timer_tick(cur, interval) == (cur + interval) % MaxSlots

\* Mutants: the slot after the old cursor is left out, and a pass that goes
\* round the end of the wheel takes nothing.
TimeoutSlots_Late(p, cur) ==
    LET end == IF p < cur THEN cur ELSE cur + MaxSlots
    IN  {i % MaxSlots : i \in (p + 2) .. end}

TimeoutSlots_NoWrap(p, cur) == (p + 1) .. cur

\* The slots get_timeout_list splices together: p + 1 to cur, round the wheel.
TimeoutSlots(p, cur) ==
    LET end == IF p < cur THEN cur ELSE cur + MaxSlots
    IN  {i % MaxSlots : i \in (p + 1) .. end}

get_timeout_list(slots, p, cur) == UNION {slots[s] : s \in TimeoutSlots(p, cur)}

-----------------------------------------------------------------------------
(* The handlers.                                                           *)

\* accept_handler: a new connection is put on the wheel.
Accept(c) ==
    /\ c \notin Live
    /\ timer_slots' = timer_add(timer_slots, current, {c})
    /\ UNCHANGED <<prev, current, uin_conn_map, keep_alive_list, lag>>

\* cmd_login: from here on the uin of the client leads to its connection.
Login(c) ==
    /\ c \in Live \ uin_conn_map
    /\ uin_conn_map' = uin_conn_map \cup {c}
    /\ UNCHANGED <<prev, current, timer_slots, keep_alive_list, lag>>

\* cmd_keep_alive: the packet waits on the list for the next expiry pass.
KeepAlive(c) ==
    /\ c \in uin_conn_map
    /\ keep_alive_list' = keep_alive_list \cup {c}
    /\ UNCHANGED <<prev, current, timer_slots, uin_conn_map, lag>>

\* close_connection, called for a logout, an end of file or an error: what is
\* on the keep-alive list stays there.
Close(c) ==
    /\ c \in Live
    /\ timer_slots' = timer_del(timer_slots, {c})
    /\ uin_conn_map' = uin_conn_map \ {c}
    /\ UNCHANGED <<prev, current, keep_alive_list, lag>>

\* change_time_value: SIGALRM, once a second.
Alarm ==
    /\ lag < MaxLag
    /\ lag' = lag + 1
    /\ UNCHANGED <<prev, current, timer_slots, uin_conn_map, keep_alive_list>>

\* timer_expire_time: the cursor moves first, then the keep-alive packets of
\* connections that can still be found are honoured, then what the cursor
\* passed is closed.
timer_expire_time ==
    LET now    == timer_tick(current, lag)
        alive  == keep_alive_list \cap uin_conn_map
        marked == timer_mark_alive(timer_slots, now, alive)
        dead   == get_timeout_list(marked, current, now)
    IN  /\ lag > 0
        /\ prev' = current
        /\ current' = now
        /\ timer_slots' = timer_del(marked, dead)
        /\ uin_conn_map' = uin_conn_map \ dead
        /\ keep_alive_list' = {}
        /\ lag' = 0

Next ==
    \/ \E c \in Client : Accept(c) \/ Login(c) \/ KeepAlive(c) \/ Close(c)
    \/ Alarm
    \/ timer_expire_time

Spec == Init /\ [][Next]_vars

\* setitimer delivers SIGALRM every second, and epoll_wait returns at the
\* latest after one second, whereupon epoll_loop calls timer_expire_time.
Fairness == WF_vars(Alarm) /\ WF_vars(timer_expire_time)

FairSpec == Spec /\ Fairness

-----------------------------------------------------------------------------
(* Properties.                                                             *)

\* The seconds counted, when the cursor is at cur, since the connections of
\* slot s were put there.
Age(cur, s) == (cur + MaxSlots - 1 - s) % MaxSlots

\* The slot of a connection, and the seconds of its lease that have passed.
SlotOf(slots, c) == CHOOSE s \in Slot : c \in slots[s]
LeaseAge ==
    [c \in Client |->
        IF c \in Live THEN Age(current, SlotOf(timer_slots, c)) ELSE 0]

\* A connection is in exactly one slot of the wheel, never in the slot under
\* the cursor, and get_conn_by_uin finds no connection the timer has closed: a
\* pass leaves no second link to a connection behind, and none that it should
\* have swept (timer_mark_alive, get_timeout_list, timer_expire_time).
WheelInv ==
    /\ uin_conn_map \subseteq Live
    /\ \A s, t \in Slot : timer_slots[s] \cap timer_slots[t] # {} => s = t
    /\ timer_slots[current] = {}

\* The wheel keeps the leases: a connection whose client is silent is closed
\* by exactly the pass that counts CLIENT_TIMEOUT seconds since it was accepted
\* or last marked alive, never earlier and never later, however many seconds a
\* pass counts; a client that was heard keeps its connection when the pass
\* counts one second.
Leases ==
    INSTANCE Lease WITH
        Timeout <- MaxSlots - 1,
        Grace   <- 1,
        open    <- Live,
        age     <- LeaseAge,
        known   <- uin_conn_map,
        heard   <- keep_alive_list

LeaseSpec == Leases!Spec

\* The comment in timer_add: the slot a connection is inserted in "is not going
\* to timeout in the next second".  So the pass that marks a connection alive
\* (conn_timer.c:63, "move alive connection") does not close it as a dead one
\* (conn_timer.c:86, "remove dead connection").
AliveIsNotRemoved ==
    [][timer_expire_time => keep_alive_list \cap uin_conn_map \subseteq Live']_vars

\* A connection whose client stays silent is closed in the end: the expiry
\* pass cannot miss a slot for ever.
SilentIsClosed ==
    \A c \in Client : c \in Live ~> (c \notin Live \/ c \in keep_alive_list)
=============================================================================
