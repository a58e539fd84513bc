--------------------------- MODULE ConnTimerProof ---------------------------
(***************************************************************************)
(* Proofs about ConnTimer, for every set of clients, every size of the     *)
(* wheel and every lateness of the expiry pass.                            *)
(***************************************************************************)
EXTENDS ConnTimer, TLAPS

-----------------------------------------------------------------------------
(* Arithmetic of the wheel.                                                *)

\* The remainder of a number less than twice round the wheel.
LEMMA ModSlots ==
    ASSUME NEW a \in 0 .. (2 * MaxSlots - 1)
    PROVE  a % MaxSlots = IF a < MaxSlots THEN a ELSE a - MaxSlots
  BY SlotsAssumption, SMT

\* timer_tick moves the cursor to another slot of the wheel.
LEMMA TickMoves ==
    ASSUME NEW cur \in Slot, NEW i \in 1 .. (MaxSlots - 1)
    PROVE  /\ timer_tick(cur, i) \in Slot
           /\ timer_tick(cur, i) = IF cur + i < MaxSlots
                                   THEN cur + i ELSE cur + i - MaxSlots
<1> DEFINE a == cur + i
<1> USE SlotsAssumption DEF Slot
<1>1. a \in 0 .. (2 * MaxSlots - 1)
  OBVIOUS
<1>2. timer_tick(cur, i) = a % MaxSlots
  BY DEF timer_tick
<1> HIDE DEF a
<1>3. timer_tick(cur, i) = IF a < MaxSlots THEN a ELSE a - MaxSlots
  BY <1>1, <1>2, ModSlots
<1>4. QED BY <1>3 DEF a

\* The age of a slot without the remainder.
LEMMA AgeValue ==
    ASSUME NEW cur \in Slot, NEW s \in Slot
    PROVE  /\ Age(cur, s) \in Slot
           /\ Age(cur, s) = IF s < cur THEN cur - 1 - s ELSE cur + MaxSlots - 1 - s
<1> DEFINE a == cur + MaxSlots - 1 - s
<1> USE SlotsAssumption DEF Slot
<1>1. a \in 0 .. (2 * MaxSlots - 1)
  OBVIOUS
<1>2. Age(cur, s) = a % MaxSlots
  BY DEF Age
<1> HIDE DEF a
<1>3. Age(cur, s) = IF a < MaxSlots THEN a ELSE a - MaxSlots
  BY <1>1, <1>2, ModSlots
<1>4. QED BY <1>3 DEF a

\* timer_add puts a connection where its age is zero.
LEMMA InsertAge ==
    ASSUME NEW cur \in Slot
    PROVE  /\ InsertIndex(cur) \in Slot
           /\ InsertIndex(cur) # cur
           /\ Age(cur, InsertIndex(cur)) = 0
<1> USE SlotsAssumption
<1>1. InsertIndex(cur) \in Slot /\ InsertIndex(cur) # cur
  BY DEF InsertIndex, Slot
<1>2. Age(cur, InsertIndex(cur))
        = IF InsertIndex(cur) < cur THEN cur - 1 - InsertIndex(cur)
          ELSE cur + MaxSlots - 1 - InsertIndex(cur)
  BY <1>1, AgeValue
<1>3. QED
  BY <1>1, <1>2 DEF InsertIndex, Slot

\* get_timeout_list splices no list that is not a slot.
LEMMA TimeoutSlotsAreSlots ==
    ASSUME NEW p \in Slot, NEW cur \in Slot
    PROVE  TimeoutSlots(p, cur) \subseteq Slot
<1> USE SlotsAssumption
<1>1. ASSUME NEW k \in Nat PROVE k % MaxSlots \in Slot
  BY <1>1 DEF Slot
<1>2. \A k \in (p + 1) .. (IF p < cur THEN cur ELSE cur + MaxSlots) : k \in Nat
  BY DEF Slot
<1>3. QED BY <1>1, <1>2 DEF TimeoutSlots

\* The slots of one sweep, without the remainder.
LEMMA TimeoutSlotsValue ==
    ASSUME NEW p \in Slot, NEW i \in 1 .. (MaxSlots - 1), NEW s \in Slot
    PROVE  s \in TimeoutSlots(p, timer_tick(p, i))
              <=> \/ s \in (p + 1) .. (p + i)
                  \/ s + MaxSlots \in (p + 1) .. (p + i)
<1> DEFINE cur == timer_tick(p, i)
           end == IF p < cur THEN cur ELSE cur + MaxSlots
<1> USE SlotsAssumption DEF Slot
<1>1. cur = IF p + i < MaxSlots THEN p + i ELSE p + i - MaxSlots
  BY TickMoves
<1>2. TimeoutSlots(p, cur) = {k % MaxSlots : k \in (p + 1) .. end}
  BY DEF TimeoutSlots
<1> HIDE DEF cur
<1>3. end = p + i
  BY <1>1
<1> HIDE DEF end
<1>4. \A k \in (p + 1) .. (p + i) :
         k % MaxSlots = IF k < MaxSlots THEN k ELSE k - MaxSlots
  <2>1. TAKE k \in (p + 1) .. (p + i)
  <2>2. k \in 0 .. (2 * MaxSlots - 1)
    OBVIOUS
  <2>3. QED BY <2>2, ModSlots
<1>5. s \in TimeoutSlots(p, cur)
         <=> \E k \in (p + 1) .. (p + i) :
               s = IF k < MaxSlots THEN k ELSE k - MaxSlots
  BY <1>2, <1>3, <1>4
<1>6. ASSUME s \in TimeoutSlots(p, cur)
      PROVE  \/ s \in (p + 1) .. (p + i)
             \/ s + MaxSlots \in (p + 1) .. (p + i)
  BY <1>5, <1>6
<1>7. ASSUME s \in (p + 1) .. (p + i)
      PROVE  s \in TimeoutSlots(p, cur)
  BY <1>5, <1>7
<1>8. ASSUME s + MaxSlots \in (p + 1) .. (p + i)
      PROVE  s \in TimeoutSlots(p, cur)
  <2>1. s = (s + MaxSlots) - MaxSlots /\ ~(s + MaxSlots < MaxSlots)
    OBVIOUS
  <2>2. QED BY <1>5, <1>8, <2>1
<1>9. QED BY <1>6, <1>7, <1>8 DEF cur

\* A sweep that counts i seconds takes a slot exactly when its connections
\* would then be CLIENT_TIMEOUT seconds old, and ages all others by i.
LEMMA SweptByAge ==
    ASSUME NEW p \in Slot, NEW i \in 1 .. (MaxSlots - 1), NEW s \in Slot \ {p}
    PROVE  /\ s \in TimeoutSlots(p, timer_tick(p, i))
                 <=> Age(p, s) + i >= MaxSlots - 1
           /\ s \notin TimeoutSlots(p, timer_tick(p, i))
                 => Age(timer_tick(p, i), s) = Age(p, s) + i
<1> DEFINE cur == timer_tick(p, i)
<1> USE SlotsAssumption
<1>1. s \in TimeoutSlots(p, cur)
         <=> \/ s \in (p + 1) .. (p + i)
             \/ s + MaxSlots \in (p + 1) .. (p + i)
  BY TimeoutSlotsValue
<1>2. Age(p, s) = IF s < p THEN p - 1 - s ELSE p + MaxSlots - 1 - s
  BY AgeValue
<1>3. /\ cur \in Slot
      /\ cur = IF p + i < MaxSlots THEN p + i ELSE p + i - MaxSlots
  BY TickMoves
<1>4. Age(cur, s) = IF s < cur THEN cur - 1 - s ELSE cur + MaxSlots - 1 - s
  BY <1>3, AgeValue
<1> HIDE DEF cur
<1>5. s \in TimeoutSlots(p, cur) <=> Age(p, s) + i >= MaxSlots - 1
  BY <1>1, <1>2 DEF Slot
<1>6. s \notin TimeoutSlots(p, cur) => Age(cur, s) = Age(p, s) + i
  BY <1>1, <1>2, <1>3, <1>4 DEF Slot
<1>7. QED BY <1>5, <1>6 DEF cur

\* The slot the cursor stops at is swept; the slot timer_add then inserts into
\* is swept too unless the sweep counts one second.
LEMMA SweptEnds ==
    ASSUME NEW p \in Slot, NEW i \in 1 .. (MaxSlots - 1)
    PROVE  LET cur == timer_tick(p, i)
           IN  /\ cur \in TimeoutSlots(p, cur)
               /\ InsertIndex(cur) \in TimeoutSlots(p, cur) <=> i > 1
<1> DEFINE cur == timer_tick(p, i)
<1> USE SlotsAssumption
<1>1. /\ cur \in Slot
      /\ cur = IF p + i < MaxSlots THEN p + i ELSE p + i - MaxSlots
  BY TickMoves
<1>2. InsertIndex(cur) \in Slot
  BY <1>1, InsertAge
<1>3. cur \in TimeoutSlots(p, cur)
         <=> \/ cur \in (p + 1) .. (p + i)
             \/ cur + MaxSlots \in (p + 1) .. (p + i)
  BY <1>1, TimeoutSlotsValue
<1>4. InsertIndex(cur) \in TimeoutSlots(p, cur)
         <=> \/ InsertIndex(cur) \in (p + 1) .. (p + i)
             \/ InsertIndex(cur) + MaxSlots \in (p + 1) .. (p + i)
  BY <1>2, TimeoutSlotsValue
<1> HIDE DEF cur
<1>5. cur \in TimeoutSlots(p, cur)
  BY <1>1, <1>3 DEF Slot
<1>6. InsertIndex(cur) \in TimeoutSlots(p, cur) <=> i > 1
  BY <1>1, <1>4 DEF Slot, InsertIndex
<1>7. QED BY <1>5, <1>6 DEF cur

-----------------------------------------------------------------------------
(* Type correctness and the invariant of the wheel.                        *)

IInv == TypeOK /\ WheelInv

\* The connections are what the slots hold.
LEMMA LiveSlots ==
    ASSUME NEW c
    PROVE  c \in Live <=> \E s \in Slot : c \in timer_slots[s]
  BY DEF Live

\* What one pass finds, and whom it closes: the connections it has just marked
\* alive when it counts more than one second, and of the others those in the
\* slots it sweeps.
PassNow   == timer_tick(current, lag)
PassAlive == keep_alive_list \cap uin_conn_map
PassDead  ==
    get_timeout_list(timer_mark_alive(timer_slots, PassNow, PassAlive),
                     current, PassNow)

LEMMA PassDeadMember ==
    ASSUME TypeOK, lag > 0, NEW c \in Client
    PROVE  c \in PassDead
             <=> IF c \in PassAlive THEN lag > 1
                 ELSE \E s \in TimeoutSlots(current, PassNow) : c \in timer_slots[s]
<1> DEFINE marked == timer_mark_alive(timer_slots, PassNow, PassAlive)
           swept  == TimeoutSlots(current, PassNow)
<1> USE SlotsAssumption, LagAssumption
<1>1. /\ current \in Slot
      /\ lag \in 1 .. (MaxSlots - 1)
  BY DEF TypeOK
<1>2. /\ PassNow \in Slot
      /\ InsertIndex(PassNow) \in Slot
      /\ InsertIndex(PassNow) \in swept <=> lag > 1
  BY <1>1, TickMoves, InsertAge, SweptEnds DEF PassNow
<1>3. swept \subseteq Slot
  BY <1>1, <1>2, TimeoutSlotsAreSlots
<1>4. \A s \in Slot :
         c \in marked[s] <=> IF c \in PassAlive THEN s = InsertIndex(PassNow)
                            ELSE c \in timer_slots[s]
  BY <1>2 DEF timer_mark_alive, timer_add, timer_del, TypeOK
<1>5. c \in PassDead <=> \E s \in swept : c \in marked[s]
  BY DEF PassDead, get_timeout_list
<1> HIDE DEF marked, swept
<1>6. CASE c \in PassAlive
  BY <1>2, <1>3, <1>4, <1>5, <1>6
<1>7. CASE c \notin PassAlive
  BY <1>3, <1>4, <1>5, <1>7 DEF swept
<1>8. QED BY <1>6, <1>7

\* Where a connection is after the pass.
LEMMA PassMember ==
    ASSUME TypeOK, WheelInv, timer_expire_time, NEW c \in Client, NEW s \in Slot
    PROVE  c \in timer_slots'[s]
             <=> IF c \in PassAlive THEN lag = 1 /\ s = InsertIndex(PassNow)
                 ELSE c \in timer_slots[s] /\ s \notin TimeoutSlots(current, PassNow)
<1> DEFINE marked == timer_mark_alive(timer_slots, PassNow, PassAlive)
<1> USE SlotsAssumption, LagAssumption
<1>1. /\ current \in Slot
      /\ lag \in 1 .. (MaxSlots - 1)
  BY DEF TypeOK, timer_expire_time
<1>2. PassNow \in Slot /\ InsertIndex(PassNow) \in Slot
  BY <1>1, TickMoves, InsertAge DEF PassNow
<1>3. c \in marked[s] <=> IF c \in PassAlive THEN s = InsertIndex(PassNow)
                         ELSE c \in timer_slots[s]
  BY <1>2 DEF timer_mark_alive, timer_add, timer_del, TypeOK
<1>4. timer_slots'[s] = marked[s] \ PassDead
  BY DEF timer_expire_time, timer_del, PassDead, PassAlive, PassNow
<1> HIDE DEF marked
<1>5. CASE c \in PassAlive
  BY <1>1, <1>3, <1>4, <1>5, PassDeadMember
<1>6. CASE c \notin PassAlive
  <2>1. c \in PassDead
          <=> \E t \in TimeoutSlots(current, PassNow) : c \in timer_slots[t]
    BY <1>1, <1>6, PassDeadMember
  <2>2. TimeoutSlots(current, PassNow) \subseteq Slot
    BY <1>1, <1>2, TimeoutSlotsAreSlots
  <2>3. \A t \in Slot : c \in timer_slots[s] /\ c \in timer_slots[t] => s = t
    BY DEF WheelInv
  <2>4. QED BY <1>3, <1>4, <1>6, <2>1, <2>2, <2>3
<1>7. QED BY <1>5, <1>6

LEMMA InitIInv == Init => IInv
<1> SUFFICES ASSUME Init PROVE IInv
  OBVIOUS
<1> USE SlotsAssumption, LagAssumption
<1>1. TypeOK
  BY DEF Init, TypeOK, Slot
<1>2. WheelInv
  BY DEF Init, WheelInv, Slot
<1>3. QED BY <1>1, <1>2 DEF IInv

\* A handler other than the expiry pass keeps the invariant.
LEMMA HandlerIInv ==
    ASSUME IInv, NEW c \in Client,
           Accept(c) \/ Login(c) \/ KeepAlive(c) \/ Close(c)
    PROVE  IInv'
<1> USE SlotsAssumption, LagAssumption DEF IInv
<1>1. CASE Accept(c)
  <2>1. /\ InsertIndex(current) \in Slot
        /\ InsertIndex(current) # current
    BY InsertAge DEF TypeOK
  <2>2. TypeOK'
    BY <1>1, <2>1 DEF Accept, timer_add, TypeOK
  <2>3. \A s \in Slot : timer_slots'[s] = IF s = InsertIndex(current)
                                         THEN timer_slots[s] \cup {c}
                                         ELSE timer_slots[s]
    BY <1>1, <2>1 DEF Accept, timer_add, TypeOK
  <2>4. \A s \in Slot : c \notin timer_slots[s]
    BY <1>1 DEF Accept, Live
  <2>5. Live \subseteq Live'
    <3>1. \A s \in Slot : timer_slots[s] \subseteq timer_slots'[s]
      BY <2>3
    <3>2. QED BY <3>1 DEF Live
  <2>6. WheelInv'
    <3>1. /\ current' = current /\ current \in Slot
          /\ uin_conn_map' = uin_conn_map
      BY <1>1 DEF Accept, TypeOK
    <3>2. timer_slots'[current'] = {}
      BY <2>1, <2>3, <3>1 DEF WheelInv
    <3>3. \A s, t \in Slot : timer_slots'[s] \cap timer_slots'[t] # {} => s = t
      <4>1. SUFFICES ASSUME NEW s \in Slot, NEW t \in Slot, NEW d,
                            d \in timer_slots'[s], d \in timer_slots'[t]
                     PROVE  s = t
        OBVIOUS
      <4>2. CASE d = c
        BY <2>3, <2>4, <4>1, <4>2
      <4>3. CASE d # c
        <5>1. \A r \in Slot : d \in timer_slots'[r] => d \in timer_slots[r]
          <6>1. SUFFICES ASSUME NEW r \in Slot, d \in timer_slots'[r]
                         PROVE  d \in timer_slots[r]
            OBVIOUS
          <6>2. CASE r = InsertIndex(current)
            BY <2>3, <4>3, <6>1, <6>2
          <6>3. CASE r # InsertIndex(current)
            BY <2>3, <6>1, <6>3
          <6>4. QED BY <6>2, <6>3
        <5>2. d \in timer_slots[s] \cap timer_slots[t]
          BY <4>1, <5>1
        <5>3. QED BY <5>2 DEF WheelInv
      <4>4. QED BY <4>2, <4>3
    <3>4. uin_conn_map' \subseteq Live'
      BY <2>5, <3>1 DEF WheelInv
    <3>5. QED BY <3>2, <3>3, <3>4 DEF WheelInv
  <2>7. QED BY <2>2, <2>6
<1>2. CASE Login(c)
  <2>1. Live' = Live
    BY <1>2 DEF Login, Live
  <2>2. QED BY <1>2, <2>1 DEF Login, TypeOK, WheelInv
<1>3. CASE KeepAlive(c)
  <2>1. Live' = Live
    BY <1>3 DEF KeepAlive, Live
  <2>2. QED BY <1>3, <2>1 DEF KeepAlive, TypeOK, WheelInv
<1>4. CASE Close(c)
  <2>1. \A s \in Slot : timer_slots'[s] = timer_slots[s] \ {c}
    BY <1>4 DEF Close, timer_del
  <2>2. Live \ {c} \subseteq Live'
    BY <2>1 DEF Live
  <2>3. TypeOK'
    BY <1>4 DEF Close, timer_del, TypeOK
  <2>4. WheelInv'
    BY <1>4, <2>1, <2>2 DEF WheelInv, Close, TypeOK
  <2>5. QED BY <2>3, <2>4
<1>5. QED BY <1>1, <1>2, <1>3, <1>4

\* The expiry pass keeps the invariant.
LEMMA PassIInv ==
    ASSUME IInv, timer_expire_time
    PROVE  IInv'
<1> USE SlotsAssumption, LagAssumption DEF IInv
<1>1. /\ current \in Slot
      /\ lag \in 1 .. (MaxSlots - 1)
  BY DEF TypeOK, timer_expire_time
<1>2. /\ PassNow \in Slot
      /\ InsertIndex(PassNow) \in Slot
      /\ InsertIndex(PassNow) # PassNow
      /\ PassNow \in TimeoutSlots(current, PassNow)
  BY <1>1, TickMoves, InsertAge, SweptEnds DEF PassNow
<1>3. TypeOK'
  <2>1. timer_slots' \in [Slot -> SUBSET Client]
    BY <1>2 DEF timer_expire_time, timer_del, timer_mark_alive, timer_add, TypeOK,
       PassNow
  <2>2. /\ prev' = current /\ current' = PassNow
        /\ uin_conn_map' \subseteq uin_conn_map
        /\ keep_alive_list' = {} /\ lag' = 0
    BY DEF timer_expire_time, PassNow
  <2>3. QED
    BY <1>1, <1>2, <2>1, <2>2 DEF TypeOK
<1>4. \A d \in Client, s \in Slot :
         d \in timer_slots'[s]
           <=> IF d \in PassAlive THEN lag = 1 /\ s = InsertIndex(PassNow)
               ELSE d \in timer_slots[s] /\ s \notin TimeoutSlots(current, PassNow)
  BY PassMember
<1>5. \A s, t \in Slot : timer_slots'[s] \cap timer_slots'[t] # {} => s = t
  <2>1. SUFFICES ASSUME NEW s \in Slot, NEW t \in Slot, NEW d \in Client,
                        d \in timer_slots'[s], d \in timer_slots'[t]
                 PROVE  s = t
    BY <1>3 DEF TypeOK
  <2>2. QED BY <1>4, <2>1 DEF WheelInv
<1>6. timer_slots'[current'] = {}
  <2>1. current' = PassNow
    BY DEF timer_expire_time, PassNow
  <2>2. QED BY <1>2, <1>3, <1>4, <2>1 DEF TypeOK
<1>7. uin_conn_map' \subseteq Live'
  <2>1. SUFFICES ASSUME NEW d \in Client, d \in uin_conn_map, d \notin PassDead
                 PROVE  d \in Live'
    BY <1>3 DEF timer_expire_time, PassDead, PassNow, PassAlive, TypeOK
  <2>2. PICK s \in Slot : d \in timer_slots[s]
    BY <2>1, LiveSlots DEF WheelInv
  <2>3. CASE d \in PassAlive
    <3>1. lag = 1
      BY <1>1, <2>1, <2>3, PassDeadMember
    <3>2. d \in timer_slots'[InsertIndex(PassNow)]
      BY <1>2, <1>4, <2>3, <3>1
    <3>3. QED BY <1>2, <3>2 DEF Live
  <2>4. CASE d \notin PassAlive
    <3>1. s \notin TimeoutSlots(current, PassNow)
      BY <1>1, <2>1, <2>2, <2>4, PassDeadMember
    <3>2. d \in timer_slots'[s]
      BY <1>4, <2>2, <2>4, <3>1
    <3>3. QED BY <3>2 DEF Live
  <2>5. QED BY <2>3, <2>4
<1>8. QED BY <1>3, <1>5, <1>6, <1>7 DEF WheelInv

LEMMA NextIInv == IInv /\ [Next]_vars => IInv'
<1> SUFFICES ASSUME IInv, [Next]_vars PROVE IInv'
  OBVIOUS
<1>1. CASE \E c \in Client : Accept(c) \/ Login(c) \/ KeepAlive(c) \/ Close(c)
  BY <1>1, HandlerIInv
<1>2. CASE Alarm
  <2>1. Live' = Live
    BY <1>2 DEF Alarm, Live
  <2>2. QED
    BY <1>2, <2>1, SlotsAssumption, LagAssumption
    DEF Alarm, IInv, TypeOK, WheelInv
<1>3. CASE timer_expire_time
  BY <1>3, PassIInv
<1>4. CASE UNCHANGED vars
  <2>1. Live' = Live
    BY <1>4 DEF vars, Live
  <2>2. QED
    BY <1>4, <2>1 DEF vars, IInv, TypeOK, WheelInv
<1>5. QED BY <1>1, <1>2, <1>3, <1>4 DEF Next

THEOREM IInvHolds == Spec => []IInv
<1>1. QED BY InitIInv, NextIInv, PTL DEF Spec

\* Every reachable state of the timer is well typed; in particular the cursor
\* fits the wheel, and so the uint8_t it is kept in (conn_timer.h:12-17).
THEOREM TypeCorrect == Spec => []TypeOK
<1>1. IInv => TypeOK
  BY DEF IInv
<1>2. QED BY <1>1, IInvHolds, PTL

\* A connection is on the wheel once, and not in the slot just swept: timer_del
\* and timer_add never leave a connection in two lists (conn_timer.h:46-69).
THEOREM WheelCorrect == Spec => []WheelInv
<1>1. IInv => WheelInv
  BY DEF IInv
<1>2. QED BY <1>1, IInvHolds, PTL

-----------------------------------------------------------------------------
(* The wheel implements the leases.                                        *)

\* The lease of a connection, read off the slot it is in.
LEMMA SlotOfValue ==
    ASSUME NEW slots, NEW c, NEW s \in Slot, c \in slots[s],
           \A t, u \in Slot : slots[t] \cap slots[u] # {} => t = u
    PROVE  SlotOf(slots, c) = s
  BY DEF SlotOf

LEMMA LeaseAgeValue ==
    ASSUME IInv, NEW c \in Client, NEW s \in Slot, c \in timer_slots[s]
    PROVE  LeaseAge[c] = Age(current, s)
<1>1. c \in Live
  BY DEF Live
<1>2. SlotOf(timer_slots, c) = s
  BY SlotOfValue DEF IInv, WheelInv
<1>3. QED BY <1>1, <1>2 DEF LeaseAge

LEMMA LeaseAgeValueNext ==
    ASSUME IInv', NEW c \in Client, NEW s \in Slot, c \in timer_slots'[s]
    PROVE  LeaseAge'[c] = Age(current', s)
<1>1. c \in Live'
  BY DEF Live
<1>2. SlotOf(timer_slots', c) = s
  BY SlotOfValue DEF IInv, WheelInv
<1>3. QED BY <1>1, <1>2 DEF LeaseAge

\* The empty wheel holds no lease.
LEMMA LeaseInit == Init => Leases!Init
<1> SUFFICES ASSUME Init PROVE Leases!Init
  OBVIOUS
<1>1. Live = {}
  BY DEF Init, Live
<1>2. LeaseAge = [c \in Client |-> 0]
  BY <1>1 DEF LeaseAge
<1>3. QED BY <1>1, <1>2 DEF Init, Leases!Init

\* timer_add begins a lease.
LEMMA AcceptOpens ==
    ASSUME IInv, IInv', NEW c \in Client, Accept(c)
    PROVE  Leases!Open(c)
<1>1. /\ current \in Slot
      /\ InsertIndex(current) \in Slot
      /\ Age(current, InsertIndex(current)) = 0
  BY InsertAge DEF IInv, TypeOK
<1>2. \A s \in Slot : timer_slots'[s] = IF s = InsertIndex(current)
                                       THEN timer_slots[s] \cup {c}
                                       ELSE timer_slots[s]
  BY <1>1 DEF Accept, timer_add, IInv, TypeOK
<1>3. c \notin Live /\ Live' = Live \cup {c}
  BY <1>1, <1>2 DEF Accept, Live
<1>4. current' = current
  BY DEF Accept
<1>5. ASSUME NEW d \in Client PROVE LeaseAge'[d] = LeaseAge[d]
  <2>1. CASE d = c
    <3>1. LeaseAge[d] = 0
      BY <1>3, <2>1 DEF LeaseAge
    <3>2. d \in timer_slots'[InsertIndex(current)]
      BY <1>1, <1>2, <2>1
    <3>3. LeaseAge'[d] = 0
      BY <1>1, <1>4, <3>2, LeaseAgeValueNext
    <3>4. QED BY <3>1, <3>3
  <2>2. CASE d # c /\ d \in Live
    <3>1. PICK s \in Slot : d \in timer_slots[s]
      BY <2>2, LiveSlots
    <3>2. d \in timer_slots'[s]
      BY <1>2, <3>1
    <3>3. QED BY <1>4, <3>1, <3>2, LeaseAgeValue, LeaseAgeValueNext
  <2>3. CASE d # c /\ d \notin Live
    BY <1>3, <2>3 DEF LeaseAge
  <2>4. QED BY <2>1, <2>2, <2>3
<1>6. LeaseAge' = LeaseAge
  BY <1>5 DEF LeaseAge
<1>7. QED BY <1>3, <1>6 DEF Accept, Leases!Open

\* timer_del ends a lease.
LEMMA CloseHangsUp ==
    ASSUME IInv, IInv', NEW c \in Client, Close(c)
    PROVE  Leases!HangUp(c)
<1>1. \A s \in Slot : timer_slots'[s] = timer_slots[s] \ {c}
  BY DEF Close, timer_del
<1>2. c \in Live /\ Live' = Live \ {c}
  <2>1. c \in Live
    BY DEF Close
  <2>2. ASSUME NEW d PROVE d \in Live' <=> d \in Live /\ d # c
    <3>1. d \in Live' <=> \E s \in Slot : d \in timer_slots'[s]
      BY DEF Live
    <3>2. QED BY <1>1, <3>1, LiveSlots
  <2>3. QED BY <2>1, <2>2
<1>3. current' = current
  BY DEF Close
<1>4. ASSUME NEW d \in Client
      PROVE  LeaseAge'[d] = IF d = c THEN 0 ELSE LeaseAge[d]
  <2>1. CASE d # c /\ d \in Live
    <3>1. PICK s \in Slot : d \in timer_slots[s]
      BY <2>1, LiveSlots
    <3>2. d \in timer_slots'[s]
      BY <1>1, <2>1, <3>1
    <3>3. QED BY <1>3, <2>1, <3>1, <3>2, LeaseAgeValue, LeaseAgeValueNext
  <2>2. CASE d = c \/ d \notin Live
    BY <1>2, <2>2 DEF LeaseAge
  <2>3. QED BY <2>1, <2>2
<1>5. LeaseAge' = [LeaseAge EXCEPT ![c] = 0]
  BY <1>4 DEF LeaseAge
<1>6. QED BY <1>2, <1>5 DEF Close, Leases!HangUp

\* The handlers that do not touch the wheel.
LEMMA OthersKeepLeases ==
    ASSUME UNCHANGED <<current, timer_slots>>
    PROVE  UNCHANGED <<Live, LeaseAge>>
<1>1. Live' = Live
  BY DEF Live
<1>2. LeaseAge' = LeaseAge
  BY <1>1 DEF LeaseAge
<1>3. QED BY <1>1, <1>2

\* The expiry pass is a sweep of the leases.
LEMMA PassSweeps ==
    ASSUME IInv, IInv', timer_expire_time
    PROVE  Leases!Sweep
<1> USE SlotsAssumption, LagAssumption
<1>1. /\ current \in Slot
      /\ lag \in 1 .. (MaxSlots - 1)
      /\ timer_slots[current] = {}
      /\ current' = PassNow
  BY DEF IInv, TypeOK, WheelInv, timer_expire_time, PassNow
<1>2. /\ PassNow \in Slot
      /\ InsertIndex(PassNow) \in Slot
      /\ Age(PassNow, InsertIndex(PassNow)) = 0
  BY <1>1, TickMoves, InsertAge DEF PassNow
<1>3. Leases!Alive = PassAlive
  BY DEF Leases!Alive, PassAlive
<1>4. \A d \in Client, s \in Slot :
         d \in timer_slots'[s]
           <=> IF d \in PassAlive THEN lag = 1 /\ s = InsertIndex(PassNow)
               ELSE d \in timer_slots[s] /\ s \notin TimeoutSlots(current, PassNow)
  BY PassMember DEF IInv
<1>5. \A d \in Client : LeaseAge[d] \in Nat
  <2>1. TAKE d \in Client
  <2>2. CASE d \in Live
    <3>1. PICK s \in Slot : d \in timer_slots[s]
      BY <2>2, LiveSlots
    <3>2. QED BY <1>1, <3>1, LeaseAgeValue, AgeValue DEF Slot
  <2>3. CASE d \notin Live
    BY <2>3 DEF LeaseAge
  <2>4. QED BY <2>2, <2>3
<1>6. ASSUME NEW d \in PassAlive
      PROVE  /\ d \in Live' <=> lag = 1
             /\ LeaseAge'[d] = 0
  <2>1. d \in Client
    BY DEF PassAlive, IInv, TypeOK
  <2>2. d \in Live' <=> lag = 1
    BY <1>2, <1>4, <2>1 DEF Live
  <2>3. CASE lag = 1
    <3>1. d \in timer_slots'[InsertIndex(PassNow)]
      BY <1>2, <1>4, <2>1, <2>3
    <3>2. QED BY <1>1, <1>2, <2>1, <2>2, <3>1, LeaseAgeValueNext
  <2>4. CASE lag # 1
    BY <2>1, <2>2, <2>4 DEF LeaseAge
  <2>5. QED BY <2>2, <2>3, <2>4
<1>7. ASSUME NEW d \in Client \ PassAlive
      PROVE  /\ d \in Live' <=> d \in Live /\ LeaseAge[d] + lag < MaxSlots - 1
             /\ LeaseAge'[d] = IF d \in Live' THEN LeaseAge[d] + lag ELSE 0
  <2>1. CASE d \in Live
    <3>1. PICK s \in Slot : d \in timer_slots[s]
      BY <2>1, LiveSlots
    <3>2. \A t \in Slot : d \in timer_slots[t] => t = s
      BY <3>1 DEF IInv, WheelInv
    <3>3. s # current
      BY <1>1, <3>1
    <3>4. LeaseAge[d] = Age(current, s)
      BY <3>1, LeaseAgeValue
    <3>5. d \in Live' <=> s \notin TimeoutSlots(current, PassNow)
      BY <1>4, <3>1, <3>2 DEF Live
    <3>6. /\ s \in TimeoutSlots(current, PassNow)
                <=> Age(current, s) + lag >= MaxSlots - 1
          /\ s \notin TimeoutSlots(current, PassNow)
                => Age(PassNow, s) = Age(current, s) + lag
      BY <1>1, <3>3, SweptByAge DEF PassNow
    <3>7. d \in Live' => LeaseAge'[d] = Age(PassNow, s)
      BY <1>1, <1>4, <3>1, <3>5, LeaseAgeValueNext
    <3>8. d \notin Live' => LeaseAge'[d] = 0
      BY DEF LeaseAge
    <3>9. d \in Live' <=> LeaseAge[d] + lag < MaxSlots - 1
      BY <1>1, <1>5, <3>4, <3>5, <3>6
    <3>10. QED BY <2>1, <3>4, <3>5, <3>6, <3>7, <3>8, <3>9
  <2>2. CASE d \notin Live
    <3>1. d \notin Live'
      BY <1>4, <2>2 DEF Live
    <3>2. QED BY <2>2, <3>1 DEF LeaseAge
  <2>3. QED BY <2>1, <2>2
<1>8. Live' \subseteq Client /\ Live \subseteq Client
  BY DEF IInv, TypeOK, Live
<1>9. PassAlive \subseteq Live
  BY DEF PassAlive, IInv, WheelInv
<1>10. Live' = Leases!Renewed \cup Leases!Running
  BY <1>1, <1>3, <1>6, <1>7, <1>8, <1>9
  DEF Leases!Renewed, Leases!Running
<1>11. LeaseAge' = [d \in Client |-> IF d \in Leases!Running
                                   THEN LeaseAge[d] + lag ELSE 0]
  <2>1. ASSUME NEW d \in Client
        PROVE  LeaseAge'[d] = IF d \in Leases!Running THEN LeaseAge[d] + lag ELSE 0
    BY <1>3, <1>6, <1>7 DEF Leases!Running
  <2>2. QED BY <2>1 DEF LeaseAge
<1>12. uin_conn_map' = uin_conn_map \cap Live'
  <2>1. uin_conn_map' = uin_conn_map \ PassDead
    BY DEF timer_expire_time, PassDead, PassNow, PassAlive
  <2>2. uin_conn_map' \subseteq Live'
    BY DEF IInv, WheelInv
  <2>3. ASSUME NEW d \in PassDead PROVE d \notin Live'
    <3>1. \A s \in Slot : d \notin timer_slots'[s]
      BY DEF timer_expire_time, timer_del, PassDead, PassNow, PassAlive
    <3>2. QED BY <3>1 DEF Live
  <2>4. QED BY <2>1, <2>2, <2>3
<1>13. lag > 0 /\ keep_alive_list' = {} /\ lag' = 0
  BY DEF timer_expire_time
<1>14. QED BY <1>10, <1>11, <1>12, <1>13 DEF Leases!Sweep

LEMMA LeaseNext == IInv /\ IInv' /\ [Next]_vars => [Leases!Next]_(Leases!vars)
<1> SUFFICES ASSUME IInv, IInv', [Next]_vars
             PROVE  [Leases!Next]_(Leases!vars)
  OBVIOUS
<1>1. ASSUME NEW c \in Client, Accept(c) PROVE Leases!Next
  BY <1>1, AcceptOpens DEF Leases!Next
<1>2. ASSUME NEW c \in Client, Login(c) PROVE Leases!Next
  <2>1. UNCHANGED <<Live, LeaseAge>>
    BY <1>2, OthersKeepLeases DEF Login
  <2>2. Leases!LogIn(c)
    BY <1>2, <2>1 DEF Login, Leases!LogIn
  <2>3. QED BY <2>2 DEF Leases!Next
<1>3. ASSUME NEW c \in Client, KeepAlive(c) PROVE Leases!Next
  <2>1. UNCHANGED <<Live, LeaseAge>>
    BY <1>3, OthersKeepLeases DEF KeepAlive
  <2>2. Leases!Hear(c)
    BY <1>3, <2>1 DEF KeepAlive, Leases!Hear
  <2>3. QED BY <2>2 DEF Leases!Next
<1>4. ASSUME NEW c \in Client, Close(c) PROVE Leases!Next
  BY <1>4, CloseHangsUp DEF Leases!Next
<1>5. CASE Alarm
  <2>1. UNCHANGED <<Live, LeaseAge>>
    BY <1>5, OthersKeepLeases DEF Alarm
  <2>2. Leases!Second
    BY <1>5, <2>1 DEF Alarm, Leases!Second
  <2>3. QED BY <2>2 DEF Leases!Next
<1>6. CASE timer_expire_time
  BY <1>6, PassSweeps DEF Leases!Next
<1>7. CASE UNCHANGED vars
  <2>1. UNCHANGED <<Live, LeaseAge>>
    BY <1>7, OthersKeepLeases DEF vars
  <2>2. QED BY <1>7, <2>1 DEF vars, Leases!vars
<1>8. QED BY <1>1, <1>2, <1>3, <1>4, <1>5, <1>6, <1>7 DEF Next

\* The wheel of conn_timer.h implements the leases: whatever the number of
\* seconds a pass counts, a silent connection is closed by exactly the pass
\* that counts its CLIENT_TIMEOUT-th second, and a client that was heard keeps
\* its connection when the pass counts one second.
THEOREM LeaseCorrect == Spec => LeaseSpec
<1>1. QED BY LeaseInit, LeaseNext, IInvHolds, PTL DEF Spec, LeaseSpec, Leases!Spec

\* An event loop that comes round every second honours every keep-alive packet
\* of a connection it can find (timer_expire_time, conn_timer.c:63-84).
THEOREM PromptPassKeepsAlive ==
    ASSUME MaxLag = 1
    PROVE  Spec => AliveIsNotRemoved
<1>1. ASSUME IInv, IInv', timer_expire_time
      PROVE  keep_alive_list \cap uin_conn_map \subseteq Live'
  <2>1. Leases!Sweep
    BY <1>1, PassSweeps
  <2>2. lag = 1
    BY <1>1, SlotsAssumption, LagAssumption DEF IInv, TypeOK, timer_expire_time
  <2>3. QED BY <2>1, <2>2 DEF Leases!Sweep, Leases!Renewed, Leases!Alive
<1>2. IInv /\ IInv' /\ [Next]_vars
        => [timer_expire_time => keep_alive_list \cap uin_conn_map \subseteq Live']_vars
  BY <1>1
<1>3. QED BY <1>2, IInvHolds, PTL DEF Spec, AliveIsNotRemoved
=============================================================================
