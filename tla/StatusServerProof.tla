------------------------- MODULE StatusServerProof -------------------------
(***************************************************************************)
(* Proofs about StatusServer, for any number of users, entries, addresses  *)
(* and restarts.                                                           *)
(***************************************************************************)
EXTENDS StatusServer, FunctionTheorems, FiniteSetTheorems, TLAPS

-----------------------------------------------------------------------------
(* Whatever happens: restarts with users shown online included.            *)

\* Die leaves the file alone.
LEMMA DieFrame ==
    ASSUME NEW cause, Die(cause)
    PROVE  UNCHANGED <<base, map, con, free_list, reply, clean>> /\ proc' = cause
  BY DEF Die

LEMMA StatusIsReply ==
    ASSUME NEW u \in Uin, NEW on \in BOOLEAN, NEW c \in Con \cup {NoCon}
    PROVE  Status(u, on, c) \in Reply
  BY DEF Reply, Status

LEMMA MultiStatusIsReply ==
    ASSUME NEW us \in SUBSET Uin, NEW stat \in [us -> BOOLEAN]
    PROVE  MultiStatus(stat) \in Reply
<1>1. stat \in UNION {[vs -> BOOLEAN] : vs \in SUBSET Uin}
  OBVIOUS
<1>2. QED BY <1>1 DEF Reply, MultiStatus

LEMMA TypeStep ==
    ASSUME TypeOK, [Next]_vars
    PROVE  TypeOK'
<1> USE DEF TypeOK
<1>1. ASSUME NEW u \in Uin, NEW c \in Con, SetOnline(u, c) PROVE TypeOK'
  <2>1. PICK e \in free_list :
          /\ free_list' = free_list \ {e}
          /\ map' = [map EXCEPT ![u] = PointerTo(e)]
          /\ con' = [con EXCEPT ![e] = c]
    BY <1>1 DEF SetOnline
  <2>2. PointerTo(e) \in Pointer
    BY DEF PointerTo, Pointer
  <2>3. reply' \in Reply
    BY <1>1 DEF SetOnline, Reply, Changed
  <2>4. QED BY <1>1, <2>1, <2>2, <2>3 DEF SetOnline
<1>2. ASSUME NEW u \in Uin, SetOnlineFull(u) PROVE TypeOK'
  BY <1>2, DieFrame DEF SetOnlineFull
<1>3. ASSUME NEW u \in Uin, SetOffline(u) PROVE TypeOK'
  <2>1. map[u].entry \in Entry
    BY <1>3 DEF SetOffline, Mapped, Pointer
  <2>2. reply' \in Reply
    BY <1>3 DEF SetOffline, Reply, Changed
  <2>3. QED BY <1>3, <2>1, <2>2 DEF SetOffline
<1>4. ASSUME NEW u \in Uin, GetStatus(u) PROVE TypeOK'
  <2>1. ConOf(u) \in Con \cup {NoCon}
    BY DEF ConOf, Mapped, Pointer
  <2>2. (u \in Mapped) \in BOOLEAN
    OBVIOUS
  <2>3. Status(u, u \in Mapped, ConOf(u)) \in Reply
    BY <2>1, <2>2, StatusIsReply
  <2>4. QED BY <1>4, <2>3 DEF GetStatus
<1>5. ASSUME NEW u \in Uin, FollowStale(u) PROVE TypeOK'
  BY <1>5 DEF FollowStale
<1>6. ASSUME NEW us \in Asked, GetMultiStatus(us) PROVE TypeOK'
  <2>1. reply' \in Reply
    BY <1>6, AskedAssumption, MultiStatusIsReply DEF GetMultiStatus
  <2>2. QED BY <1>6, <2>1 DEF GetMultiStatus
<1>7. ASSUME NEW us \in Asked, ReadOutside(us) PROVE TypeOK'
  BY <1>7, DieFrame DEF ReadOutside
<1>8. ASSUME Kill PROVE TypeOK'
  BY <1>8, DieFrame DEF Kill
<1>9. ASSUME NEW b \in Base, Restart(b) PROVE TypeOK'
  BY <1>9 DEF Restart
<1>10. CASE UNCHANGED vars
  BY <1>10 DEF vars
<1>11. QED
  BY <1>1, <1>2, <1>3, <1>4, <1>5, <1>6, <1>7, <1>8, <1>9,
     <1>10 DEF Next

LEMMA TypeInit == Init => TypeOK
  BY DEF Init, TypeOK, Reply

\* Every reachable state of the server is well typed (status.c).
THEOREM TypeCorrect == Spec => []TypeOK
<1>1. QED BY TypeInit, TypeStep, PTL DEF Spec

LEMMA AddressInit == Init => OnlineHasAddress
  BY DEF Init, OnlineHasAddress, Mapped

LEMMA AddressStep ==
    ASSUME TypeOK, OnlineHasAddress, [Next]_vars
    PROVE  OnlineHasAddress'
<1> USE DEF TypeOK, OnlineHasAddress
<1>1. ASSUME NEW u \in Uin, NEW c \in Con, SetOnline(u, c) PROVE OnlineHasAddress'
  <2>1. PICK e \in free_list :
          /\ free_list' = free_list \ {e}
          /\ map' = [map EXCEPT ![u] = PointerTo(e)]
          /\ con' = [con EXCEPT ![e] = c]
    BY <1>1 DEF SetOnline
  <2>2. SUFFICES ASSUME NEW w \in Mapped', con'[map'[w].entry] = NoCon
                 PROVE  map'[w].entry \in free_list'
    OBVIOUS
  <2>3. con'[e] # NoCon
    BY <2>1, ConAssumption
  <2>4. map'[u].entry = e
    BY <2>1 DEF PointerTo
  <2>5. w # u /\ map'[w].entry # e
    BY <2>2, <2>3, <2>4
  <2>6. w \in Mapped /\ map'[w] = map[w]
    BY <2>1, <2>2, <2>5 DEF Mapped
  <2>7. con'[map[w].entry] = con[map[w].entry]
    BY <2>1, <2>5, <2>6 DEF Mapped, Pointer
  <2>8. QED BY <1>1, <2>1, <2>2, <2>5, <2>6, <2>7 DEF SetOnline, Running
<1>2. ASSUME NEW u \in Uin, SetOnlineFull(u) PROVE OnlineHasAddress'
  BY <1>2, DieFrame DEF SetOnlineFull
<1>3. ASSUME NEW u \in Uin, SetOffline(u) PROVE OnlineHasAddress'
  <2>1. SUFFICES ASSUME NEW w \in Mapped', con'[map'[w].entry] = NoCon
                 PROVE  map'[w].entry \in free_list'
    OBVIOUS
  <2>2. w \in Mapped /\ w # u /\ map'[w] = map[w]
    BY <1>3, <2>1 DEF SetOffline, Mapped
  <2>3. CASE map[w].entry = map[u].entry
    BY <1>3, <2>2, <2>3 DEF SetOffline
  <2>4. CASE map[w].entry # map[u].entry
    <3>1. con'[map[w].entry] = con[map[w].entry]
      BY <1>3, <2>2, <2>4 DEF SetOffline, Mapped, Pointer
    <3>2. QED BY <1>3, <2>1, <2>2, <3>1 DEF SetOffline, Running
  <2>5. QED BY <2>3, <2>4
<1>4. ASSUME NEW u \in Uin, GetStatus(u) PROVE OnlineHasAddress'
  BY <1>4 DEF GetStatus, Mapped
<1>5. ASSUME NEW u \in Uin, FollowStale(u) PROVE OnlineHasAddress'
  BY <1>5 DEF FollowStale
<1>6. ASSUME NEW us \in Asked, GetMultiStatus(us) PROVE OnlineHasAddress'
  BY <1>6 DEF GetMultiStatus, Mapped
<1>7. ASSUME NEW us \in Asked, ReadOutside(us) PROVE OnlineHasAddress'
  BY <1>7, DieFrame DEF ReadOutside
<1>8. ASSUME Kill PROVE OnlineHasAddress'
  BY <1>8, DieFrame DEF Kill
<1>9. ASSUME NEW b \in Base, Restart(b) PROVE OnlineHasAddress'
  BY <1>9 DEF Restart, Mapped, Pointer
<1>10. CASE UNCHANGED vars
  BY <1>10 DEF vars, Mapped
<1>11. QED
  BY <1>1, <1>2, <1>3, <1>4, <1>5, <1>6, <1>7, <1>8, <1>9,
     <1>10 DEF Next

\* However often the server is restarted, and whatever was in the file: a user
\* shown online has the address of a connection server unless his entry was put
\* on the free list under him (set_status, status_list_init).
THEOREM AddressCorrect == Spec => []OnlineHasAddress
<1>1. QED BY AddressInit, AddressStep, TypeCorrect, PTL DEF Spec

-----------------------------------------------------------------------------
(* While no restart has found a user shown online, the server is the board. *)

\* What is in the file and, while the server runs, how the free list and the
\* pointers agree with it.
FreshInv ==
    /\ \A u, w \in Mapped : map[u].entry = map[w].entry => u = w
    /\ \A u \in Mapped : u \in Users /\ con[map[u].entry] \in Con
    /\ proc # "corrupt"
    /\ proc = "running" => /\ free_list = Entry \ InUse
                           /\ \A u \in Mapped : Valid(map[u])

\* The board counts its users as the server does.
LEMMA BoardCardinality ==
    \A S : Board!Cardinality(S) = Cardinality(S)
  BY DEF Board!Cardinality, Cardinality

LEMMA FreshInit == Init => FreshInv
  BY DEF Init, FreshInv, Mapped, InUse

\* No more users are shown online than there are entries, and as many only if
\* every entry is in use.
LEMMA MappedCardinality ==
    ASSUME TypeOK, FreshInv
    PROVE  /\ IsFiniteSet(Mapped)
           /\ Cardinality(Mapped) \in Nat /\ Cardinality(Entry) \in Nat
           /\ Cardinality(Mapped) <= Cardinality(Entry)
           /\ Cardinality(Mapped) = Cardinality(Entry) <=> InUse = Entry
<1> DEFINE f == [u \in Mapped |-> map[u].entry]
<1>1. f \in Injection(Mapped, Entry)
  <2>1. f \in [Mapped -> Entry]
    BY DEF TypeOK, Mapped, Pointer
  <2>2. \A u, w \in Mapped : f[u] = f[w] => u = w
    BY DEF FreshInv
  <2>3. QED BY <2>1, <2>2, Fun_IsInj
<1>2. f \in Surjection(Mapped, Entry) <=> InUse = Entry
  <2>1. f \in Surjection(Mapped, Entry)
          <=> \A e \in Entry : \E u \in Mapped : f[u] = e
    BY <1>1 DEF Surjection, Injection
  <2>2. InUse \subseteq Entry
    BY DEF TypeOK, InUse, Mapped, Pointer
  <2>3. (\A e \in Entry : \E u \in Mapped : f[u] = e) <=> Entry \subseteq InUse
    BY DEF InUse
  <2>4. QED BY <2>1, <2>2, <2>3
<1> HIDE DEF f
<1>3. /\ IsFiniteSet(Mapped)
      /\ Cardinality(Mapped) <= Cardinality(Entry)
      /\ Cardinality(Mapped) = Cardinality(Entry) <=> f \in Surjection(Mapped, Entry)
  BY <1>1, EntryAssumption, FS_Injection
<1>4. QED BY <1>2, <1>3, EntryAssumption, FS_CardinalityType

\* set_status takes an entry for a user who had none.
LEMMA OnlineFresh ==
    ASSUME TypeOK, FreshInv, NEW u \in Uin, NEW c \in Con, SetOnline(u, c)
    PROVE  FreshInv' /\ Board!GoOnline(u, c)
<1> USE DEF TypeOK
<1>1. PICK e \in free_list :
        /\ free_list' = free_list \ {e}
        /\ map' = [map EXCEPT ![u] = PointerTo(e)]
        /\ con' = [con EXCEPT ![e] = c]
  BY DEF SetOnline
<1>2. /\ proc = "running" /\ proc' = "running" /\ base' = base
      /\ u \in Users /\ u \notin Mapped
      /\ e \in Entry /\ e \notin InUse
  BY <1>1 DEF SetOnline, Running, FreshInv
<1>3. PointerTo(e) # NULL
  BY <1>2, NULLAssumption DEF PointerTo, Pointer
<1>4. /\ Mapped' = Mapped \cup {u}
      /\ map'[u] = PointerTo(e) /\ map'[u].entry = e /\ map'[u].at = base
      /\ \A w \in Mapped : map'[w] = map[w] /\ map[w].entry \in Entry
                           /\ map[w].entry # e
  BY <1>1, <1>2, <1>3 DEF Mapped, PointerTo, InUse, Pointer
<1>5. /\ con'[e] = c
      /\ \A w \in Mapped : con'[map[w].entry] = con[map[w].entry]
  BY <1>1, <1>2, <1>4
<1>6. FreshInv'
  <2>1. \A v, w \in Mapped' : map'[v].entry = map'[w].entry => v = w
    BY <1>4 DEF FreshInv
  <2>2. \A w \in Mapped' : w \in Users' /\ con'[map'[w].entry] \in Con
    BY <1>2, <1>4, <1>5 DEF FreshInv, Users
  <2>3. InUse' = InUse \cup {e}
    BY <1>4 DEF InUse
  <2>4. free_list' = Entry \ InUse'
    BY <1>1, <1>2, <2>3 DEF FreshInv
  <2>5. \A w \in Mapped' : Valid(map[w])' 
    BY <1>2, <1>4 DEF FreshInv, Valid
  <2>6. QED BY <1>2, <2>1, <2>2, <2>4, <2>5 DEF FreshInv, Valid
<1>7. \A w \in Uin : ConOf(w)' = IF w = u THEN c ELSE ConOf(w)
  BY <1>4, <1>5 DEF ConOf
<1>8. [w \in Uin |-> ConOf(w)]' = [[w \in Uin |-> ConOf(w)] EXCEPT ![u] = c]
  BY <1>7
<1>9. Board!Online = Mapped
  BY ConAssumption DEF Board!Online, ConOf, FreshInv, Mapped
<1>10. Board!Cardinality(Board!Online) < Cardinality(Entry)
  BY <1>2, <1>9, MappedCardinality, BoardCardinality
<1>11. Board!GoOnline(u, c)
  <2>1. u < MAX_USER /\ u \notin Board!Online
    BY <1>2, <1>9 DEF Users
  <2>2. reply' = [cmd |-> "REP_STATUS_CHANGED", uin |-> u]
    BY DEF SetOnline, Changed
  <2>3. QED BY <1>2, <1>8, <1>10, <2>1, <2>2 DEF Board!GoOnline
<1>12. QED BY <1>6, <1>11

\* set_status gives the entry of a user back.
LEMMA OfflineFresh ==
    ASSUME TypeOK, FreshInv, NEW u \in Uin, SetOffline(u)
    PROVE  FreshInv' /\ Board!GoOffline(u)
<1> DEFINE e == map[u].entry
<1> USE DEF TypeOK
<1>1. /\ u \in Mapped /\ e \in Entry /\ e \in InUse
      /\ proc = "running" /\ base' = base
  BY DEF SetOffline, Running, Mapped, Pointer, InUse
<1>2. e \notin free_list
  BY <1>1 DEF FreshInv
<1>3. /\ map' = [map EXCEPT ![u] = NULL]
      /\ con' = [con EXCEPT ![e] = NoCon]
      /\ free_list' = free_list \cup {e}
      /\ proc' = "running"
  BY <1>1, <1>2 DEF SetOffline
<1>4. /\ Mapped' = Mapped \ {u}
      /\ \A w \in Mapped' : map'[w] = map[w] /\ map[w].entry \in Entry
                            /\ map[w].entry # e
  BY <1>1, <1>3 DEF Mapped, Pointer, FreshInv
<1>5. \A w \in Mapped' : con'[map[w].entry] = con[map[w].entry]
  BY <1>3, <1>4
<1> HIDE DEF e
<1>6. FreshInv'
  <2>1. \A v, w \in Mapped' : map'[v].entry = map'[w].entry => v = w
    BY <1>4 DEF FreshInv
  <2>2. \A w \in Mapped' : w \in Users' /\ con'[map'[w].entry] \in Con
    BY <1>4, <1>5 DEF FreshInv, Users
  <2>3. InUse' = InUse \ {e}
    BY <1>1, <1>4 DEF InUse, e
  <2>4. free_list' = Entry \ InUse'
    BY <1>1, <1>3, <2>3 DEF FreshInv
  <2>5. \A w \in Mapped' : Valid(map[w])'
    BY <1>1, <1>4 DEF FreshInv, Valid
  <2>6. QED BY <1>3, <2>1, <2>2, <2>4, <2>5 DEF FreshInv, Valid
<1>7. \A w \in Uin : ConOf(w)' = IF w = u THEN NoCon ELSE ConOf(w)
  BY <1>4, <1>5 DEF ConOf
<1>8. [w \in Uin |-> ConOf(w)]' = [[w \in Uin |-> ConOf(w)] EXCEPT ![u] = NoCon]
  BY <1>7
<1>9. Board!Online = Mapped
  BY ConAssumption DEF Board!Online, ConOf, FreshInv, Mapped
<1>10. QED
  BY <1>1, <1>3, <1>6, <1>8, <1>9 DEF SetOffline, Board!GoOffline, Changed

\* A step that changes neither the file nor, if the server goes on running, the
\* free list.
LEMMA FreshFrame ==
    ASSUME FreshInv, UNCHANGED <<map, con>>,
           \/ UNCHANGED <<proc, base, free_list>>
           \/ proc' \in {"killed", "segv"}
    PROVE  /\ FreshInv'
           /\ [w \in Uin |-> ConOf(w)]' = [w \in Uin |-> ConOf(w)]
<1>1. Mapped' = Mapped /\ InUse' = InUse
  BY DEF Mapped, InUse
<1>2. (\A w \in Mapped : Valid(map[w])) /\ base' = base
        => \A w \in Mapped : Valid(map[w])'
  BY DEF Valid
<1>3. FreshInv'
  BY <1>1, <1>2 DEF FreshInv, Users, Valid
<1>4. \A w \in Uin : ConOf(w)' = ConOf(w)
  BY <1>1 DEF ConOf
<1>5. QED BY <1>3, <1>4

\* Every step but a restart that finds a user online keeps FreshInv, and is a
\* step of the board or changes nothing it shows.
LEMMA FreshStep ==
    ASSUME TypeOK, FreshInv, clean', [Next]_vars
    PROVE  FreshInv' /\ [Board!Next]_(Board!vars)
<1>0. Board!Online = Mapped
  BY ConAssumption DEF Board!Online, ConOf, FreshInv, Mapped
<1>1. ASSUME NEW u \in Uin, NEW c \in Con, SetOnline(u, c)
      PROVE  FreshInv' /\ Board!Next
  BY <1>1, OnlineFresh DEF Board!Next
<1>2. ASSUME NEW u \in Uin, SetOnlineFull(u)
      PROVE  FreshInv' /\ Board!Next
  <2>1. InUse = Entry
    <3>1. InUse \subseteq Entry
      BY DEF TypeOK, InUse, Mapped, Pointer
    <3>2. QED BY <1>2, <3>1 DEF SetOnlineFull, Running, FreshInv
  <2>2. UNCHANGED <<base, map, con, free_list, reply, clean>> /\ proc' = "segv"
    BY <1>2, DieFrame DEF SetOnlineFull
  <2>3. FreshInv' /\ [w \in Uin |-> ConOf(w)]' = [w \in Uin |-> ConOf(w)]
    BY <2>2, FreshFrame
  <2>4. Board!Overflow(u)
    <3>1. Board!Cardinality(Board!Online) = Cardinality(Entry)
      BY <1>0, <2>1, MappedCardinality, BoardCardinality
    <3>2. proc = "running" /\ u < MAX_USER /\ u \notin Board!Online
      BY <1>0, <1>2 DEF SetOnlineFull, Running, Users
    <3>3. QED BY <2>2, <2>3, <3>1, <3>2 DEF Board!Overflow
  <2>5. QED BY <2>3, <2>4 DEF Board!Next
<1>3. ASSUME NEW u \in Uin, SetOffline(u)
      PROVE  FreshInv' /\ Board!Next
  BY <1>3, OfflineFresh DEF Board!Next
<1>4. ASSUME NEW u \in Uin, GetStatus(u)
      PROVE  FreshInv' /\ Board!Next
  <2>1. FreshInv' /\ [w \in Uin |-> ConOf(w)]' = [w \in Uin |-> ConOf(w)]
    BY <1>4, FreshFrame DEF GetStatus
  <2>2. Board!Ask(u)
    BY <1>0, <1>4, <2>1 DEF GetStatus, Running, Users, Status, Board!Ask
  <2>3. QED BY <2>1, <2>2 DEF Board!Next
<1>5. ASSUME NEW u \in Uin, FollowStale(u)
      PROVE  FALSE
  BY <1>5 DEF FollowStale, Running, FreshInv
<1>6. ASSUME NEW us \in Asked, GetMultiStatus(us)
      PROVE  FreshInv' /\ Board!Next
  <2>1. FreshInv' /\ [w \in Uin |-> ConOf(w)]' = [w \in Uin |-> ConOf(w)]
    BY <1>6, FreshFrame DEF GetMultiStatus
  <2>2. PICK stat \in [us -> BOOLEAN] :
          /\ \A u \in us : stat[u] \in Readings(u)
          /\ reply' = MultiStatus(stat)
    BY <1>6 DEF GetMultiStatus
  <2>3. \A u \in us : u <= MAX_USER => (stat[u] <=> u \in Board!Online)
    BY <1>0, <2>2 DEF Readings
  <2>4. reply' = [cmd |-> "REP_MULTI_STATUS", stat |-> stat]
    BY <2>2 DEF MultiStatus
  <2>5. Board!AskMany(us)
    BY <1>6, <2>1, <2>3, <2>4 DEF GetMultiStatus, Running, Board!AskMany
  <2>6. QED BY <2>1, <2>5, AskedAssumption DEF Board!Next
<1>7. ASSUME NEW us \in Asked, ReadOutside(us)
      PROVE  FreshInv' /\ Board!Next
  <2>1. UNCHANGED <<base, map, con, free_list, reply, clean>> /\ proc' = "segv"
    BY <1>7, DieFrame DEF ReadOutside
  <2>2. FreshInv' /\ [w \in Uin |-> ConOf(w)]' = [w \in Uin |-> ConOf(w)]
    BY <2>1, FreshFrame
  <2>3. Board!AskBeyond(us)
    BY <1>7, <2>1, <2>2 DEF ReadOutside, Running, Board!AskBeyond
  <2>4. QED BY <2>2, <2>3, AskedAssumption DEF Board!Next
<1>8. ASSUME Kill
      PROVE  FreshInv' /\ Board!Next
  <2>1. UNCHANGED <<base, map, con, free_list, reply, clean>> /\ proc' = "killed"
    BY <1>8, DieFrame DEF Kill
  <2>2. FreshInv' /\ [w \in Uin |-> ConOf(w)]' = [w \in Uin |-> ConOf(w)]
    BY <2>1, FreshFrame
  <2>3. Board!Stop
    BY <1>8, <2>1, <2>2 DEF Kill, Running, Board!Stop
  <2>4. QED BY <2>2, <2>3 DEF Board!Next
<1>9. ASSUME NEW b \in Base, Restart(b)
      PROVE  FreshInv' /\ Board!Next
  <2>1. Mapped = {}
    BY <1>9 DEF Restart
  <2>2. Mapped' = {} /\ InUse' = {}
    BY <1>9, <2>1 DEF Restart, Mapped, InUse
  <2>3. FreshInv'
    BY <1>9, <2>2 DEF Restart, FreshInv
  <2>4. \A w \in Uin : ConOf(w)' = ConOf(w)
    BY <2>1, <2>2 DEF ConOf
  <2>5. Board!Restart
    BY <1>9, <2>4 DEF Restart, Board!Restart
  <2>6. QED BY <2>3, <2>5 DEF Board!Next
<1>10. CASE UNCHANGED vars
  <2>1. FreshInv' /\ [w \in Uin |-> ConOf(w)]' = [w \in Uin |-> ConOf(w)]
    BY <1>10, FreshFrame DEF vars
  <2>2. QED BY <1>10, <2>1 DEF vars, Board!vars
<1>11. QED
  BY <1>1, <1>2, <1>3, <1>4, <1>5, <1>6, <1>7, <1>8, <1>9,
     <1>10 DEF Next

CleanInv == clean => FreshInv

\* A restart that finds a user online is remembered for ever.
LEMMA CleanStays == [Next]_vars /\ clean' => clean
  BY DieFrame DEF Next, vars, SetOnline, SetOnlineFull, SetOffline, GetStatus,
                  FollowStale, GetMultiStatus, ReadOutside, Kill, Restart

LEMMA CleanStep ==
    TypeOK /\ CleanInv /\ [Next]_vars
      => CleanInv' /\ [clean' => Board!Next]_(Board!vars)
  BY CleanStays, FreshStep DEF CleanInv

\* While no restart has found a user shown online, the server neither loses an
\* entry nor gives one to two users (status_list_get, status_list_put).
THEOREM PartitionCorrect == Spec => []CleanPartition
<1>1. CleanInv => CleanPartition
  BY DEF CleanInv, CleanPartition, FreshInv, EntriesPartition
<1>2. Init => CleanInv
  BY FreshInit DEF CleanInv
<1>3. TypeOK /\ CleanInv /\ [Next]_vars => CleanInv'
  BY CleanStep
<1>4. QED BY <1>1, <1>2, <1>3, TypeCorrect, PTL DEF Spec

LEMMA BoardInit == Init => Board!Init
<1> SUFFICES ASSUME Init PROVE Board!Init
  OBVIOUS
<1>1. \A w \in Uin : ConOf(w) = NoCon
  BY DEF Init, ConOf, Mapped
<1>2. QED BY <1>1 DEF Init, Board!Init, NoReply, Board!NoReply

\* While no restart has found a user shown online, the server is the board it
\* promises to be: only a login on a full board kills it, and a question about
\* several users that names a user number get_multi_status has no pointer for.
THEOREM BoardCorrect == Spec => BoardSpec
<1>1. Init => CleanInv
  BY FreshInit DEF CleanInv
<1>2. QED
  BY <1>1, CleanStep, BoardInit, TypeCorrect, PTL DEF Spec, BoardSpec
=============================================================================
