------------------------- MODULE LibraryStoreProofs -------------------------
(* Proofs about LibraryStore, for any number of handlers and refreshes.     *)
EXTENDS LibraryStore, TLAPS

USE BoundsAssumption DEF Versions

\* Sending an event keeps the invalidation task's queue within the capacity.
LEMMA SendType ==
    ASSUME TypeOK, NEW e \in Versions, Send(e)
    PROVE  /\ events' \in Seq(Versions) /\ Len(events') <= Capacity
           /\ lagged' \in BOOLEAN
<1>1. CASE Len(events) < Capacity
  <2>1. events' = Append(events, e) /\ lagged' = lagged BY <1>1 DEF Send
  <2>2. Len(events') = Len(events) + 1 BY <2>1 DEF TypeOK
  <2>3. Len(events) \in Nat BY DEF TypeOK
  <2>4. QED BY <1>1, <2>1, <2>2, <2>3 DEF TypeOK
<1>2. CASE ~(Len(events) < Capacity)
  <2>1. Len(events) = Capacity /\ events # <<>> BY <1>2 DEF TypeOK
  <2>2. events' = Append(Tail(events), e) /\ lagged' = TRUE BY <1>2 DEF Send
  <2>3. Tail(events) \in Seq(Versions) /\ Len(Tail(events)) = Capacity - 1
    BY <2>1 DEF TypeOK
  <2>4. QED BY <2>2, <2>3
<1>3. QED BY <1>1, <1>2

\* Every variable stays in its range; the events a slow invalidation task has not
\* read never exceed the broadcast channel's capacity.
THEOREM TypeCorrect == Spec => []TypeOK
<1>0. NoEntry \in [version : Versions, state : {"none", "fresh", "expired"}]
  BY DEF NoEntry
<1>1. Init => TypeOK
  <2> SUFFICES ASSUME Init PROVE TypeOK
    OBVIOUS
  <2>1. /\ dbVersion \in Versions /\ fails \in 0..MaxFails
        /\ lastStored \in Versions
    BY DEF Init
  <2>2. /\ unannounced \in Seq(Versions)
        /\ events \in Seq(Versions) /\ Len(events) <= Capacity
    BY DEF Init
  <2>3. /\ pc \in [Tasks -> {"idle", "lock", "dump", "answered"}]
        /\ dumped \in [Tasks -> Versions]
    BY DEF Init
  <2>4. QED BY <1>0, <2>1, <2>2, <2>3 DEF Init, TypeOK
<1>2. TypeOK /\ [Next]_vars => TypeOK'
  <2> SUFFICES ASSUME TypeOK, [Next]_vars PROVE TypeOK'
    OBVIOUS
  <2>1. ASSUME NEW r \in Readers, GetExpired(r) PROVE TypeOK'
    BY <2>1 DEF GetExpired, TypeOK, changeVars, eventVars, Tasks
  <2>2. ASSUME NEW r \in Readers, GetMissing(r) PROVE TypeOK'
    BY <2>2 DEF GetMissing, TypeOK, changeVars, eventVars, Tasks
  <2>3. ASSUME NEW r \in Readers, Abandon(r) PROVE TypeOK'
    BY <2>3 DEF Abandon, Leave, TypeOK, changeVars, eventVars, Tasks
  <2>4. ASSUME NEW t \in Tasks, Lock(t) PROVE TypeOK'
    BY <2>4 DEF Lock, TypeOK, changeVars, eventVars
  <2>5. ASSUME NEW t \in Tasks, DumpAnswered(t) PROVE TypeOK'
    BY <2>5 DEF DumpAnswered, TypeOK, changeVars, eventVars
  <2>6. ASSUME NEW t \in Tasks, Store(t) PROVE TypeOK'
    BY <2>6 DEF Store, Leave, TypeOK, changeVars, eventVars
  <2>7. ASSUME NEW t \in Tasks, DumpFails(t) PROVE TypeOK'
    BY <2>7 DEF DumpFails, Leave, TypeOK, changeVars, eventVars
  <2>8. CASE Expire
    BY <2>8 DEF Expire, TypeOK, changeVars, eventVars, taskVars
  <2>9. CASE ClearCache
    BY <1>0, <2>9 DEF ClearCache, Invalidate, TypeOK, changeVars, eventVars, taskVars
  <2>10. CASE DbChange
    <3>1. dbVersion + 1 \in Versions /\ Append(unannounced, dbVersion + 1) \in Seq(Versions)
      BY <2>10 DEF DbChange, TypeOK
    <3>2. UNCHANGED <<events, lagged, task, data, taskVars, lastStored>>
      BY <2>10 DEF DbChange, eventVars
    <3>3. dbVersion' \in Versions /\ unannounced' \in Seq(Versions)
      BY <2>10, <3>1 DEF DbChange, TypeOK
    <3>4. QED BY <3>2, <3>3 DEF TypeOK, taskVars
  <2>11. CASE Announce
    <3>1. Head(unannounced) \in Versions /\ Tail(unannounced) \in Seq(Versions)
      BY <2>11 DEF Announce, TypeOK
    <3>2. Send(Head(unannounced)) BY <2>11 DEF Announce
    <3>3. /\ events' \in Seq(Versions) /\ Len(events') <= Capacity
          /\ lagged' \in BOOLEAN
      BY <3>1, <3>2, SendType
    <3>4. QED BY <2>11, <3>1, <3>3 DEF Announce, TypeOK, taskVars
  <2>12. CASE OtherEvent
    <3>1. /\ events' \in Seq(Versions) /\ Len(events') <= Capacity
          /\ lagged' \in BOOLEAN
      BY <2>12, SendType DEF OtherEvent
    <3>2. QED BY <2>12, <3>1 DEF OtherEvent, TypeOK, changeVars, taskVars
  <2>13. CASE HandleEvent
    <3>1. /\ Head(events) \in Versions /\ Tail(events) \in Seq(Versions)
          /\ Len(Tail(events)) <= Capacity
      BY <2>13 DEF HandleEvent, TypeOK
    <3>2. QED BY <1>0, <2>13, <3>1 DEF HandleEvent, Invalidate, TypeOK, changeVars, taskVars
  <2>14. CASE HandleLag
    BY <2>14 DEF HandleLag, TypeOK, changeVars, taskVars
  <2>15. CASE UNCHANGED vars
    BY <2>15 DEF TypeOK, vars, changeVars, eventVars, taskVars
  <2>16. QED
    BY <2>1, <2>2, <2>3, <2>4, <2>5, <2>6, <2>7, <2>8, <2>9, <2>10, <2>11, <2>12,
       <2>13, <2>14, <2>15 DEF Next, Get, Work
<1>3. QED BY <1>1, <1>2, PTL DEF Spec

-----------------------------------------------------------------------------
(* The inductive invariant.                                                *)

\* Steps outside the loading mutex can only age or drop the snapshot.
LEMMA OutsideInvariant ==
    ASSUME TypeOK, IInv, UNCHANGED taskVars, lastStored' = lastStored,
           dbVersion' \in Nat, dbVersion <= dbVersion', Fresh' => Fresh,
           Present' => Present /\ data'.version = data.version
    PROVE  IInv'
BY DEF TypeOK, IInv, SingleFlight, taskVars

\* A task that leaves, or was never inside, keeps the invariant.
LEMMA LeaveInvariant ==
    ASSUME TypeOK, IInv, NEW t \in Tasks, Leave(t), UNCHANGED dbVersion,
           UNCHANGED dumped,
           \/ UNCHANGED <<data, lastStored>>
           \/ pc[t] = "answered" /\ lastStored' = dumped[t] /\ data'.version = dumped[t]
    PROVE  IInv'
<1>1. loading \in Tasks \cup {Nobody} /\ Nobody \notin Tasks
  BY NobodyAssumption DEF TypeOK
<1>2. \A u \in Tasks : pc'[u] = IF u = t THEN "idle" ELSE pc[u]
  BY DEF Leave, TypeOK
<1>3. SingleFlight'
  BY <1>1, <1>2 DEF IInv, SingleFlight, Leave
<1>4. loading' # Nobody => loading' = loading /\ loading # t
  BY <1>1 DEF Leave
<1>5. pc[t] = "answered" => loading = t
  BY DEF IInv, SingleFlight
<1>6. loading' # Nobody => ~Fresh'
  BY <1>4, <1>5 DEF IInv, Fresh
<1>7. lastStored' <= dbVersion'
  BY DEF IInv
<1>8. \A u \in Tasks : pc'[u] = "answered" =>
          lastStored' <= dumped'[u] /\ dumped'[u] <= dbVersion'
  BY <1>2, <1>5 DEF IInv, SingleFlight
<1>9. Present' => data'.version = lastStored'
  BY DEF IInv, Present
<1>10. QED BY <1>3, <1>6, <1>7, <1>8, <1>9 DEF IInv

\* Every step keeps the invariant.
LEMMA NextInvariant == TypeOK /\ IInv /\ [Next]_vars => IInv'
<1> SUFFICES ASSUME TypeOK, IInv, [Next]_vars PROVE IInv'
  OBVIOUS
<1>0. Nobody \notin Tasks BY NobodyAssumption
<1>1. ASSUME NEW r \in Readers, Get(r) PROVE IInv'
  <2>1. PICK t \in Tasks : pc[t] = "idle" /\ pc' = [pc EXCEPT ![t] = "lock"]
    BY <1>1 DEF Get, GetExpired, GetMissing, Tasks
  <2>2. UNCHANGED <<dbVersion, data, loading, dumped, lastStored>>
    BY <1>1 DEF Get, GetExpired, GetMissing, changeVars
  <2>3. \A u \in Tasks : pc'[u] = IF u = t THEN "lock" ELSE pc[u]
    BY <2>1 DEF TypeOK
  <2>4. QED BY <2>1, <2>2, <2>3 DEF IInv, SingleFlight, Fresh, Present
<1>2. ASSUME NEW r \in Readers, Abandon(r) PROVE IInv'
  BY <1>2, LeaveInvariant DEF Abandon, changeVars, Tasks
<1>3. ASSUME NEW t \in Tasks, Lock(t) PROVE IInv'
  <2>1. UNCHANGED <<dbVersion, data, dumped, lastStored>> /\ pc[t] = "lock" /\ loading = Nobody
    BY <1>3 DEF Lock, changeVars
  <2>2. CASE Satisfied(t)
    <3>1. \A u \in Tasks : pc'[u] = IF u = t THEN "idle" ELSE pc[u]
      BY <1>3, <2>2 DEF Lock, TypeOK
    <3>2. loading' = loading BY <1>3, <2>2 DEF Lock
    <3>3. QED BY <2>1, <3>1, <3>2, <1>0 DEF IInv, SingleFlight, Fresh, Present
  <2>3. CASE ~Satisfied(t)
    <3>1. \A u \in Tasks : pc'[u] = IF u = t THEN "dump" ELSE pc[u]
      BY <1>3, <2>3 DEF Lock, TypeOK
    <3>2. loading' = t BY <1>3, <2>3 DEF Lock
    <3>3. ~Fresh BY <2>3 DEF Satisfied, Fresh, Present
    <3>4. QED BY <2>1, <3>1, <3>2, <3>3, <1>0 DEF IInv, SingleFlight, Fresh, Present
  <2>4. QED BY <2>2, <2>3
<1>4. ASSUME NEW t \in Tasks, DumpAnswered(t) PROVE IInv'
  <2>1. UNCHANGED <<dbVersion, data, loading, lastStored>> /\ pc[t] = "dump"
    BY <1>4 DEF DumpAnswered, changeVars
  <2>2. \A u \in Tasks : /\ pc'[u] = IF u = t THEN "answered" ELSE pc[u]
                         /\ dumped'[u] = IF u = t THEN dbVersion ELSE dumped[u]
    BY <1>4 DEF DumpAnswered, TypeOK
  <2>3. SingleFlight' /\ (loading' # Nobody => ~Fresh') /\ lastStored' <= dbVersion'
    BY <2>1, <2>2 DEF IInv, SingleFlight, Fresh, Present
  <2>4. dbVersion \in Nat BY DEF TypeOK
  <2>5. \A u \in Tasks : pc'[u] = "answered" =>
            lastStored' <= dumped'[u] /\ dumped'[u] <= dbVersion'
    BY <2>1, <2>2, <2>4 DEF IInv
  <2>6. QED BY <2>1, <2>3, <2>5 DEF IInv, Present
<1>5. ASSUME NEW t \in Tasks, Store(t) PROVE IInv'
  BY <1>5, LeaveInvariant DEF Store, changeVars
<1>6. ASSUME NEW t \in Tasks, DumpFails(t) PROVE IInv'
  BY <1>6, LeaveInvariant DEF DumpFails, changeVars
<1>7. CASE \/ Expire \/ ClearCache \/ DbChange \/ Announce \/ OtherEvent
           \/ HandleEvent \/ HandleLag \/ UNCHANGED vars
  <2>1. UNCHANGED <<taskVars, lastStored>>
    BY <1>7 DEF Expire, ClearCache, DbChange, Announce, OtherEvent, HandleEvent,
                HandleLag, vars
  <2>2. dbVersion' \in Nat /\ dbVersion <= dbVersion'
    BY <1>7 DEF Expire, ClearCache, DbChange, Announce, OtherEvent, HandleEvent,
                HandleLag, vars, changeVars, TypeOK
  <2>3. Fresh' => Fresh
    BY <1>7 DEF Expire, ClearCache, DbChange, Announce, OtherEvent, HandleEvent,
                HandleLag, Invalidate, NoEntry, Fresh, vars, TypeOK
  <2>4. Present' => Present /\ data'.version = data.version
    BY <1>7 DEF Expire, ClearCache, DbChange, Announce, OtherEvent, HandleEvent,
                HandleLag, Invalidate, NoEntry, Fresh, Present, vars, TypeOK
  <2>5. QED BY <2>1, <2>2, <2>3, <2>4, OutsideInvariant
<1>8. QED BY <1>1, <1>2, <1>3, <1>4, <1>5, <1>6, <1>7 DEF Next, Work

\* The inductive invariant holds in every reachable state.
THEOREM Invariance == Spec => []IInv
<1>1. Init => IInv
  BY NobodyAssumption DEF Init, IInv, SingleFlight, Fresh, Present, NoEntry
<1>2. QED BY <1>1, NextInvariant, TypeCorrect, PTL DEF Spec

-----------------------------------------------------------------------------
(* The theorems.                                                           *)

\* One dump at a time, and a guard that is always given back.
THEOREM SingleFlighted == Spec => []SingleFlight
<1>1. IInv => SingleFlight BY DEF IInv
<1>2. QED BY <1>1, Invariance, PTL

\* A fresh snapshot is never replaced by another dump.
THEOREM DumpedOncePerWindow == Spec => OncePerWindow
<1>1. TypeOK /\ IInv /\ [Next]_vars => [Fresh /\ data' # data => data'.state # "fresh"]_vars
  <2> SUFFICES ASSUME TypeOK, IInv, Next, Fresh, data' # data PROVE data'.state # "fresh"
    OBVIOUS
  <2>1. ASSUME NEW t \in Tasks, Store(t) PROVE FALSE
    BY <2>1, NobodyAssumption DEF Store, IInv, SingleFlight
  <2>2. Expire \/ ClearCache \/ HandleEvent
    BY <2>1 DEF Next, Get, GetExpired, GetMissing, Abandon, Work, Lock, DumpAnswered,
                DumpFails, DbChange, Announce, OtherEvent, HandleLag
  <2>3. QED
    BY <2>2 DEF Expire, ClearCache, HandleEvent, Invalidate, NoEntry, TypeOK
<1>2. QED BY <1>1, TypeCorrect, Invariance, PTL DEF Spec, OncePerWindow

\* No dump overwrites the result of a more recent one.
THEOREM SnapshotNeverGoesBack == Spec => NeverGoesBack
<1>1. TypeOK /\ IInv /\ [Next]_vars =>
        [data'.state # "none" /\ data' # data => data'.version >= lastStored]_vars
  <2> SUFFICES ASSUME TypeOK, IInv, Next, data' # data, data'.state # "none"
               PROVE  data'.version >= lastStored
    OBVIOUS
  <2>1. lastStored \in Nat /\ \A t \in Tasks : dumped[t] \in Nat
    BY DEF TypeOK
  <2>2. CASE Expire
    <3>1. data'.version = data.version /\ Present
      BY <2>2 DEF Expire, Fresh, Present, TypeOK
    <3>2. QED BY <2>1, <3>1 DEF IInv
  <2>3. ASSUME NEW t \in Tasks, Store(t) PROVE data'.version >= lastStored
    <3>1. data'.version = dumped[t] /\ pc[t] = "answered"
      BY <2>3 DEF Store
    <3>2. QED BY <2>1, <3>1 DEF IInv
  <2>4. ~(ClearCache \/ HandleEvent)
    BY DEF ClearCache, HandleEvent, Invalidate, NoEntry
  <2>5. QED
    BY <2>2, <2>3, <2>4 DEF Next, Get, GetExpired, GetMissing, Abandon, Work, Lock,
       DumpAnswered, DumpFails, DbChange, Announce, OtherEvent, HandleLag
<1>2. QED BY <1>1, TypeCorrect, Invariance, PTL DEF Spec, NeverGoesBack
=============================================================================
