------------------------- MODULE StatusStreamProofs -------------------------
(* Proofs about StatusStream, for any handlers, WebSockets, changes and losses. *)
EXTENDS StatusStream, TLAPS

-----------------------------------------------------------------------------
(* Names and data.                                                         *)

\* The tasks that fetch are told apart.
LEMMA Names ==
    /\ "idle" \in Fetchers /\ "session" \in Fetchers /\ "idle" # "session"
    /\ Publishers \subseteq Fetchers /\ Subscribers \subseteq Fetchers
    /\ \A f \in Handlers \cup Subscribers : f \in Fetchers /\ f # "idle" /\ f # "session"
    /\ \A f \in Publishers : f \notin Subscribers
BY FetchersAssumption DEF Fetchers, Publishers

LEMMA SnapshotType ==
    /\ \A v \in Parts : At(v) \in Snapshots /\ At(v).status = v /\ At(v).song = v
    /\ \A x \in Snapshots : x.status \in Parts /\ x.song \in Parts
    /\ \A x \in Snapshots, v \in Parts :
          /\ /\ [x EXCEPT !.status = v] \in Snapshots
             /\ [x EXCEPT !.status = v].status = v
          /\ /\ [x EXCEPT !.song = v] \in Snapshots
             /\ [x EXCEPT !.song = v].song = v /\ [x EXCEPT !.song = v].status = x.status
    /\ 0 \in Versions /\ Versions \subseteq Nat /\ Versions \subseteq Parts /\ Refused \in Parts
    /\ Parts \subseteq Int
BY BoundsAssumption DEF Snapshots, At, Versions, Parts, Refused

\* What a read is taken to have answered; a socket's and a handler's is MPD's state.
LEMMA AnsweredEffect ==
    ASSUME TypeOK, NEW f, NEW v \in {player, Refused}, Answered(f, v)
    PROVE  /\ v \in Parts /\ faults' \in 0..MaxFaults
           /\ f \notin {"idle", "session"} => v = player
<1>1. v \in Parts
  BY SnapshotType DEF TypeOK
<1>2. faults' \in 0..MaxFaults
  BY BoundsAssumption DEF TypeOK, Answered
<1>3. QED BY <1>1, <1>2 DEF Answered

\* The two reads of a fetch, and its end.
LEMMA ReadStatusEffect ==
    ASSUME TypeOK, NEW f \in Fetchers, ReadStatus(f)
    PROVE  /\ pc' \in [Fetchers -> {"off", "status", "song", "ready"}]
           /\ snap' \in [Fetchers -> Snapshots] /\ faults' \in 0..MaxFaults
           /\ pc'[f] = "song" /\ snap'[f].status \in {player, Refused}
           /\ f \notin {"idle", "session"} => snap'[f].status = player
           /\ \A g \in Fetchers \ {f} : pc'[g] = pc[g] /\ snap'[g] = snap[g]
<1>1. PICK v \in {player, Refused} :
         Answered(f, v) /\ snap' = [snap EXCEPT ![f] = [snap[f] EXCEPT !.status = v]]
  BY DEF ReadStatus
<1> DEFINE x == [snap[f] EXCEPT !.status = v]
<1>2. snap' = [snap EXCEPT ![f] = x] /\ pc' = [pc EXCEPT ![f] = "song"]
  BY <1>1 DEF ReadStatus
<1>3. /\ v \in Parts /\ faults' \in 0..MaxFaults
      /\ f \notin {"idle", "session"} => v = player
  BY <1>1, AnsweredEffect
<1>4. x \in Snapshots /\ x.status = v
  BY <1>3, SnapshotType DEF TypeOK
<1> HIDE DEF x
<1>5. QED BY <1>2, <1>3, <1>4 DEF TypeOK

LEMMA ReadSongEffect ==
    ASSUME TypeOK, NEW f \in Fetchers, ReadSong(f)
    PROVE  /\ pc' \in [Fetchers -> {"off", "status", "song", "ready"}]
           /\ snap' \in [Fetchers -> Snapshots] /\ faults' \in 0..MaxFaults
           /\ pc'[f] = "ready" /\ snap'[f].song \in {player, Refused}
           /\ f \notin {"idle", "session"} => snap'[f].song = player
           /\ snap'[f].status = snap[f].status
           /\ \A g \in Fetchers \ {f} : pc'[g] = pc[g] /\ snap'[g] = snap[g]
<1>1. PICK v \in {player, Refused} :
         Answered(f, v) /\ snap' = [snap EXCEPT ![f] = [snap[f] EXCEPT !.song = v]]
  BY DEF ReadSong
<1> DEFINE x == [snap[f] EXCEPT !.song = v]
<1>2. snap' = [snap EXCEPT ![f] = x] /\ pc' = [pc EXCEPT ![f] = "ready"]
  BY <1>1 DEF ReadSong
<1>3. /\ v \in Parts /\ faults' \in 0..MaxFaults
      /\ f \notin {"idle", "session"} => v = player
  BY <1>1, AnsweredEffect
<1>4. x \in Snapshots /\ x.song = v /\ x.status = snap[f].status
  BY <1>3, SnapshotType DEF TypeOK
<1> HIDE DEF x
<1>5. QED BY <1>2, <1>3, <1>4 DEF TypeOK

LEMMA OverEffect ==
    ASSUME TypeOK, NEW f \in Fetchers, Over(f)
    PROVE  /\ pc' \in [Fetchers -> {"off", "status", "song", "ready"}]
           /\ snap' \in [Fetchers -> Snapshots]
           /\ pc'[f] = "off"
           /\ \A g \in Fetchers \ {f} : pc'[g] = pc[g] /\ snap'[g] = snap[g]
BY SnapshotType DEF Over, TypeOK

LEMMA CommandLostEffect ==
    ASSUME TypeOK, CommandLost
    PROVE  /\ pc' \in [Fetchers -> {"off", "status", "song", "ready"}]
           /\ snap' \in [Fetchers -> Snapshots]
           /\ pc'["session"] = "status"
           /\ \/ pc'["idle"] = "off"
              \/ pc'["idle"] = pc["idle"] /\ snap'["idle"] = snap["idle"]
           /\ player' = player /\ UNCHANGED <<idle, lines, flagged, watch>>
           /\ \A s \in Subscribers : pc'[s] = pc[s] /\ snap'[s] = snap[s]
           /\ pc["idle"] = "off" => pc'["idle"] = "off"
<1>1. PICK failed \in Publishers :
          /\ pc' = [pc EXCEPT ![failed] = "off", !["session"] = "status"]
          /\ snap' = [snap EXCEPT ![failed] = At(0), !["session"] = At(0)]
  BY DEF CommandLost
<1>2. failed \in Fetchers /\ failed \notin Subscribers
  BY Names
<1>3. At(0) \in Snapshots
  BY SnapshotType
<1>4. /\ pc' \in [Fetchers -> {"off", "status", "song", "ready"}]
      /\ snap' \in [Fetchers -> Snapshots]
  BY <1>1, <1>2, <1>3, Names DEF TypeOK
<1>5. /\ pc'["session"] = "status"
      /\ \/ pc'["idle"] = "off"
         \/ pc'["idle"] = pc["idle"] /\ snap'["idle"] = snap["idle"]
      /\ pc["idle"] = "off" => pc'["idle"] = "off"
  BY <1>1, <1>2, Names DEF TypeOK
<1>6. \A s \in Subscribers : pc'[s] = pc[s] /\ snap'[s] = snap[s]
  BY <1>1, <1>2, Names DEF TypeOK
<1>7. QED BY <1>4, <1>5, <1>6 DEF CommandLost, idleVars

-----------------------------------------------------------------------------
(* Types.                                                                  *)

LEMMA DeliverType ==
    ASSUME TypeOK, NEW x \in Snapshots, Deliver(x)
    PROVE  /\ inbox' \in [Subscribers -> Seq(Snapshots)]
           /\ \A s \in Subscribers : Len(inbox'[s]) <= Capacity
<1>1. ASSUME NEW s \in Subscribers
      PROVE  inbox'[s] \in Seq(Snapshots) /\ Len(inbox'[s]) <= Capacity
  <2>1. inbox[s] \in Seq(Snapshots) /\ Len(inbox[s]) <= Capacity /\ Len(inbox[s]) \in Nat
    BY DEF TypeOK
  <2>2. CASE inbox'[s] = inbox[s]
    BY <2>1, <2>2
  <2>3. CASE inbox'[s] = Append(inbox[s], x) /\ Len(inbox[s]) < Capacity
    BY <2>1, <2>3, BoundsAssumption
  <2>4. CASE inbox'[s] = Append(Tail(inbox[s]), x) /\ ~(Len(inbox[s]) < Capacity)
    <3>1. inbox[s] # <<>>
      BY <2>1, <2>4, BoundsAssumption
    <3>2. Tail(inbox[s]) \in Seq(Snapshots) /\ Len(Tail(inbox[s])) = Len(inbox[s]) - 1
      BY <2>1, <3>1
    <3>3. QED BY <2>1, <2>4, <3>2
  <2>5. QED BY <2>2, <2>3, <2>4 DEF Deliver
<1>2. inbox' \in [Subscribers -> Seq(Snapshots)]
  <2>1. DOMAIN inbox' = Subscribers /\ inbox' = [s \in Subscribers |-> inbox'[s]]
    BY DEF Deliver
  <2>2. QED BY <1>1, <2>1
<1>3. QED BY <1>1, <1>2

LEMMA ChangeType ==
    ASSUME TypeOK, Change
    PROVE  /\ player' = player + 1 /\ player' \in Versions
           /\ idle' \in {"down", "armed", "batch", "cut"} /\ lines' \in 0..MaxLines
           /\ flagged' \in BOOLEAN
<1>1. player' = player + 1 /\ player' \in Versions
  BY BoundsAssumption DEF TypeOK, Change, Versions
<1>2. idle' \in {"down", "armed", "batch", "cut"} /\ lines' \in 0..MaxLines
  BY BoundsAssumption DEF TypeOK, Change
<1>3. flagged' \in BOOLEAN
  BY Zenon DEF TypeOK, Change
<1>4. QED BY <1>1, <1>2, <1>3

\* The history: whether MPD's state will be cached, and what becomes of it.
LEMMA NotedType == ASSUME Noted PROVE uncached' \in BOOLEAN /\ news' \in {"shown", "coming", "lost"}
BY DEF Noted

LEMMA DroppedType ==
    ASSUME TypeOK, Dropped
    PROVE  news' \in {"shown", "coming", "lost"}
BY DEF Dropped, TypeOK

LEMMA ShowType ==
    ASSUME TypeOK, NEW s \in Subscribers, NEW x \in Snapshots, Show(s, x)
    PROVE  live' \in [Subscribers -> BOOLEAN] /\ shown' \in [Subscribers -> Snapshots]
BY DEF TypeOK, Show

LEMMA NextType == TypeOK /\ [Next]_vars => TypeOK'
<1> SUFFICES ASSUME TypeOK, [Next]_vars PROVE TypeOK'
  OBVIOUS
<1> USE DEF idleVars, fetchVars, subVars
<1>1. CASE OtherChange
  BY <1>1, ChangeType, NotedType DEF OtherChange, TypeOK
<1>2. CASE CommandLost
  <2>1. faults' \in 0..MaxFaults
    BY <1>2, BoundsAssumption DEF CommandLost, TypeOK
  <2>2. uncached' \in BOOLEAN
    BY <1>2, Zenon DEF CommandLost, TypeOK
  <2>3. news' \in {"shown", "coming", "lost"}
    BY <1>2 DEF CommandLost, TypeOK
  <2>4. QED BY <1>2, <2>1, <2>2, <2>3, CommandLostEffect DEF CommandLost, TypeOK
<1>3. ASSUME NEW h \in Handlers, Mutate(h) PROVE TypeOK'
  <2>1. pc' \in [Fetchers -> {"off", "status", "song", "ready"}]
    BY <1>3, Names DEF Mutate, TypeOK
  <2>2. QED BY <1>3, <2>1, ChangeType, NotedType DEF Mutate, TypeOK
<1>4. ASSUME NEW h \in Handlers, RefreshFails(h) PROVE TypeOK'
  <2>1. faults' \in 0..MaxFaults
    BY <1>4, BoundsAssumption DEF RefreshFails, TypeOK
  <2>2. QED BY <1>4, <2>1, Names, OverEffect, DroppedType DEF RefreshFails, TypeOK
<1>5. ASSUME NEW f \in Fetchers, Fetch(f) PROVE TypeOK'
  <2>1. CASE ReadStatus(f)
    BY <2>1, ReadStatusEffect DEF ReadStatus, TypeOK
  <2>2. CASE ReadSong(f)
    BY <2>2, ReadSongEffect DEF ReadSong, TypeOK
  <2>3. QED BY <1>5, <2>1, <2>2 DEF Fetch
<1>6. ASSUME NEW f \in Publishers, Publish(f) PROVE TypeOK'
  <2>1. f \in Fetchers /\ snap[f] \in Snapshots
    BY Names DEF TypeOK
  <2>2. watch' \in Snapshots /\ news' \in {"shown", "coming", "lost"}
    BY <1>6, <2>1 DEF Publish, TypeOK
  <2>3. QED BY <1>6, <2>1, <2>2, OverEffect, DeliverType DEF Publish, TypeOK
<1>7. CASE IdleConnect
  BY <1>7 DEF IdleConnect, TypeOK
<1>8. CASE HandleLine
  <2>1. pc' \in [Fetchers -> {"off", "status", "song", "ready"}]
    BY <1>8, Names DEF HandleLine, TypeOK
  <2>2. lines' \in 0..MaxLines
    BY <1>8, BoundsAssumption DEF HandleLine, TypeOK
  <2>3. QED BY <1>8, <2>1, <2>2 DEF HandleLine, TypeOK
<1>9. CASE Rearm
  <2>1. idle' \in {"down", "armed", "batch", "cut"} /\ lines' \in 0..MaxLines
    BY <1>9, BoundsAssumption DEF Rearm, TypeOK
  <2>2. flagged' \in BOOLEAN
    BY <1>9, Zenon DEF Rearm, TypeOK
  <2>3. QED BY <1>9, <2>1, <2>2 DEF Rearm, TypeOK
<1>10. CASE IdleLost
  <2>1. faults' \in 0..MaxFaults /\ lines' \in 0..MaxLines
    BY <1>10, BoundsAssumption DEF IdleLost, TypeOK
  <2>2. uncached' \in BOOLEAN
    BY <1>10, Zenon DEF IdleLost, TypeOK
  <2>3. QED BY <1>10, <2>1, <2>2, DroppedType DEF IdleLost, TypeOK
<1>11. ASSUME NEW s \in Subscribers, Socket(s) PROVE TypeOK'
  <2>0. s \in Fetchers /\ snap[s] \in Snapshots /\ watch \in Snapshots
    BY Names DEF TypeOK
  <2>1. CASE Subscribe(s)
    BY <2>0, <2>1 DEF Subscribe, TypeOK
  <2>2. CASE ShowFirst(s)
    BY <2>0, <2>2, ShowType, OverEffect DEF ShowFirst, TypeOK
  <2>3. CASE FallBack(s)
    <3>1. faults' \in 0..MaxFaults
      BY <2>3, BoundsAssumption DEF FallBack, TypeOK
    <3>2. news' \in {"shown", "coming", "lost"}
      BY <2>3 DEF FallBack, TypeOK
    <3>3. QED BY <2>0, <2>3, <3>1, <3>2, ShowType, OverEffect DEF FallBack, TypeOK
  <2>4. CASE ShowEvent(s)
    <3>1. /\ inbox[s] \in Seq(Snapshots) /\ inbox[s] # <<>> /\ Len(inbox[s]) <= Capacity
          /\ inbox' = [inbox EXCEPT ![s] = Tail(@)]
      BY <2>4 DEF ShowEvent, TypeOK
    <3>2. /\ Head(inbox[s]) \in Snapshots /\ Tail(inbox[s]) \in Seq(Snapshots)
          /\ Len(Tail(inbox[s])) <= Capacity
      BY <3>1, BoundsAssumption
    <3>3. /\ inbox' \in [Subscribers -> Seq(Snapshots)]
          /\ \A w \in Subscribers : Len(inbox'[w]) <= Capacity
      BY <3>1, <3>2 DEF TypeOK
    <3>4. QED BY <2>4, <3>2, <3>3, ShowType DEF ShowEvent, TypeOK
  <2>5. CASE Leave(s)
    <3>1. shown' \in [Subscribers -> Snapshots] /\ floor' \in [Subscribers -> Versions]
      BY <2>5, SnapshotType DEF Leave, TypeOK
    <3>2. /\ inbox' \in [Subscribers -> Seq(Snapshots)]
          /\ \A w \in Subscribers : Len(inbox'[w]) <= Capacity
      <4>1. <<>> \in Seq(Snapshots) /\ Len(<<>>) <= Capacity
        BY BoundsAssumption
      <4>2. QED BY <2>5, <4>1 DEF Leave, TypeOK
    <3>3. QED BY <2>5, <3>1, <3>2 DEF Leave, TypeOK
  <2>6. QED BY <1>11, <2>1, <2>2, <2>3, <2>4, <2>5 DEF Socket
<1>12. CASE UNCHANGED vars
  BY <1>12 DEF vars, TypeOK
<1>13. QED
  BY <1>1, <1>2, <1>3, <1>4, <1>5, <1>6, <1>7, <1>8, <1>9, <1>10, <1>11, <1>12 DEF Next

\* Every variable stays in its range; in particular no WebSocket's receiver ever holds
\* more than the broadcast channel's capacity.
THEOREM TypeCorrect == Spec => []TypeOK
<1>1. Init => TypeOK
  <2> SUFFICES ASSUME Init PROVE TypeOK
    OBVIOUS
  <2>1. player \in Versions /\ lines \in 0..MaxLines /\ faults \in 0..MaxFaults
    BY BoundsAssumption DEF Init, Versions
  <2>2. At(0) \in Snapshots /\ 0 \in Versions
    BY SnapshotType
  <2>3. /\ inbox \in [Subscribers -> Seq(Snapshots)]
        /\ \A s \in Subscribers : Len(inbox[s]) <= Capacity
    <3>1. <<>> \in Seq(Snapshots) /\ Len(<<>>) <= Capacity
      BY BoundsAssumption
    <3>2. QED BY <3>1 DEF Init
  <2>4. pc \in [Fetchers -> {"off", "status", "song", "ready"}]
    BY DEF Init
  <2>5. QED BY <2>1, <2>2, <2>3, <2>4 DEF Init, TypeOK
<1>2. QED BY <1>1, NextType, PTL DEF Spec

-----------------------------------------------------------------------------
(* The cache.                                                              *)

\* A read keeps what has been read current.
LEMMA ReadKeepsCurrent ==
    ASSUME TypeOK, NEW f \in Fetchers, Fetch(f)
    PROVE  /\ Reads(f) => Reads(f)'
           /\ pc[f] # "off" /\ pc'[f] # "off" /\ player' = player
           /\ UNCHANGED <<idle, lines, flagged, watch, uncached>>
           /\ \A g \in Fetchers \ {f} : pc'[g] = pc[g] /\ snap'[g] = snap[g]
<1>1. CASE ReadStatus(f)
  <2>1. Reads(f)' /\ pc[f] = "status" /\ pc'[f] = "song" /\ player' = player
    BY <1>1, ReadStatusEffect DEF Reads, ReadStatus
  <2>2. QED BY <1>1, <2>1, ReadStatusEffect DEF ReadStatus, idleVars
<1>2. CASE ReadSong(f)
  <2>1. /\ pc[f] = "song" /\ pc'[f] = "ready" /\ player' = player
        /\ snap'[f].song \in {player, Refused} /\ snap'[f].status = snap[f].status
    BY <1>2, ReadSongEffect DEF ReadSong
  <2>2. Reads(f) => Reads(f)'
    BY <2>1 DEF Reads, Fits
  <2>3. QED BY <1>2, <2>1, <2>2, ReadSongEffect DEF ReadSong, idleVars
<1>3. QED BY <1>1, <1>2 DEF Fetch

\* Whether a task reads MPD's state rests on its own fetch alone.
LEMMA ReadsAlone ==
    ASSUME player' = player, NEW f, pc'[f] = pc[f], snap'[f] = snap[f]
    PROVE  Reads(f)' <=> Reads(f)
BY DEF Reads, Fits

\* A step that touches neither the two tasks that feed the cache nor what there is to
\* be announced.
LEMMA FrameCache ==
    ASSUME CacheInv, UNCHANGED <<player, idle, lines, flagged, watch, uncached>>,
           \A f \in {"idle", "session"} : pc'[f] = pc[f] /\ snap'[f] = snap[f]
    PROVE  CacheInv'
<1>1. (Reads("idle")' <=> Reads("idle")) /\ (Reads("session")' <=> Reads("session"))
  BY ReadsAlone
<1>2. ForCache' <=> ForCache
  BY <1>1 DEF ForCache
<1>3. Fits(watch)' <=> Fits(watch)
  BY DEF Fits
<1>4. QED BY <1>2, <1>3 DEF CacheInv

\* A change is to be read for the cache, or noted as one that is not.
LEMMA ChangeCache ==
    ASSUME TypeOK, CacheInv, Change, Noted, pc'["idle"] = pc["idle"]
    PROVE  CacheInv'
<1>1. /\ idle' \in {"down", "armed"} => lines' = 0 /\ pc'["idle"] = "off" /\ ~flagged'
      /\ idle' = "cut" => ~flagged'
  <2>1. CASE idle = "armed"
    BY <2>1 DEF CacheInv, Change, TypeOK
  <2>2. CASE idle # "armed"
    BY <2>2, Zenon DEF CacheInv, Change
  <2>3. QED BY <2>1, <2>2
<1>2. uncached' \/ ForCache'
  BY DEF Noted
<1>3. QED BY <1>1, <1>2 DEF CacheInv

LEMMA NextCache == TypeOK /\ CacheInv /\ [Next]_vars => CacheInv'
<1> SUFFICES ASSUME TypeOK, CacheInv, [Next]_vars PROVE CacheInv'
  OBVIOUS
<1> USE DEF idleVars, fetchVars, subVars
<1>1. CASE OtherChange
  BY <1>1, ChangeCache DEF OtherChange
<1>2. CASE CommandLost
  <2>1. UNCHANGED <<player, idle, lines, flagged, watch>>
    BY <1>2, CommandLostEffect
  <2>2. /\ pc'["session"] = "status" /\ Reads("session")'
        /\ \/ pc'["idle"] = "off"
           \/ pc'["idle"] = pc["idle"] /\ snap'["idle"] = snap["idle"]
        /\ pc["idle"] = "off" => pc'["idle"] = "off"
    BY <1>2, CommandLostEffect DEF Reads
  <2>3. uncached' = (uncached /\ ~ForCache')
    BY <1>2 DEF CommandLost
  <2>4. uncached' \/ ForCache'
    <3>1. CASE uncached
      BY <2>3, <3>1
    <3>2. CASE ForCache
      <4>1. CASE flagged \/ lines > 0
        BY <2>1, <4>1 DEF ForCache
      <4>2. CASE pc'["idle"] = "off"
        BY <2>2, <4>2 DEF ForCache
      <4>3. CASE ~(flagged \/ lines > 0) /\ pc'["idle"] # "off"
        <5>1. Reads("idle") /\ (Reads("idle")' <=> Reads("idle"))
          BY <2>1, <2>2, <3>2, <4>3, ReadsAlone DEF ForCache
        <5>2. QED BY <2>2, <4>3, <5>1 DEF ForCache
      <4>4. QED BY <4>1, <4>2, <4>3
    <3>3. CASE pc["idle"] = "off"
      BY <2>2, <3>3 DEF ForCache
    <3>4. QED BY <3>1, <3>2, <3>3 DEF CacheInv
  <2>5. QED BY <2>1, <2>2, <2>4 DEF CacheInv
<1>3. ASSUME NEW h \in Handlers, Mutate(h) PROVE CacheInv'
  <2>1. pc'["idle"] = pc["idle"]
    BY <1>3, Names DEF Mutate, TypeOK
  <2>2. QED BY <1>3, <2>1, ChangeCache DEF Mutate
<1>4. ASSUME NEW h \in Handlers, RefreshFails(h) PROVE CacheInv'
  <2>1. \A f \in {"idle", "session"} : pc'[f] = pc[f] /\ snap'[f] = snap[f]
    BY <1>4, Names, OverEffect DEF RefreshFails
  <2>2. QED BY <1>4, <2>1, FrameCache DEF RefreshFails
<1>5. ASSUME NEW f \in Fetchers, Fetch(f) PROVE CacheInv'
  <2>1. UNCHANGED <<player, idle, lines, flagged, watch, uncached>>
    BY <1>5, ReadKeepsCurrent
  <2>2. CASE f \notin {"idle", "session"}
    BY <1>5, <2>1, <2>2, FrameCache, ReadKeepsCurrent, Names
  <2>3. CASE f = "session"
    <3>1. /\ Reads("session") => Reads("session")'
          /\ pc'["idle"] = pc["idle"] /\ snap'["idle"] = snap["idle"]
          /\ pc["session"] # "off" /\ pc'["session"] # "off"
      BY <1>5, <2>3, ReadKeepsCurrent, Names
    <3>2. (Reads("idle")' <=> Reads("idle"))
      BY <2>1, <3>1, ReadsAlone
    <3>3. ForCache => ForCache'
      BY <2>1, <3>1, <3>2 DEF ForCache
    <3>4. QED BY <2>1, <3>1, <3>3 DEF CacheInv
  <2>4. CASE f = "idle"
    <3>1. /\ Reads("idle") => Reads("idle")'
          /\ pc["idle"] # "off" /\ pc'["idle"] # "off" /\ pc'["session"] = pc["session"]
      BY <1>5, <2>4, ReadKeepsCurrent, Names
    <3>2. pc["session"] = "off"
      BY <1>5, <2>4, Names DEF Fetch, ReadStatus, ReadSong, MayRead
    <3>3. ForCache => ForCache'
      BY <2>1, <3>1, <3>2 DEF ForCache
    <3>4. QED BY <2>1, <3>1, <3>3 DEF CacheInv
  <2>5. QED BY <2>2, <2>3, <2>4
<1>6. ASSUME NEW f \in Publishers, Publish(f) PROVE CacheInv'
  <2>1. /\ UNCHANGED <<player, idle, lines, flagged, uncached>> /\ pc[f] = "ready"
        /\ watch' = IF f \in {"idle", "session"} THEN snap[f] ELSE watch
    BY <1>6 DEF Publish
  <2>2. f \in Fetchers /\ pc'[f] = "off" /\ \A g \in Fetchers \ {f} : pc'[g] = pc[g] /\ snap'[g] = snap[g]
    BY <1>6, Names, OverEffect DEF Publish
  <2>3. CASE f \notin {"idle", "session"}
    BY <2>1, <2>2, <2>3, FrameCache, Names
  <2>4. CASE f \in {"idle", "session"}
    <3>1. Reads(f) => Fits(watch)'
      BY <2>1, <2>4 DEF Reads, Fits
    <3>2. \A g \in {"idle", "session"} \ {f} :
             pc'[g] = pc[g] /\ snap'[g] = snap[g] /\ (Reads(g)' <=> Reads(g))
      BY <2>1, <2>2, Names, ReadsAlone
    <3>3. CASE f = "session"
      <4>1. \/ uncached' \/ ForCache'
            \/ pc'["idle"] = "off" /\ pc'["session"] = "off" /\ Fits(watch)'
        BY <2>1, <2>2, <3>1, <3>2, <3>3, Names DEF CacheInv, ForCache
      <4>2. QED BY <2>1, <3>2, <3>3, <4>1, Names DEF CacheInv
    <3>4. CASE f = "idle"
      <4>1. \/ uncached' \/ ForCache'
            \/ pc'["idle"] = "off" /\ pc'["session"] = "off" /\ Fits(watch)'
        BY <2>1, <2>2, <3>1, <3>2, <3>4, Names DEF CacheInv, ForCache
      <4>2. QED BY <2>1, <2>2, <3>4, <4>1 DEF CacheInv
    <3>5. QED BY <2>4, <3>3, <3>4
  <2>5. QED BY <2>3, <2>4
<1>7. CASE IdleConnect
  <2>1. (ForCache' <=> ForCache) /\ (Fits(watch)' <=> Fits(watch))
    BY <1>7 DEF IdleConnect, ForCache, Reads, Fits
  <2>2. QED BY <1>7, <2>1 DEF IdleConnect, CacheInv
<1>8. CASE HandleLine
  <2>1. /\ pc'["idle"] = "status" /\ idle \notin {"down", "armed"} /\ Reads("idle")'
        /\ UNCHANGED <<idle, flagged>>
    BY <1>8, Names DEF HandleLine, Reads, TypeOK, CacheInv
  <2>2. QED BY <2>1 DEF CacheInv, ForCache
<1>9. CASE Rearm
  <2>1. /\ lines = 0 /\ pc["idle"] = "off"
        /\ UNCHANGED <<pc, snap, player, watch, uncached>>
        /\ \/ idle = "cut" /\ idle' = "down" /\ lines' = 0 /\ flagged' = flagged
           \/ flagged /\ idle' = "batch" /\ lines' > 0
           \/ ~flagged /\ idle' = "armed" /\ lines' = 0 /\ flagged' = flagged
    BY <1>9 DEF Rearm
  <2>2. (Reads("session")' <=> Reads("session")) /\ (Fits(watch)' <=> Fits(watch))
    BY <2>1, ReadsAlone DEF Fits
  <2>3. ForCache => ForCache'
    BY <2>1, <2>2 DEF ForCache
  <2>4. QED BY <2>1, <2>2, <2>3 DEF CacheInv
<1>10. CASE IdleLost
  <2>1. UNCHANGED <<pc, snap, player, watch>> /\ idle' = "cut" /\ ~flagged' /\ lines' \in {0, lines}
    BY <1>10 DEF IdleLost
  <2>2. uncached' = (uncached \/ ((flagged \/ lines' # lines) /\ ~ForCache'))
    BY <1>10 DEF IdleLost
  <2>3. \A f \in Fetchers : Reads(f)' <=> Reads(f)
    BY <2>1, ReadsAlone
  <2>4. ForCache => uncached' \/ ForCache'
    <3>1. CASE flagged \/ lines' # lines
      BY <2>2, <3>1
    <3>2. CASE ~flagged /\ lines' = lines
      BY <2>1, <2>3, <3>2, Names DEF ForCache
    <3>3. QED BY <3>1, <3>2
  <2>5. QED BY <2>1, <2>2, <2>4 DEF CacheInv, Fits
<1>11. ASSUME NEW s \in Subscribers, Socket(s) PROVE CacheInv'
  <2>1. UNCHANGED <<player, idle, lines, flagged, watch, uncached>>
    BY <1>11 DEF Socket, Subscribe, ShowFirst, FallBack, ShowEvent, Leave
  <2>2. \A f \in {"idle", "session"} : pc'[f] = pc[f] /\ snap'[f] = snap[f]
    <3>1. CASE Subscribe(s)
      BY <3>1, Names DEF Subscribe, TypeOK
    <3>2. CASE ShowFirst(s) \/ FallBack(s)
      BY <3>2, Names, OverEffect DEF ShowFirst, FallBack
    <3>3. CASE ShowEvent(s) \/ Leave(s)
      BY <3>3 DEF ShowEvent, Leave
    <3>4. QED BY <1>11, <3>1, <3>2, <3>3 DEF Socket
  <2>3. QED BY <2>1, <2>2, FrameCache
<1>12. CASE UNCHANGED vars
  BY <1>12, FrameCache DEF vars
<1>13. QED
  BY <1>1, <1>2, <1>3, <1>4, <1>5, <1>6, <1>7, <1>8, <1>9, <1>10, <1>11, <1>12 DEF Next

\* When the idle connection awaits the next change and no session is priming, the cached
\* snapshot shows MPD's state, whatever was lost, overtaken or handled late on the way,
\* unless MPD last changed when nobody was still to read its state for the cache and MPD did
\* not hold the change back, or the announcement was lost with the idle connection.
THEOREM CacheCorrect == Spec => []CachedIsCurrent
<1>1. Init => CacheInv
  BY Names DEF Init, CacheInv, ForCache, Reads
<1>2. CacheInv => CachedIsCurrent
  <2> SUFFICES ASSUME CacheInv, idle = "armed", pc["session"] = "off", ~uncached
               PROVE  Fits(watch)
    BY DEF CachedIsCurrent
  <2>1. pc["idle"] = "off" /\ lines = 0 /\ ~flagged
    BY DEF CacheInv
  <2>2. ~Reads("session")
    BY DEF Reads
  <2>3. QED BY <2>1, <2>2 DEF CacheInv, ForCache
<1>3. QED BY <1>1, <1>2, NextCache, TypeCorrect, PTL DEF Spec

-----------------------------------------------------------------------------
(* The first message.                                                      *)

LEMMA FrameFloor ==
    ASSUME TypeOK, FloorInv, player' \in Versions, player' >= player, floor' = floor,
           \A s \in Subscribers : pc'[s] = pc[s] /\ snap'[s] = snap[s]
    PROVE  FloorInv'
<1>1. player \in Nat /\ player' \in Nat /\ \A s \in Subscribers : floor[s] \in Nat
  BY SnapshotType DEF TypeOK
<1>2. \A s \in Subscribers : pc[s] # "off" => floor[s] <= player'
  BY <1>1 DEF FloorInv
<1>3. QED BY <1>2 DEF FloorInv

LEMMA NextFloor == TypeOK /\ FloorInv /\ [Next]_vars => FloorInv'
<1> SUFFICES ASSUME TypeOK, FloorInv, [Next]_vars PROVE FloorInv'
  OBVIOUS
<1> USE DEF idleVars, fetchVars, subVars
<1>0. player \in Versions /\ player \in Nat /\ player >= player
  BY SnapshotType DEF TypeOK
<1>1. CASE OtherChange
  <2>1. player' \in Versions /\ player' >= player
    BY <1>0, <1>1, ChangeType DEF OtherChange
  <2>2. QED BY <1>1, <2>1, FrameFloor DEF OtherChange
<1>2. CASE CommandLost
  BY <1>0, <1>2, CommandLostEffect, FrameFloor DEF CommandLost
<1>3. ASSUME NEW h \in Handlers, Mutate(h) PROVE FloorInv'
  <2>1. player' \in Versions /\ player' >= player
    BY <1>0, <1>3, ChangeType DEF Mutate
  <2>2. \A s \in Subscribers : pc'[s] = pc[s] /\ snap'[s] = snap[s]
    BY <1>3, FetchersAssumption DEF Mutate, TypeOK, Fetchers
  <2>3. QED BY <1>3, <2>1, <2>2, FrameFloor DEF Mutate
<1>4. ASSUME NEW h \in Handlers, RefreshFails(h) PROVE FloorInv'
  <2>1. \A s \in Subscribers : pc'[s] = pc[s] /\ snap'[s] = snap[s]
    <3>1. h \in Fetchers /\ h \notin Subscribers
      BY Names, FetchersAssumption
    <3>2. QED BY <1>4, <3>1, Names, OverEffect DEF RefreshFails
  <2>2. QED BY <1>0, <1>4, <2>1, FrameFloor DEF RefreshFails
<1>5. ASSUME NEW f \in Fetchers, Fetch(f) PROVE FloorInv'
  <2>1. player' = player /\ floor' = floor
    BY <1>5 DEF Fetch, ReadStatus, ReadSong
  <2>2. ASSUME NEW s \in Subscribers
        PROVE  /\ pc'[s] # "off" => floor'[s] <= player'
               /\ pc'[s] \in {"song", "ready"} => floor'[s] <= snap'[s].status
               /\ pc'[s] = "ready" => floor'[s] <= snap'[s].song
    <3>1. CASE s # f
      BY <1>5, <2>1, <3>1, ReadKeepsCurrent, Names DEF FloorInv
    <3>2. CASE s = f /\ ReadStatus(f)
      BY <2>1, <3>2, ReadStatusEffect, Names DEF FloorInv, ReadStatus
    <3>3. CASE s = f /\ ReadSong(f)
      BY <2>1, <3>3, ReadSongEffect, Names DEF FloorInv, ReadSong
    <3>4. QED BY <1>5, <3>1, <3>2, <3>3 DEF Fetch
  <2>3. QED BY <2>2 DEF FloorInv
<1>6. ASSUME NEW f \in Publishers, Publish(f) PROVE FloorInv'
  <2>1. \A s \in Subscribers : pc'[s] = pc[s] /\ snap'[s] = snap[s]
    BY <1>6, Names, OverEffect DEF Publish
  <2>2. QED BY <1>0, <1>6, <2>1, FrameFloor DEF Publish
<1>7. CASE IdleConnect \/ Rearm \/ IdleLost
  BY <1>0, <1>7, FrameFloor DEF IdleConnect, Rearm, IdleLost
<1>8. CASE HandleLine
  <2>1. \A s \in Subscribers : pc'[s] = pc[s] /\ snap'[s] = snap[s]
    BY <1>8, Names DEF HandleLine, TypeOK
  <2>2. QED BY <1>0, <1>8, <2>1, FrameFloor DEF HandleLine
<1>9. ASSUME NEW s \in Subscribers, Socket(s) PROVE FloorInv'
  <2>0. s \in Fetchers /\ player' = player
    BY <1>9, Names DEF Socket, Subscribe, ShowFirst, FallBack, ShowEvent, Leave
  <2>1. CASE Subscribe(s)
    <3>1. /\ pc'[s] = "status" /\ floor'[s] = player /\ snap' = snap
          /\ \A w \in Subscribers \ {s} : pc'[w] = pc[w] /\ floor'[w] = floor[w]
      BY <2>0, <2>1, Names DEF Subscribe, TypeOK
    <3>2. QED BY <1>0, <2>0, <3>1 DEF FloorInv
  <2>2. CASE ShowFirst(s) \/ FallBack(s)
    <3>1. /\ pc'[s] = "off" /\ floor' = floor
          /\ \A w \in Subscribers \ {s} : pc'[w] = pc[w] /\ snap'[w] = snap[w]
      BY <2>0, <2>2, Names, OverEffect DEF ShowFirst, FallBack
    <3>2. QED BY <2>0, <3>1 DEF FloorInv
  <2>3. CASE ShowEvent(s)
    BY <1>0, <2>3, FrameFloor DEF ShowEvent
  <2>4. CASE Leave(s)
    <3>1. /\ floor'[s] = 0 /\ UNCHANGED <<pc, snap>>
          /\ \A w \in Subscribers \ {s} : floor'[w] = floor[w]
      BY <2>4 DEF Leave, TypeOK
    <3>2. floor[s] \in Nat /\ snap[s].status \in Int /\ snap[s].song \in Int
      BY <2>0, SnapshotType DEF TypeOK
    <3>3. QED BY <1>0, <2>0, <3>1, <3>2 DEF FloorInv
  <2>5. QED BY <1>9, <2>1, <2>2, <2>3, <2>4 DEF Socket
<1>10. CASE UNCHANGED vars
  BY <1>0, <1>10, FrameFloor DEF vars
<1>11. QED
  BY <1>1, <1>2, <1>3, <1>4, <1>5, <1>6, <1>7, <1>8, <1>9, <1>10 DEF Next

\* What a step of one WebSocket does for the first message of any.
LEMMA FirstMessageStep ==
    ASSUME TypeOK, FloorInv, [Next]_vars,
           NEW s \in Subscribers, pc[s] = "ready", live'[s], ~live[s]
    PROVE  shown'[s].status >= floor[s] /\ shown'[s].song >= floor[s]
<1> USE DEF idleVars, fetchVars, subVars
<1>1. live' # live
  OBVIOUS
<1>2. PICK w \in Subscribers : Socket(w)
  BY <1>1 DEF Next, vars, OtherChange, CommandLost, Mutate, RefreshFails, Fetch, ReadStatus,
              ReadSong, Publish, IdleConnect, HandleLine, Rearm, IdleLost
<1>3. CASE ShowFirst(w)
  <2>1. s = w
    BY <1>3 DEF ShowFirst, Show, TypeOK
  <2>2. shown'[s] = snap[s]
    BY <1>3, <2>1 DEF ShowFirst, Show, TypeOK
  <2>3. floor[s] \in Nat /\ snap[s].status \in Int /\ snap[s].song \in Int
    BY Names, SnapshotType DEF TypeOK
  <2>4. QED BY <2>2, <2>3 DEF FloorInv
<1>4. CASE FallBack(w)
  <2>1. s = w
    BY <1>4 DEF FallBack, Show, TypeOK
  <2>2. QED BY <1>4, <2>1 DEF FallBack
<1>5. CASE ShowEvent(w)
  BY <1>5 DEF ShowEvent, Show, TypeOK
<1>6. CASE Subscribe(w) \/ Leave(w)
  BY <1>6 DEF Subscribe, Leave, TypeOK
<1>7. QED BY <1>2, <1>3, <1>4, <1>5, <1>6 DEF Socket

\* The first message of a WebSocket whose snapshot could be read is never older than
\* MPD's state when the browser connected.
THEOREM FirstMessageIsFresh == Spec => FirstMessageFresh
<1>1. Init => FloorInv
  BY Names DEF Init, FloorInv
<1>2. TypeOK /\ FloorInv /\ [Next]_vars =>
         [\A s \in Subscribers :
             pc[s] = "ready" /\ live'[s] /\ ~live[s] =>
                 shown'[s].status >= floor[s] /\ shown'[s].song >= floor[s]]_vars
  BY FirstMessageStep
<1>3. QED BY <1>1, <1>2, NextFloor, TypeCorrect, PTL DEF Spec, FirstMessageFresh
=============================================================================
