--------------------------- MODULE QueueViewProofs ---------------------------
(* Proofs about QueueView, for any number of edits, upsets and requests under way. *)
EXTENDS QueueView, TLAPS

-----------------------------------------------------------------------------
(* Types.                                                                  *)

\* What is appended to a sequence, or taken from it, keeps the type.
LEMMA SequenceType ==
    ASSUME NEW S, NEW T, S \subseteq T, NEW s \in Seq(S)
    PROVE  /\ s \in Seq(T)
           /\ \A m \in S : Append(s, m) \in Seq(S)
           /\ s # <<>> => Head(s) \in S /\ Tail(s) \in Seq(S)
<1>1. s \in Seq(T)
  <2>1. \A i \in 1..Len(s) : s[i] \in T
    OBVIOUS
  <2>2. QED BY <2>1
<1>2. QED BY <1>1

\* A message at the end of the inbox, or the first one taken from it, keeps the type;
\* and so does a queue with a newer version.
LEMMA InboxType ==
    ASSUME NEW n \in Nat, NEW s \in Seq(DbChanged..n)
    PROVE  /\ s \in Seq(DbChanged..(n + 1))
           /\ \A m \in DbChanged..n : Append(s, m) \in Seq(DbChanged..n)
           /\ s # <<>> => Head(s) \in DbChanged..n /\ Tail(s) \in Seq(DbChanged..n)
<1>1. DbChanged..n \subseteq DbChanged..(n + 1)
  BY DEF DbChanged
<1>2. QED BY <1>1, SequenceType

\* A new version, and what there is to be said of it.
LEMMA VersionType ==
    ASSUME TypeOK, NewVersion
    PROVE  mpd' \in Nat \ {0} /\ mpd' = mpd + 1 /\ coming' \in BOOLEAN /\ pushed' \in BOOLEAN
<1>1. mpd' \in Nat \ {0} /\ mpd' = mpd + 1
  BY DEF TypeOK, NewVersion
<1>2. coming' \in BOOLEAN /\ pushed' \in BOOLEAN
  BY Zenon DEF NewVersion
<1>3. QED BY <1>1, <1>2

LEMMA RefreshType ==
    ASSUME TypeOK, Refresh, mpd' = mpd
    PROVE  /\ token' \in Nat /\ requests' \subseteq Requests
           /\ \A q \in requests' : q.token \in 1..token' /\ q.since \in 1..mpd'
BY DEF TypeOK, Refresh, Request, Requests

LEMMA SetSnapshotType ==
    ASSUME TypeOK, NEW v \in 0..mpd, SetSnapshot(v), mpd' = mpd
    PROVE  /\ {snapshot', version', songs'} \subseteq 0..mpd' /\ mounted' \in BOOLEAN
           /\ told' \in BOOLEAN /\ token' \in Nat /\ requests' \subseteq Requests
           /\ \A q \in requests' : q.token \in 1..token' /\ q.since \in 1..mpd'
<1>1. CASE Refresh
  BY <1>1, RefreshType DEF SetSnapshot, TypeOK
<1>2. CASE UNCHANGED <<version, token, requests>>
  BY <1>2 DEF SetSnapshot, TypeOK
<1>3. QED BY <1>1, <1>2 DEF SetSnapshot

LEMMA NextType == TypeOK /\ [Next]_vars => TypeOK'
<1> SUFFICES ASSUME TypeOK, [Next]_vars PROVE TypeOK'
  OBVIOUS
<1> USE MaxUpsetsAssumption DEF serverVars, wireVars, viewVars, Upset
<1>1. CASE OtherChange
  <2>1. inbox' \in Seq(DbChanged..mpd')
    BY <1>1, InboxType, VersionType DEF OtherChange, TypeOK
  <2>2. unheard' \in BOOLEAN
    BY <1>1 DEF OtherChange
  <2>3. QED BY <1>1, <2>1, <2>2, VersionType DEF OtherChange, TypeOK
<1>2. CASE PushChange
  <2>0. mpd \in DbChanged..mpd
    BY DEF DbChanged, TypeOK
  <2>1. inbox' \in Seq(DbChanged..mpd')
    BY <1>2, <2>0, InboxType DEF PushChange, TypeOK
  <2>2. coming' \in BOOLEAN /\ pushed' \in BOOLEAN
    BY <1>2, Zenon DEF PushChange, TypeOK
  <2>3. ws' = "closed" => inbox' = <<>>
    BY <1>2 DEF PushChange, TypeOK
  <2>4. QED BY <1>2, <2>1, <2>2, <2>3 DEF PushChange, TypeOK
<1>3. CASE PushOther
  <2>1. inbox' \in Seq(DbChanged..mpd')
    BY <1>3, InboxType DEF PushOther, TypeOK
  <2>2. QED BY <1>3, <2>1 DEF PushOther, TypeOK
<1>4. ASSUME NEW q \in requests, Arrive(q) \/ RequestFails(q) PROVE TypeOK'
  <2>1. CASE Arrive(q)
    <3>1. PICK read \in q.since..mpd : ShowAnswer(q, read)
      BY <2>1 DEF Arrive
    <3>2. read \in 0..mpd
      BY DEF TypeOK
    <3>3. songs' \in 0..mpd /\ told' \in BOOLEAN
      BY <3>1, <3>2 DEF ShowAnswer, TypeOK
    <3>4. QED BY <2>1, <3>3 DEF Arrive, TypeOK
  <2>2. CASE RequestFails(q)
    <3>1. told' \in BOOLEAN
      BY <2>2, Zenon DEF RequestFails, TypeOK
    <3>2. QED BY <2>2, <3>1 DEF RequestFails, TypeOK
  <2>3. QED BY <1>4, <2>1, <2>2
<1>5. CASE Mount
  BY <1>5, RefreshType DEF Mount, TypeOK
<1>6. CASE Receive
  <2>1. /\ Head(inbox) \in DbChanged..mpd /\ inbox' \in Seq(DbChanged..mpd')
        /\ ws = "closed" => FALSE
    BY <1>6, InboxType DEF Receive, TypeOK
  <2>2. CASE SetSnapshot(Head(inbox)) /\ Head(inbox) # DbChanged
    <3>1. Head(inbox) \in 0..mpd
      BY <2>1, <2>2 DEF DbChanged, TypeOK
    <3>2. QED BY <1>6, <2>1, <2>2, <3>1, SetSnapshotType DEF Receive, TypeOK
  <2>3. CASE Refresh /\ UNCHANGED <<snapshot, mounted, version, songs, told>>
    BY <1>6, <2>1, <2>3, RefreshType DEF Receive, TypeOK
  <2>4. CASE UNCHANGED <<token, requests, snapshot, mounted, version, songs, told>>
    BY <1>6, <2>1, <2>4 DEF Receive, TypeOK
  <2>5. QED BY <1>6, <2>2, <2>3, <2>4 DEF Receive
<1>7. ASSUME NEW a \in Acts, Post(a) PROVE TypeOK'
  BY <1>7 DEF Post, TypeOK
<1>8. ASSUME NEW a \in Acts, Execute(a) PROVE TypeOK'
  <2>1. inbox' \in Seq(DbChanged..mpd')
    BY <1>8, InboxType, VersionType DEF Execute, TypeOK
  <2>2. unheard' \in BOOLEAN
    BY <1>8 DEF Execute
  <2>3. QED BY <1>8, <2>1, <2>2, VersionType DEF Execute, TypeOK
<1>9. ASSUME NEW a \in Acts, PostSucceeds(a) PROVE TypeOK'
  BY <1>9, RefreshType DEF PostSucceeds, TypeOK
<1>10. ASSUME NEW a \in Acts, PostFails(a) PROVE TypeOK'
  <2>1. unheard' \in BOOLEAN
    BY <1>10, Zenon DEF PostFails, TypeOK
  <2>2. QED BY <1>10, <2>1 DEF PostFails, TypeOK
<1>11. CASE WsOpens
  <2>1. PICK v \in 0..mpd : inbox' = <<v>> /\ pushed' = (v = mpd)
    BY <1>11 DEF WsOpens
  <2>2. <<v>> \in Seq(DbChanged..mpd)
    <3>1. v \in DbChanged..mpd
      BY DEF TypeOK, DbChanged
    <3>2. QED BY <3>1
  <2>3. pushed' \in BOOLEAN /\ unheard' \in BOOLEAN
    BY <1>11, <2>1 DEF WsOpens
  <2>4. QED BY <1>11, <2>1, <2>2, <2>3 DEF WsOpens, TypeOK
<1>12. CASE WsCloses \/ Ask
  <2>1. <<>> \in Seq(DbChanged..mpd)
    OBVIOUS
  <2>2. CASE WsCloses
    <3>1. unheard' \in BOOLEAN
      BY <2>2 DEF WsCloses
    <3>2. QED BY <2>1, <2>2, <3>1 DEF WsCloses, TypeOK
  <2>3. CASE Ask
    <3>1. unheard' \in BOOLEAN
      BY <2>3 DEF Ask
    <3>2. QED BY <2>3, <3>1 DEF Ask, TypeOK
  <2>4. QED BY <1>12, <2>2, <2>3
<1>13. ASSUME NEW v \in probes, StatusArrives(v) \/ StatusFails(v) PROVE TypeOK'
  <2>1. CASE StatusArrives(v)
    <3>1. PICK read \in v..mpd : SetSnapshot(read)
      BY <2>1 DEF StatusArrives
    <3>2. read \in 0..mpd
      BY DEF TypeOK
    <3>3. QED BY <2>1, <3>1, <3>2, SetSnapshotType DEF StatusArrives, TypeOK
  <2>2. CASE StatusFails(v)
    <3>1. unheard' \in BOOLEAN
      BY <2>2, Zenon DEF StatusFails, TypeOK
    <3>2. QED BY <2>2, <3>1 DEF StatusFails, TypeOK
  <2>3. QED BY <1>13, <2>1, <2>2
<1>14. CASE UNCHANGED vars
  BY <1>14 DEF vars, TypeOK
<1>15. QED
  BY <1>1, <1>2, <1>3, <1>4, <1>5, <1>6, <1>7, <1>8, <1>9, <1>10, <1>11, <1>12, <1>13, <1>14
  DEF Next

\* Every variable stays in its range: in particular nothing the view knows is newer
\* than MPD's queue, and no request bears a token that was never given out.
THEOREM TypeCorrect == Spec => []TypeOK
<1>1. Init => TypeOK
  <2> SUFFICES ASSUME Init PROVE TypeOK
    OBVIOUS
  <2>1. inbox \in Seq(DbChanged..mpd)
    BY DEF Init
  <2>2. upsets \in 0..MaxUpsets /\ act \in [Acts -> {"idle", "posted", "executed", "orphan", "done"}]
    BY MaxUpsetsAssumption DEF Init
  <2>3. mpd \in Nat \ {0} /\ {snapshot, version, songs} \subseteq 0..mpd
    BY DEF Init
  <2>4. QED BY <2>1, <2>2, <2>3 DEF Init, TypeOK
<1>2. QED BY <1>1, NextType, PTL DEF Spec

-----------------------------------------------------------------------------
(* The refreshes.                                                          *)

\* Starting a refresh makes the list due to show whatever MPD has had.
LEMMA RefreshInvariant ==
    ASSUME TypeOK, IInv, Refresh
    PROVE  /\ \A p, q \in requests' : p.token = q.token => p = q
           /\ \A q \in Current' : q.since = mpd
           /\ \A x \in 0..mpd : Due(x)'
<1> DEFINE r == Request(token + 1)
<1>1. /\ requests' = requests \cup {r} /\ token' = token + 1
      /\ r.token = token' /\ r.since = mpd
  BY DEF Refresh, Request
<1>2. \A q \in requests : q.token # token'
  BY <1>1 DEF TypeOK
<1> HIDE DEF r
<1>3. Current' = {r}
  BY <1>1, <1>2 DEF Current
<1>4. \A p, q \in requests' : p.token = q.token => p = q
  BY <1>1, <1>2 DEF IInv
<1>5. \A x \in 0..mpd : Due(x)'
  BY <1>1, <1>3 DEF Due, TypeOK
<1>6. QED BY <1>1, <1>3, <1>4, <1>5

\* What the list is due to show depends on the requests, the token and the list.
LEMMA FrameInvariant ==
    ASSUME IInv, UNCHANGED <<requests, token, songs, told>>
    PROVE  /\ \A p, q \in requests' : p.token = q.token => p = q
           /\ \A q \in Current' : q.since >= songs'
           /\ \A x : Due(x)' <=> Due(x)
BY DEF IInv, Current, Due

\* So it does of a request that is over: an old one's answer is dropped, the current one
\* is answered with a queue not older than its sending, or the user told that it failed.
LEMMA OverInvariant ==
    ASSUME TypeOK, IInv, NEW q \in requests, requests' = requests \ {q}, token' = token,
           \/ q.token # token /\ UNCHANGED <<songs, told>>
           \/ q.token = token /\ songs' >= q.since /\ songs' \in Nat
           \/ q.token = token /\ told' /\ songs' = songs
    PROVE  /\ \A p1, p2 \in requests' : p1.token = p2.token => p1 = p2
           /\ \A p \in Current' : p.since >= songs'
           /\ \A x \in 0..mpd : Due(x) => Due(x)'
           /\ songs' >= songs
<1>1. \A p1, p2 \in requests' : p1.token = p2.token => p1 = p2
  BY DEF IInv
<1>2. CASE q.token # token
  <2>1. Current' = Current /\ songs' = songs /\ told' = told
    BY <1>2 DEF Current
  <2>2. QED BY <1>1, <2>1 DEF IInv, Due, TypeOK
<1>3. CASE q.token = token
  <2>1. Current = {q} /\ Current' = {}
    BY <1>3 DEF IInv, Current
  <2>2. q.since \in Nat /\ songs \in Nat /\ q.since >= songs
    BY <2>1 DEF TypeOK, Requests, IInv
  <2>3. \/ songs' >= q.since /\ songs' \in Nat
        \/ told' /\ songs' = songs
    BY <1>3
  <2>4. songs' >= songs
    BY <2>2, <2>3
  <2>5. \A x \in 0..mpd : Due(x) => Due(x)'
    BY <2>1, <2>2, <2>3 DEF Due
  <2>6. QED BY <1>1, <2>1, <2>4, <2>5
<1>4. QED BY <1>2, <1>3

\* A request that arrives or fails is over.
LEMMA ArriveInvariant ==
    ASSUME TypeOK, IInv, NEW q \in requests, Arrive(q) \/ RequestFails(q)
    PROVE  /\ \A p1, p2 \in requests' : p1.token = p2.token => p1 = p2
           /\ \A p \in Current' : p.since >= songs'
           /\ \A x \in 0..mpd : Due(x) => Due(x)'
           /\ songs' >= songs
<1>1. CASE Arrive(q)
  <2>1. PICK read \in q.since..mpd : ShowAnswer(q, read)
    BY <1>1 DEF Arrive
  <2>2. read \in Nat /\ read >= q.since
    BY DEF TypeOK, Requests
  <2>3. requests' = requests \ {q} /\ token' = token
    BY <1>1 DEF Arrive
  <2>4. CASE q.token = token
    BY <2>1, <2>2, <2>3, <2>4, OverInvariant DEF ShowAnswer
  <2>5. CASE q.token # token
    BY <2>1, <2>3, <2>5, OverInvariant DEF ShowAnswer
  <2>6. QED BY <2>4, <2>5
<1>2. CASE RequestFails(q)
  <2>1. requests' = requests \ {q} /\ token' = token /\ songs' = songs
    BY <1>2 DEF RequestFails, viewVars
  <2>2. CASE q.token = token
    <3>1. told'
      BY <1>2, <2>2 DEF RequestFails
    <3>2. QED BY <2>1, <2>2, <3>1, OverInvariant
  <2>3. CASE q.token # token
    <3>1. told' = told
      BY <1>2, <2>3, Zenon DEF RequestFails, TypeOK
    <3>2. QED BY <2>1, <2>3, <3>1, OverInvariant
  <2>4. QED BY <2>2, <2>3
<1>3. QED BY <1>1, <1>2

\* A snapshot of a version not noted yet starts a refresh, any other changes nothing.
LEMMA SnapshotInvariant ==
    ASSUME TypeOK, IInv, NEW v \in 0..mpd, SetSnapshot(v)
    PROVE  /\ \A p, q \in requests' : p.token = q.token => p = q
           /\ \A q \in Current' : q.since >= songs'
           /\ \A x \in 0..mpd : Due(x) => Due(x)'
           /\ mounted' = mounted /\ songs' = songs
           /\ mounted => Due(version)' /\ Due(v)'
<1>1. mounted' = mounted /\ songs' = songs /\ told' = told
  BY DEF SetSnapshot
<1>2. CASE mounted /\ v # version
  <2>1. Refresh /\ version' = v
    BY <1>2 DEF SetSnapshot
  <2>2. QED BY <1>1, <2>1, RefreshInvariant DEF Due, TypeOK
<1>3. CASE ~(mounted /\ v # version)
  <2>1. UNCHANGED <<requests, token, songs, told, version>>
    BY <1>1, <1>3 DEF SetSnapshot
  <2>2. mounted => v = version /\ Due(version)
    BY <1>3 DEF IInv
  <2>3. QED BY <1>1, <2>1, <2>2, FrameInvariant DEF Due, Current
<1>4. QED BY <1>2, <1>3

-----------------------------------------------------------------------------
(* The steps.                                                              *)

\* The message that a version of MPD's queue travels in.
Announced(s) == \E i \in 1..Len(s) : s[i] = mpd

LEMMA AnnouncedType ==
    ASSUME TypeOK, Announced(inbox)
    PROVE  /\ \A m : Announced(Append(inbox, m))
           /\ inbox # <<>> /\ (Head(inbox) = mpd \/ Announced(Tail(inbox)))
<1> USE DEF TypeOK, Announced
<1>1. PICK i \in 1..Len(inbox) : inbox[i] = mpd
  OBVIOUS
<1>2. \A m : Announced(Append(inbox, m))
  <2> TAKE m
  <2>1. i \in 1..Len(Append(inbox, m)) /\ Append(inbox, m)[i] = mpd
    BY <1>1
  <2>2. QED BY <2>1
<1>3. inbox # <<>> /\ (Head(inbox) = mpd \/ Announced(Tail(inbox)))
  <2>0. inbox # <<>>
    BY <1>1
  <2>1. CASE i = 1
    BY <1>1, <2>0, <2>1
  <2>2. CASE i # 1
    <3>1. i - 1 \in 1..Len(Tail(inbox)) /\ Tail(inbox)[i - 1] = mpd
      BY <1>1, <2>0, <2>2
    <3>2. Announced(Tail(inbox))
      BY ONLY <3>1 DEF Announced
    <3>3. QED BY <2>0, <3>2
  <2>3. QED BY <1>1, <2>1, <2>2
<1>4. QED BY <1>2, <1>3

\* The invariant's parts, of which a step of the server disturbs only the last.
LEMMA ServerInvariant ==
    ASSUME TypeOK, IInv, UNCHANGED <<requests, token, songs, told, mounted, version>>,
           \/ pushed' = FALSE
           \/ ws' # "open"
           \/ mpd' = mpd /\ Announced(inbox)'
           \/ UNCHANGED <<mpd, ws, pushed>> /\ (Announced(inbox) => Announced(inbox)')
    PROVE  IInv' /\ songs' >= songs
<1>1. /\ \A p, q \in requests' : p.token = q.token => p = q
      /\ \A q \in Current' : q.since >= songs'
      /\ \A x : Due(x)' <=> Due(x)
  BY FrameInvariant
<1>2. mounted' => Due(version)'
  BY FrameInvariant DEF IInv, Due, Current
<1>3. mounted' /\ ws' = "open" /\ pushed' => Due(mpd)' \/ Announced(inbox)'
  <2> SUFFICES ASSUME mounted', ws' = "open", pushed' PROVE Due(mpd)' \/ Announced(inbox)'
    OBVIOUS
  <2>1. CASE UNCHANGED <<mpd, ws, pushed>> /\ (Announced(inbox) => Announced(inbox)')
    <3>1. mounted /\ ws = "open" /\ pushed
      BY <2>1
    <3>2. Due(mpd) \/ Announced(inbox)
      BY <3>1 DEF IInv, Announced
    <3>3. Due(mpd) => Due(mpd)'
      BY <2>1, FrameInvariant DEF Due, Current
    <3>4. QED BY <2>1, <3>2, <3>3
  <2>2. QED BY <2>1
<1>4. QED BY <1>1, <1>2, <1>3 DEF IInv, TypeOK, Announced

LEMMA NextInvariant == TypeOK /\ IInv /\ [Next]_vars => IInv' /\ songs' >= songs
<1> SUFFICES ASSUME TypeOK, IInv, [Next]_vars PROVE IInv' /\ songs' >= songs
  OBVIOUS
<1> USE DEF serverVars, wireVars, viewVars
<1>0. mpd \in 0..mpd /\ version \in 0..mpd /\ songs \in 0..mpd
  BY DEF TypeOK
<1>1. CASE OtherChange
  BY <1>1, ServerInvariant DEF OtherChange, NewVersion
<1>2. CASE PushChange
  <2>1. CASE ws = "open"
    <3>1. Len(inbox') \in 1..Len(inbox') /\ inbox'[Len(inbox')] = mpd'
      BY <1>2, <2>1 DEF PushChange, TypeOK
    <3>2. Announced(inbox)'
      BY <3>1 DEF Announced
    <3>3. QED BY <1>2, <3>2, ServerInvariant DEF PushChange
  <2>2. CASE ws # "open"
    BY <1>2, <2>2, ServerInvariant DEF PushChange
  <2>3. QED BY <2>1, <2>2
<1>3. CASE PushOther
  <2>1. Announced(inbox) => Announced(inbox)'
    BY <1>3, AnnouncedType DEF PushOther, Announced
  <2>2. QED BY <1>3, <2>1, ServerInvariant DEF PushOther
<1>4. ASSUME NEW q \in requests, Arrive(q) \/ RequestFails(q)
      PROVE  IInv' /\ songs' >= songs
  <2>1. UNCHANGED <<mounted, version, mpd, ws, pushed, inbox>>
    BY <1>4 DEF Arrive, RequestFails
  <2>2. QED BY <1>0, <1>4, <2>1, ArriveInvariant DEF IInv, Due
<1>5. CASE Mount
  <2>1. UNCHANGED <<mpd, songs>> /\ version' \in 0..mpd
    BY <1>5 DEF Mount, TypeOK
  <2>2. QED BY <1>0, <1>5, <2>1, RefreshInvariant DEF Mount, IInv, Due
<1>6. CASE Receive
  <2>1. /\ UNCHANGED <<mpd, ws, pushed>> /\ inbox # <<>>
        /\ Announced(inbox) => Head(inbox) = mpd \/ Announced(inbox)'
    BY <1>6, AnnouncedType DEF Receive, Announced
  <2>2. Head(inbox) \in DbChanged..mpd /\ mpd # DbChanged /\ songs \in Nat
    BY <2>1 DEF TypeOK, DbChanged
  <2>3. CASE SetSnapshot(Head(inbox)) /\ Head(inbox) # DbChanged
    <3>1. PICK v \in 0..mpd : v = Head(inbox) /\ SetSnapshot(v)
      BY <2>2, <2>3 DEF TypeOK, DbChanged
    <3>2. /\ \A p, q \in requests' : p.token = q.token => p = q
          /\ \A q \in Current' : q.since >= songs'
          /\ \A x \in 0..mpd : Due(x) => Due(x)'
          /\ mounted' = mounted /\ songs' = songs
          /\ mounted => Due(version)' /\ Due(v)'
      BY <3>1, SnapshotInvariant
    <3>3. QED BY <1>0, <2>1, <2>2, <3>1, <3>2 DEF IInv, Due, Announced
  <2>4. CASE Refresh /\ UNCHANGED <<snapshot, mounted, version, songs, told>>
    BY <1>0, <2>1, <2>2, <2>4, RefreshInvariant DEF IInv, Due
  <2>5. CASE UNCHANGED <<token, requests, mounted, version, songs, told>> /\ ~mounted
    BY <2>2, <2>5, FrameInvariant DEF IInv
  <2>6. QED BY <1>6, <2>3, <2>4, <2>5 DEF Receive
<1>7. ASSUME NEW a \in Acts, Post(a) \/ PostFails(a) PROVE IInv' /\ songs' >= songs
  BY <1>7, ServerInvariant DEF Post, PostFails, Announced
<1>8. ASSUME NEW a \in Acts, Execute(a) PROVE IInv' /\ songs' >= songs
  BY <1>8, ServerInvariant DEF Execute, NewVersion
<1>9. ASSUME NEW a \in Acts, PostSucceeds(a) PROVE IInv' /\ songs' >= songs
  BY <1>0, <1>9, RefreshInvariant DEF PostSucceeds, IInv, Due
<1>10. CASE WsOpens
  <2>1. PICK v \in 0..mpd : inbox' = <<v>> /\ pushed' = (v = mpd)
    BY <1>10 DEF WsOpens
  <2>2. pushed' => Announced(inbox)'
    <3>1. mpd' = mpd
      BY <1>10 DEF WsOpens
    <3>2. pushed' => inbox' = <<mpd'>>
      BY <2>1, <3>1
    <3>3. QED BY <3>2 DEF Announced
  <2>3. CASE pushed'
    BY <1>10, <2>2, <2>3, ServerInvariant DEF WsOpens
  <2>4. CASE ~pushed'
    <3>1. pushed' = FALSE
      BY <2>1, <2>4
    <3>2. QED BY <1>10, <3>1, ServerInvariant DEF WsOpens
  <2>5. QED BY <2>3, <2>4
<1>11. CASE WsCloses
  BY <1>11, ServerInvariant DEF WsCloses
<1>12. CASE Ask
  BY <1>12, ServerInvariant DEF Ask, Announced
<1>13. ASSUME NEW v \in probes, StatusArrives(v) \/ StatusFails(v)
       PROVE  IInv' /\ songs' >= songs
  <2>1. CASE StatusArrives(v)
    <3>1. PICK read \in v..mpd : SetSnapshot(read)
      BY <2>1 DEF StatusArrives
    <3>2. read \in 0..mpd
      BY DEF TypeOK
    <3>3. UNCHANGED <<mpd, ws, pushed, inbox>>
      BY <2>1 DEF StatusArrives
    <3>4. /\ \A p, q \in requests' : p.token = q.token => p = q
          /\ \A q \in Current' : q.since >= songs'
          /\ \A x \in 0..mpd : Due(x) => Due(x)'
          /\ mounted' = mounted /\ songs' = songs
          /\ mounted => Due(version)'
      BY <3>1, <3>2, SnapshotInvariant
    <3>5. QED BY <1>0, <3>3, <3>4 DEF IInv, Due
  <2>2. CASE StatusFails(v)
    BY <2>2, ServerInvariant DEF StatusFails, Announced
  <2>3. QED BY <1>13, <2>1, <2>2
<1>14. CASE UNCHANGED vars
  BY <1>14, ServerInvariant DEF vars, Announced
<1>15. QED
  BY <1>1, <1>2, <1>3, <1>4, <1>5, <1>6, <1>7, <1>8, <1>9, <1>10, <1>11, <1>12, <1>13, <1>14
  DEF Next

LEMMA InitInvariant == Init => IInv
BY DEF Init, IInv, Current, Due

\* The inductive invariant holds in every reachable state.
THEOREM Invariance == Spec => []IInv
<1>1. QED BY InitInvariant, TypeCorrect, NextInvariant, PTL DEF Spec

\* However the answers to GET /playlist overtake each other, the view never replaces
\* its list by an older one.
THEOREM ViewNeverGoesBack == Spec => ListNeverGoesBack
<1>1. TypeOK /\ IInv /\ [Next]_vars => [songs' >= songs]_vars
  BY NextInvariant
<1>2. QED BY <1>1, TypeCorrect, Invariance, PTL DEF Spec, ListNeverGoesBack

\* With nothing under way and the WebSocket open, an opened view shows MPD's queue or
\* has said that it could not, whatever snapshots, notices and failures came before.
THEOREM QuietIsCurrent == Spec => []QuietMeansCurrent
<1>1. TypeOK /\ IInv => QuietMeansCurrent
  <2> SUFFICES ASSUME TypeOK, IInv, mounted, requests = {}, inbox = <<>>, ws = "open",
                      pushed
               PROVE  songs = mpd \/ told
    BY DEF QuietMeansCurrent
  <2>1. Due(mpd)
    BY DEF IInv
  <2>2. told \/ songs >= mpd
    BY <2>1 DEF Due, Current
  <2>3. QED BY <2>2 DEF TypeOK
<1>2. QED BY <1>1, TypeCorrect, Invariance, PTL
=============================================================================
