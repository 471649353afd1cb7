-------------------------- MODULE QueueEditProofs --------------------------
(* Proofs about QueueEdit, for any handlers, requests, queue and failures.  *)
EXTENDS QueueEdit, SequenceLemmas

-----------------------------------------------------------------------------
(* The invariants.                                                         *)

\* Which steps a request of each kind goes through.
StepsOf(kind) ==
    CASE kind = "none"  -> {"done"}
      [] kind = "each"  -> {"begin", "each", "done"}
      [] kind = "end"   -> {"begin", "add", "done"}
      [] kind = "after" -> {"begin", "len", "add", "newlen", "move", "done"}
      [] kind = "play"  -> {"begin", "len", "before", "add", "after", "undo", "drop", "play", "done"}
      [] kind = "only"  -> {"begin", "len", "add", "newlen", "drop", "play", "done"}

StepInv(h) ==
    /\ pc[h] \in StepsOf(Kind(h))
    /\ pc[h] \in {"begin", "done"} => reply[h].status = "none"
    /\ pc[h] \in {"begin", "len"} => target[h] = 1
    /\ pc[h] = "begin" => appended[h] = 0 /\ fulfilled[h] = <<>>
    /\ pc[h] = "move" => at[h] < oldLen[h]
    /\ result[h] = "ok" => pc[h] = "done"

\* The command that h waits for.
Expected(h, cmd) ==
    CASE pc[h] = "each" -> LET t == job[h].targets[target[h]] IN
                           cmd.op = t.op /\ cmd.a = t.a /\ cmd.b = t.b /\ cmd.c = t.c
      [] pc[h] \in {"len", "before", "after", "newlen"} -> cmd.op = "status"
      [] pc[h] = "add"  -> cmd.op = "add" /\ cmd.a = job[h].targets[target[h]]
      [] pc[h] = "undo" -> cmd.op = "delete" /\ cmd.a = oldLen[h] /\ cmd.b = oldLen[h] + added[h]
      [] pc[h] = "drop" -> cmd.op = "delete" /\ cmd.a = 0 /\ cmd.b = oldLen[h]
      [] pc[h] = "move" -> cmd.op = "move" /\ cmd.a = oldLen[h] /\ cmd.c = at[h]
      [] pc[h] = "play" -> cmd.op = "play"
      [] OTHER -> FALSE

Awaits(h, i) == channel[i].by = h /\ channel[i].awaited

AwaitInv(h) ==
    \A i \in 1..Len(channel) : Awaits(h, i) =>
        /\ reply[h].status = "none"
        /\ Expected(h, channel[i])
        /\ \A j \in 1..Len(channel) : Awaits(h, j) => j = i

\* Of h's targets, the first t have been carried out.
Fulfilled(h, t) == fulfilled[h] = SubSeq(job[h].targets, 1, t)
Adds(h, i) == channel[i].by = h /\ channel[i].op = "add"

AddInv(h) ==
    /\ \A i \in 1..Len(channel) : Adds(h, i) =>
          /\ pc[h] \in {"add", "undo", "done"} /\ result[h] # "ok"
          /\ pc[h] = "add" /\ reply[h].status = "none" => channel[i].awaited
          /\ channel[i].a = job[h].targets[target[h]]
          /\ Fulfilled(h, target[h] - 1)
          /\ \A j \in 1..Len(channel) : Adds(h, j) => j = i
    /\ Kind(h) \in Adding =>
          /\ pc[h] \in {"len", "before"} => Fulfilled(h, target[h] - 1)
          /\ pc[h] = "add" /\ reply[h].status = "OK" => Fulfilled(h, target[h])
          /\ pc[h] = "after" => Fulfilled(h, target[h])
          /\ pc[h] \in {"newlen", "drop", "move", "play"} => fulfilled[h] = job[h].targets

\* No song of the user is behind position n.
UsersBelow(n) == \A i \in 1..Len(queue) : queue[i].by = User => i <= n

Ranges(h, i, op) == channel[i].by = h /\ channel[i].op = op

\* Where h's own songs are, unless others are moved among them.
BehindUsers(h) == Kind(h) \in {"after", "play"} =>
    /\ pc[h] = "len" /\ reply[h].status = "OK" => UsersBelow(reply[h].len)
    /\ pc[h] \notin {"begin", "len", "move", "done"} => UsersBelow(oldLen[h])

Deletes(h, i) == channel[i].by = h /\ channel[i].op = "delete"

DeleteInv(h) == \A i \in 1..Len(channel) : Deletes(h, i) =>
    /\ Kind(h) \in {"play", "only"}
    /\ pc[h] \in {"undo", "drop", "done"} /\ reply[h].status # "OK"
    /\ \/ Kind(h) = "play" /\ UsersBelow(channel[i].a)
       \/ pc[h] \in {"drop", "done"} /\ fulfilled[h] = job[h].targets
    /\ \A j \in 1..Len(channel) : Deletes(h, j) => j = i

IsMove(h, i) == channel[i].by = h /\ channel[i].op = "move"

MoveInv(h) == \A i \in 1..Len(channel) : IsMove(h, i) =>
    /\ Kind(h) = "after" /\ pc[h] \in {"move", "done"}
    /\ UsersBelow(channel[i].a)
    /\ \A j \in 1..Len(channel) : IsMove(h, j) => j = i

UserInv(h) == ~Displaced => BehindUsers(h) /\ DeleteInv(h) /\ MoveInv(h)

\* What only the requests that are commands themselves send.
RouteInv(h) == \A i \in 1..Len(channel) :
    channel[i].by = h /\ channel[i].op \in ById \cup {"clear", "shuffle"} =>
        Kind(h) = "each" /\ (channel[i].op \in {"moveid", "shuffle"} => Moves(h))

\* Its song has been in the queue and can never be again.
Gone(song) == ~Contains(queue, song) /\ (song.by = User \/ song.n <= appended[song.by])

Removes(h) == Kind(h) = "each" /\ job[h].targets[1].op = "deleteid"

GoneInv(h) == Removes(h) =>
    LET ts == job[h].targets IN
    /\ \A i \in 1..(target[h] - 1) : Gone(ts[i].a)
    /\ pc[h] = "each" /\ reply[h].status = "OK" => Gone(ts[target[h]].a)
    /\ result[h] = "ok" => \A i \in 1..Len(ts) : Gone(ts[i].a)

\* What is missing of the old queue when h's first k targets have been removed.
RemovedFirst(h, k) ==
    LET ts == job[h].targets IN
    /\ \A i \in 1..k : Contains(old, ts[i].a)
    /\ \A song \in Ids : Contains(queue, song) <=> /\ Contains(old, song)
                                                   /\ \A i \in 1..k : ts[i].a # song

RemoveInv(h) == Removes(h) /\ Alone(h) =>
    \/ /\ RemovedFirst(h, target[h] - 1)
       /\ Len(channel) <= 1
       /\ pc[h] = "begin" => channel = <<>>
       /\ pc[h] = "each" => reply[h].status # "OK"
       /\ \A i \in 1..Len(channel) : /\ channel[i].by = h /\ channel[i].op = "deleteid"
                                     /\ channel[i].a = job[h].targets[target[h]].a
    \/ RemovedFirst(h, target[h]) /\ channel = <<>> /\ pc[h] \in {"each", "done"}

-----------------------------------------------------------------------------
(* A request of its own that replaces the queue or adds to it.             *)

\* As long as nothing has failed: the command in the channel is the one h waits for,
TrackChannel(h) ==
    /\ pc[h] = "begin" \/ reply[h].status = "OK" => channel = <<>>
    /\ pc[h] # "begin" /\ reply[h].status = "none" =>
          /\ Len(channel) = 1 /\ Awaits(h, 1) /\ Expected(h, channel[1])
          /\ pc[h] = "move" => channel[1].b = Len(old) + appended[h]

\* the queue is the old one and the songs added, and then those songs,
TrackQueue(h) ==
    IF pc[h] = "play" \/ Told(h, "drop") THEN queue = Songs(h, appended[h])
    ELSE ~Told(h, "move") => queue = old \o Songs(h, appended[h])

\* h's numbers are the lengths they stand for,
TrackLengths(h) ==
    /\ pc[h] \in {"begin", "len"} => appended[h] = 0 /\ added[h] = 0
    /\ Told(h, "len") => reply[h].len = Len(old)
    /\ pc[h] \notin {"begin", "len"} => oldLen[h] = Len(old)
    /\ pc[h] \in {"newlen", "before", "after"} /\ reply[h].status = "OK" =>
          reply[h].len = Len(old) + appended[h]
    /\ pc[h] = "before" => added[h] = appended[h]
    /\ pc[h] \in {"add", "after"} /\ Kind(h) = "play" =>
          /\ before[h] = Len(old) + added[h]
          /\ appended[h] = IF pc[h] = "add" /\ reply[h].status = "none" THEN added[h]
                           ELSE added[h] + job[h].targets[target[h]]
    /\ pc[h] \in {"drop", "play", "move"} => appended[h] > 0

\* and what plays is the song that has played, or the first one added.
TrackPlaying(h) ==
    /\ Told(h, "play") => playing = Song(h, 1)
    /\ pc[h] \notin {"drop", "play"} /\ ~Told(h, "move") =>
          /\ playing = NoSong \/ Contains(old, playing)
          /\ Told(h, "len") => reply[h].pos = Position(old, playing)
          /\ pc[h] \notin {"begin", "len"} => at[h] = Position(old, playing) + 1

OnTrack(h) ==
    /\ pc[h] \notin {"undo", "done"} /\ reply[h].status \in {"none", "OK"}
    /\ TrackChannel(h) /\ TrackQueue(h) /\ TrackLengths(h)
    /\ advances = 0 => TrackPlaying(h)

Off(h) == pc[h] \in {"undo", "done"} \/ reply[h].status \in {"ACK", "lost"}

\* Once something has failed, no command that is left empties the queue.
OffTrack(h) ==
    /\ Off(h) /\ result[h] # "ok"
    /\ \/ /\ Len(queue) >= Len(old)
          /\ pc[h] = "add" => oldLen[h] = Len(old)
          /\ \A i \in 1..Len(channel) :
                \/ channel[i].op \in {"status", "add"}
                \/ channel[i].op = "delete" /\ channel[i].a >= Len(old)
       \/ /\ Len(queue) > Len(old) /\ pc[h] # "add" /\ Len(channel) = 1
          /\ channel[1].op = "delete" /\ channel[1].a = 0 /\ channel[1].b = Len(old)
       \/ /\ queue # <<>> /\ pc[h] # "add"
          /\ \A i \in 1..Len(channel) : channel[i].op = "play"

Won(h) ==
    /\ pc[h] = "done"
    /\ queue = Songs(h, appended[h]) /\ appended[h] > 0 /\ channel = <<>>
    /\ fulfilled[h] = job[h].targets
    /\ advances = 0 => playing = Song(h, 1)

TrackInv(h) == Alone(h) =>
    /\ Kind(h) \in {"play", "only"} => OnTrack(h) \/ OffTrack(h) \/ Won(h)
    /\ Kind(h) = "after" => OnTrack(h) \/ Off(h)

-----------------------------------------------------------------------------
(* MPD's commands.                                                         *)

USE UserAssumption, WorkloadsAssumption, BoundsAssumption

LEMMA RequestType == ASSUME HandlerType, NEW h \in Handlers
    PROVE /\ IsRequest(job[h]) /\ Len(job[h].targets) \in Nat \ {0}
          /\ Kind(h) \in Adding \cup {"each", "none"}
          /\ Kind(h) \in Adding => job[h].targets \in Seq(Nat)
<1>1. IsRequest(job[h])
  BY DEF HandlerType
<1>2. QED BY <1>1 DEF IsRequest, Kind

\* Songs are equal when they are the same one of the same who.
LEMMA SongFields == \A who, n : Song(who, n).by = who /\ Song(who, n).n = n
BY DEF Song

LEMMA NoSongHasNoId == NoSong \notin Ids
BY DEF NoSong, Song, Ids

\* The songs MPD adds are new ones of h.
LEMMA FreshSongs ==
    ASSUME QueueType, NEW h \in Handlers, NEW n \in Nat
    PROVE  /\ Fresh(h, n) \in Seq(Ids) /\ Len(Fresh(h, n)) = n /\ IsInjective(Fresh(h, n))
           /\ \A i \in 1..n : Fresh(h, n)[i] = Song(h, appended[h] + i)
           /\ \A x : Contains(Fresh(h, n), x) =>
                  x \in Ids /\ x.by = h /\ x.n > appended[h] /\ x.n <= appended[h] + n
           /\ \A x : Contains(queue, x) => ~Contains(Fresh(h, n), x)
<1> DEFINE t == Fresh(h, n)
<1>1. appended[h] \in Nat
  BY DEF QueueType
<1>2. \A i \in 1..n : Song(h, appended[h] + i) \in Ids
  BY <1>1 DEF Song, Ids
<1>3. t = [i \in 1..n |-> Song(h, appended[h] + i)]
  BY DEF Fresh
<1>4. t \in Seq(Ids) /\ Len(t) = n /\ \A i \in 1..n : t[i] = Song(h, appended[h] + i)
  BY <1>2, <1>3
<1> HIDE DEF t
<1>5. \A i \in 1..n : t[i] \in Ids /\ t[i].by = h /\ t[i].n = appended[h] + i
  BY <1>2, <1>4, SongFields
<1>6. IsInjective(t)
  <2> SUFFICES ASSUME NEW i \in 1..n, NEW j \in 1..n, i # j PROVE t[i] # t[j]
    BY <1>4 DEF IsInjective
  <2>1. appended[h] + i # appended[h] + j
    BY <1>1
  <2>2. QED BY <1>5, <2>1
<1>7. \A x : Contains(t, x) => x \in Ids /\ x.by = h /\ x.n > appended[h] /\ x.n <= appended[h] + n
  <2> SUFFICES ASSUME NEW i \in 1..n
               PROVE  t[i] \in Ids /\ t[i].by = h /\ t[i].n > appended[h] /\ t[i].n <= appended[h] + n
    BY <1>4 DEF Contains
  <2>1. appended[h] + i > appended[h] /\ appended[h] + i <= appended[h] + n
    BY <1>1
  <2>2. QED BY <1>5, <2>1
<1>8. \A x : Contains(queue, x) => ~Contains(t, x)
  <2> SUFFICES ASSUME NEW i \in 1..Len(queue), Contains(t, queue[i]) PROVE FALSE
    BY DEF Contains
  <2>1. queue[i].by = h /\ queue[i].n > appended[h] /\ queue[i] \in Ids
    BY <1>7
  <2>2. h # User
    OBVIOUS
  <2>3. queue[i].n <= appended[h]
    BY <2>1, <2>2 DEF QueueType
  <2>4. QED BY <1>1, <2>1, <2>3 DEF Ids
<1>9. QED BY <1>4, <1>6, <1>7, <1>8 DEF t

\* What the queue may become, command by command.
LEMMA BecomesCases ==
    ASSUME NEW cmd, NEW h, QueueType
    PROVE  LET n == Len(queue) IN
           /\ cmd.op = "add" => Becomes(cmd, h) = {queue \o Fresh(h, cmd.a)}
           /\ cmd.op = "delete" => Becomes(cmd, h) = {Cut(queue, cmd.a, IF cmd.b <= n THEN cmd.b ELSE n)}
           /\ cmd.op = "move" /\ cmd.b <= n => Becomes(cmd, h) = {Moved(queue, cmd.a, cmd.b, cmd.c)}
           /\ cmd.op = "deleteid" => Becomes(cmd, h) = {RemoveFirst(queue, cmd.a)}
           /\ cmd.op = "moveid" =>
                 Becomes(cmd, h) = {InsertAt(RemoveFirst(queue, cmd.a), cmd.b + 1, cmd.a)}
           /\ cmd.op = "clear" => Becomes(cmd, h) = {<<>>}
           /\ cmd.op = "shuffle" => Becomes(cmd, h) = Orderings
           /\ cmd.op \in {"status", "play", "playid"} => Becomes(cmd, h) = {queue}
<1>1. \A q, m : Slice(q, 0, m) = SubSeq(q, 1, m)
  BY DEF Slice
<1>2. \A q, m, e : Slice(q, 0, m) \o Slice(q, e, Len(q)) = Cut(q, m, e)
  BY <1>1 DEF Slice, Cut
<1>3. cmd.op = "delete" => Becomes(cmd, h) = {Cut(queue, cmd.a, IF cmd.b <= Len(queue) THEN cmd.b ELSE Len(queue))}
  BY <1>2 DEF Becomes
<1>4. cmd.op = "move" /\ cmd.b <= Len(queue) => Becomes(cmd, h) = {Moved(queue, cmd.a, cmd.b, cmd.c)}
  <2> SUFFICES ASSUME cmd.op = "move", cmd.b <= Len(queue)
               PROVE  Becomes(cmd, h) = {Moved(queue, cmd.a, cmd.b, cmd.c)}
    OBVIOUS
  <2> DEFINE rest == Slice(queue, 0, cmd.a) \o Slice(queue, cmd.b, Len(queue))
  <2>1. rest = Cut(queue, cmd.a, cmd.b)
    BY <1>2
  <2>2. Becomes(cmd, h) = {Slice(rest, 0, cmd.c) \o Slice(queue, cmd.a, cmd.b)
                                \o Slice(rest, cmd.c, Len(rest))}
    BY <2>1 DEF Becomes
  <2> HIDE DEF rest
  <2>3. QED BY <1>1, <2>1, <2>2 DEF Slice, Moved
<1>5. QED BY <1>3, <1>4 DEF Becomes, Without

\* The end of a range is clamped to the queue.
LEMMA DeleteRange ==
    ASSUME QueueType, NEW cmd, IsSent(cmd), cmd.op = "delete", ~Refuses(cmd)
    PROVE  LET e == IF cmd.b <= Len(queue) THEN cmd.b ELSE Len(queue) IN
           e \in Nat /\ cmd.a \in Nat /\ cmd.a <= e /\ e <= Len(queue) /\ Len(queue) \in Nat
<1>1. Len(queue) \in Nat
  BY DEF QueueType
<1>2. QED BY <1>1 DEF IsSent, Refuses

LEMMA MoveRange ==
    ASSUME QueueType, NEW cmd, IsSent(cmd), cmd.op = "move", ~Refuses(cmd)
    PROVE  /\ cmd.a \in Nat /\ cmd.b \in Nat /\ cmd.c \in Nat /\ Len(queue) \in Nat
           /\ cmd.c < cmd.a /\ cmd.a < cmd.b /\ cmd.b <= Len(queue)
<1>1. Len(queue) \in Nat
  BY DEF QueueType
<1>2. QED BY <1>1 DEF IsSent, Refuses

\* No command makes MPD list a song twice, and only adding makes it list others.
LEMMA BecomesEffect ==
    ASSUME QueueType, NEW cmd, IsSent(cmd), ~Refuses(cmd), NEW q \in Becomes(cmd, cmd.by)
    PROVE  /\ q \in Seq(Ids) /\ IsInjective(q)
           /\ \A x : Contains(q, x) => \/ Contains(queue, x)
                                       \/ cmd.op = "add" /\ Contains(Fresh(cmd.by, cmd.a), x)
<1>0. queue \in Seq(Ids) /\ IsInjective(queue) /\ Len(queue) \in Nat /\ cmd.by \in Handlers
  BY DEF QueueType, IsSent
<1>1. CASE cmd.op = "add"
  <2>1. cmd.a \in Nat
    BY <1>1 DEF IsSent
  <2>2. q = queue \o Fresh(cmd.by, cmd.a)
    BY <1>1, BecomesCases
  <2>3. /\ Fresh(cmd.by, cmd.a) \in Seq(Ids) /\ IsInjective(Fresh(cmd.by, cmd.a))
        /\ \A x : Contains(queue, x) => ~Contains(Fresh(cmd.by, cmd.a), x)
    BY <1>0, <2>1, FreshSongs
  <2>4. QED BY <1>0, <1>1, <2>2, <2>3, ConcatProperties, ConcatKeeps
<1>2. CASE cmd.op = "delete"
  <2> DEFINE e == IF cmd.b <= Len(queue) THEN cmd.b ELSE Len(queue)
  <2>1. e \in Nat /\ cmd.a \in Nat /\ cmd.a <= e /\ e <= Len(queue)
    BY <1>2, DeleteRange
  <2>2. q = Cut(queue, cmd.a, e)
    BY <1>2, BecomesCases
  <2> HIDE DEF e
  <2>3. q \in Seq(Ids)
    BY <1>0, <2>1, <2>2, CutEffect
  <2>4. IsInjective(q) /\ \A x : Contains(q, x) => \E i \in 1..Len(queue) : queue[i] = x
    BY <1>0, <2>1, <2>2, CutKeeps
  <2>5. QED BY <2>3, <2>4 DEF Contains
<1>3. CASE cmd.op = "move"
  <2>1. /\ cmd.a \in Nat /\ cmd.b \in Nat /\ cmd.c \in Nat
        /\ cmd.c <= cmd.a /\ cmd.a <= cmd.b /\ cmd.b <= Len(queue)
    BY <1>3, MoveRange
  <2>2. q = Moved(queue, cmd.a, cmd.b, cmd.c)
    BY <1>3, <2>1, BecomesCases
  <2>3. q \in Seq(Ids)
    BY <1>0, <2>1, <2>2, MoveEffect
  <2>4. QED BY <1>0, <2>1, <2>2, <2>3, MoveKeeps
<1>4. CASE cmd.op = "deleteid"
  <2>1. q = RemoveFirst(queue, cmd.a)
    BY <1>4, BecomesCases
  <2>2. QED BY <1>0, <2>1, RemoveFirstEffect
<1>5. CASE cmd.op = "moveid"
  <2> DEFINE r == RemoveFirst(queue, cmd.a)
  <2>1. q = InsertAt(r, cmd.b + 1, cmd.a)
    BY <1>5, BecomesCases
  <2>2. cmd.a \in Ids /\ cmd.b \in Nat /\ Contains(queue, cmd.a) /\ cmd.b < Len(queue)
    BY <1>0, <1>5 DEF IsSent, Refuses, ById
  <2>3. /\ r \in Seq(Ids) /\ IsInjective(r) /\ Len(r) = Len(queue) - 1
        /\ \A x : Contains(r, x) <=> Contains(queue, x) /\ x # cmd.a
    BY <1>0, <2>2, RemoveFirstEffect
  <2> HIDE DEF r
  <2>4. cmd.b + 1 \in 1..(Len(r) + 1) /\ ~Contains(r, cmd.a)
    BY <1>0, <2>2, <2>3
  <2>5. /\ q \in Seq(Ids) /\ IsInjective(q)
        /\ \A x : Contains(q, x) <=> Contains(r, x) \/ x = cmd.a
    BY <2>1, <2>2, <2>3, <2>4, InsertEffect
  <2>6. QED BY <2>2, <2>3, <2>5
<1>6. CASE cmd.op = "clear"
  <2>1. q = <<>>
    BY <1>6, BecomesCases
  <2>2. QED BY <2>1 DEF IsInjective, Contains
<1>7. CASE cmd.op = "shuffle"
  <2>1. q \in [1..Len(queue) -> Range(queue)] /\ IsInjective(q)
    BY <1>7, BecomesCases DEF Orderings
  <2>2. Range(queue) = {queue[i] : i \in 1..Len(queue)}
    BY <1>0 DEF Range
  <2>3. \A i \in 1..Len(queue) : q[i] \in Ids /\ \E j \in 1..Len(queue) : queue[j] = q[i]
    BY <1>0, <2>1, <2>2
  <2>4. q \in Seq(Ids) /\ Len(q) = Len(queue)
    BY <1>0, <2>1, <2>3
  <2>5. QED BY <2>1, <2>3, <2>4 DEF Contains
<1>8. CASE cmd.op \in {"status", "play", "playid"}
  BY <1>0, <1>8, BecomesCases
<1>9. QED BY <1>1, <1>2, <1>3, <1>4, <1>5, <1>6, <1>7, <1>8 DEF IsSent, Ops, ById

\* Where a song is.
LEMMA PositionIs ==
    ASSUME NEW q \in Seq(Ids), IsInjective(q), NEW i \in 1..Len(q)
    PROVE  Position(q, q[i]) = i - 1
<1>1. Contains(q, q[i])
  BY DEF Contains
<1>2. {k \in 1..Len(q) : q[k] = q[i]} = {i}
  BY DEF IsInjective
<1>3. SelectInSeq(q, LAMBDA x : x = q[i]) = i
  BY <1>2 DEF SelectInSeq, Min
<1>4. QED BY <1>1, <1>3 DEF Position

LEMMA PositionType ==
    ASSUME NEW q \in Seq(Ids), IsInjective(q), NEW x
    PROVE  /\ Position(q, x) \in Nat \cup {-1} /\ Position(q, x) < Len(q)
           /\ Contains(q, x) => Position(q, x) \in Nat /\ q[Position(q, x) + 1] = x
           /\ ~Contains(q, x) => Position(q, x) = -1
<1>0. Len(q) \in Nat
  OBVIOUS
<1>1. CASE Contains(q, x)
  <2>1. PICK i \in 1..Len(q) : q[i] = x
    BY <1>1 DEF Contains
  <2>2. Position(q, x) = i - 1
    BY <2>1, PositionIs
  <2>3. QED BY <1>0, <1>1, <2>1, <2>2
<1>2. CASE ~Contains(q, x)
  BY <1>0, <1>2 DEF Position
<1>3. QED BY <1>1, <1>2

\* What plays after a command is in the queue.
LEMMA PlayingType ==
    ASSUME QueueType, NEW cmd, IsSent(cmd), ~Refuses(cmd), NEW q \in Becomes(cmd, cmd.by)
    PROVE  PlayingAfter(cmd, q) = NoSong \/ Contains(q, PlayingAfter(cmd, q))
<1>0. q \in Seq(Ids) /\ Len(q) \in Nat /\ queue \in Seq(Ids) /\ IsInjective(queue)
  BY BecomesEffect DEF QueueType
<1> DEFINE from == IF cmd.op = "delete" THEN cmd.a ELSE Position(queue, playing)
<1>1. CASE cmd.op = "play"
  <2>1. q = queue /\ Len(queue) # 0
    BY <1>1, BecomesCases DEF Refuses
  <2>2. PlayingAfter(cmd, q) = q[1]
    BY <1>1 DEF PlayingAfter
  <2>3. 1 \in 1..Len(q)
    BY <1>0, <2>1
  <2>4. QED BY <2>2, <2>3 DEF Contains
<1>2. CASE cmd.op = "playid"
  <2>1. q = queue /\ Contains(queue, cmd.a)
    BY <1>2, BecomesCases DEF Refuses
  <2>2. QED BY <1>2, <2>1 DEF PlayingAfter
<1>3. CASE cmd.op \notin {"play", "playid"} /\ (playing = NoSong \/ Contains(q, playing))
  BY <1>3 DEF PlayingAfter
<1>4. CASE cmd.op \notin {"play", "playid"} /\ ~(playing = NoSong \/ Contains(q, playing))
  <2>1. PlayingAfter(cmd, q) = IF from < Len(q) THEN q[from + 1] ELSE NoSong
    BY <1>4 DEF PlayingAfter
  <2>2. from \in Nat
    <3>1. Contains(queue, playing)
      BY <1>4 DEF QueueType
    <3>2. Position(queue, playing) \in Nat
      BY <1>0, <3>1, PositionType
    <3>3. cmd.op = "delete" => cmd.a \in Nat
      BY DEF IsSent
    <3>4. QED BY <3>2, <3>3
  <2> HIDE DEF from
  <2>3. from < Len(q) => from + 1 \in 1..Len(q)
    BY <1>0, <2>2
  <2>4. QED BY <2>1, <2>3 DEF Contains
<1>5. QED BY <1>1, <1>2, <1>3, <1>4

-----------------------------------------------------------------------------
(* Types.                                                                  *)

\* The command at the head of the channel, and what is left behind it.
LEMMA OldestCommand ==
    ASSUME ChannelType, channel # <<>>
    PROVE  /\ Len(channel) \in Nat \ {0} /\ Head(channel) = channel[1] /\ IsSent(Head(channel))
           /\ Tail(channel) \in Seq(Range(channel)) /\ Len(Tail(channel)) = Len(channel) - 1
           /\ \A i \in 1..Len(Tail(channel)) : i + 1 \in 1..Len(channel)
                                              /\ Tail(channel)[i] = channel[i + 1]
<1>1. channel \in Seq(Range(channel)) /\ Len(channel) \in Nat \ {0}
  BY EmptySeq DEF ChannelType
<1>2. Head(channel) = channel[1]
  BY <1>1
<1>3. /\ Tail(channel) \in Seq(Range(channel)) /\ Len(Tail(channel)) = Len(channel) - 1
      /\ \A i \in 1..Len(Tail(channel)) : Tail(channel)[i] = channel[i + 1]
  BY <1>1, HeadTailProperties
<1>4. 1 \in 1..Len(channel) /\ \A i \in 1..Len(Tail(channel)) : i + 1 \in 1..Len(channel)
  BY <1>1, <1>3
<1>5. QED BY <1>1, <1>2, <1>3, <1>4 DEF ChannelType

\* The oldest command leaves the channel, and its sender is answered if it waits.
LEMMA AnswerType ==
    ASSUME ChannelType, HandlerType, channel # <<>>, NEW r \in Replies,
           Answer(Head(channel).by, r)
    PROVE  /\ ChannelType' /\ reply' \in [Handlers -> Replies]
           /\ \A g \in Handlers : reply'[g] = IF /\ g = Head(channel).by /\ reply[g].status = "none"
                                                 /\ Head(channel).awaited
                                              THEN r ELSE reply[g]
<1>1. Head(channel).by \in Handlers
  BY OldestCommand DEF IsSent
<1>2. reply' \in [Handlers -> Replies]
  BY DEF Answer, HandlerType
<1>3. channel' = Tail(channel)
  BY DEF Answer
<1>4. channel' \in Seq(Range(channel')) /\ \A i \in 1..Len(channel') : IsSent(channel'[i])
  BY <1>3, OldestCommand, SeqOfRange DEF ChannelType
<1>5. QED BY <1>1, <1>2, <1>4 DEF Answer, HandlerType, ChannelType

LEMMA ReplyTypes ==
    /\ None \in Replies /\ \A s \in {"ACK", "lost"} : Failed(s) \in Replies
    /\ \A n \in Nat, p \in Nat \cup {-1} : [status |-> "OK", len |-> n, pos |-> p] \in Replies
BY DEF None, Failed, Replies

LEMMA ExecuteType == ASSUME TypeOK, Execute PROVE TypeOK'
<1> DEFINE cmd == Head(channel)
<1>0. QueueType /\ OldType /\ ChannelType /\ HandlerType /\ BoundsType
  BY DEF TypeOK
<1>1. channel # <<>> /\ IsSent(cmd) /\ cmd.by \in Handlers
  BY <1>0, OldestCommand DEF Execute, IsSent
<1>2. /\ OldType' /\ BoundsType'
      /\ UNCHANGED <<job, pc, result, oldLen, before, added, at, target>>
  BY <1>0 DEF Execute, OldType, BoundsType, localVars, bounds
<1> HIDE DEF cmd
<1>3. CASE Refuses(cmd)
  <2>1. Answer(cmd.by, Failed("ACK")) /\ UNCHANGED mpdVars
    BY <1>3 DEF Execute, cmd
  <2>2. ChannelType' /\ reply' \in [Handlers -> Replies]
    BY <1>0, <1>1, <2>1, ReplyTypes, AnswerType DEF cmd
  <2>3. QueueType'
    BY <1>0, <1>2, <2>1 DEF QueueType, mpdVars, Execute
  <2>4. HandlerType'
    BY <1>0, <1>2, <2>2 DEF HandlerType
  <2>5. QED BY <1>2, <2>2, <2>3, <2>4 DEF TypeOK
<1>4. CASE ~Refuses(cmd)
  <2>1. /\ queue' \in Becomes(cmd, cmd.by)
        /\ playing' = PlayingAfter(cmd, queue')
        /\ Answer(cmd.by, [status |-> "OK", len |-> Len(queue), pos |-> Position(queue, playing)])
    BY <1>4 DEF Execute, cmd
  <2>2. \/ /\ cmd.op = "add"
           /\ appended' = [appended EXCEPT ![cmd.by] = @ + cmd.a]
           /\ fulfilled' = [fulfilled EXCEPT ![cmd.by] = Append(@, cmd.a)]
        \/ cmd.op # "add" /\ UNCHANGED <<appended, fulfilled>>
    BY <1>4 DEF Execute, cmd
  <2>3. Len(queue) \in Nat /\ Position(queue, playing) \in Nat \cup {-1}
    BY <1>0, PositionType DEF QueueType
  <2>4. ChannelType' /\ reply' \in [Handlers -> Replies]
    BY <1>0, <1>1, <2>1, <2>3, ReplyTypes, AnswerType DEF cmd
  <2>5. HandlerType'
    BY <1>0, <1>2, <2>4 DEF HandlerType
  <2>6. /\ queue' \in Seq(Ids) /\ IsInjective(queue')
        /\ \A x : Contains(queue', x) => \/ Contains(queue, x)
                                         \/ cmd.op = "add" /\ Contains(Fresh(cmd.by, cmd.a), x)
    BY <1>0, <1>1, <1>4, <2>1, BecomesEffect
  <2>7. playing' = NoSong \/ Contains(queue', playing')
    BY <1>0, <1>1, <1>4, <2>1, PlayingType
  <2>8. /\ appended' \in [Handlers -> Nat] /\ fulfilled' \in [Handlers -> Seq(Nat)]
        /\ \A g \in Handlers : appended'[g] = IF cmd.op = "add" /\ g = cmd.by
                                              THEN appended[g] + cmd.a ELSE appended[g]
    <3>1. cmd.op = "add" => cmd.a \in Nat
      BY <1>1 DEF IsSent
    <3>2. appended \in [Handlers -> Nat] /\ fulfilled \in [Handlers -> Seq(Nat)]
      BY <1>0 DEF QueueType
    <3>3. CASE cmd.op = "add"
      <4>1. Append(fulfilled[cmd.by], cmd.a) \in Seq(Nat)
        BY <1>1, <3>1, <3>2, <3>3
      <4>2. appended[cmd.by] + cmd.a \in Nat
        BY <1>1, <3>1, <3>2, <3>3
      <4>3. /\ appended' = [appended EXCEPT ![cmd.by] = appended[cmd.by] + cmd.a]
            /\ fulfilled' = [fulfilled EXCEPT ![cmd.by] = Append(fulfilled[cmd.by], cmd.a)]
        BY <2>2, <3>3
      <4>4. fulfilled' \in [Handlers -> Seq(Nat)]
        BY ONLY <3>2, <4>1, <4>3
      <4>5. QED BY <1>1, <3>2, <3>3, <4>2, <4>3, <4>4
    <3>4. CASE cmd.op # "add"
      BY <2>2, <3>2, <3>4
    <3>5. QED BY <3>3, <3>4
  <2>9. ASSUME NEW i \in 1..Len(queue')
        PROVE  queue'[i].n <= IF queue'[i].by = User THEN Len(old') ELSE appended'[queue'[i].by]
    <3> DEFINE x == queue'[i]
    <3>1. x \in Ids /\ Contains(queue', x)
      BY <2>6 DEF Contains
    <3>2. CASE Contains(queue, x)
      <4>1. PICK j \in 1..Len(queue) : queue[j] = x
        BY <3>2 DEF Contains
      <4>2. x.n <= IF x.by = User THEN Len(old) ELSE appended[x.by]
        BY <1>0, <4>1 DEF QueueType
      <4>3. x.by # User => appended[x.by] <= appended'[x.by] /\ appended[x.by] \in Nat
                           /\ appended'[x.by] \in Nat
        <5>1. cmd.op = "add" => cmd.a \in Nat
          BY <1>1 DEF IsSent
        <5>2. x.by # User => x.by \in Handlers
          BY <3>1 DEF Ids
        <5>3. QED BY <1>0, <2>8, <5>1, <5>2 DEF QueueType
      <4>4. x.n \in Nat /\ old' = old
        BY <3>1 DEF Ids, Execute
      <4> HIDE DEF x
      <4>5. x.n <= IF x.by = User THEN Len(old') ELSE appended'[x.by]
        BY <4>2, <4>3, <4>4
      <4>6. QED BY <4>5 DEF x
    <3>3. CASE ~Contains(queue, x)
      <4>1. cmd.op = "add" /\ Contains(Fresh(cmd.by, cmd.a), x)
        BY <2>6, <3>1, <3>3
      <4>2. cmd.a \in Nat
        BY <1>1, <4>1 DEF IsSent
      <4>3. x.by = cmd.by /\ x.n <= appended[cmd.by] + cmd.a
        BY <1>0, <1>1, <4>1, <4>2, FreshSongs
      <4>4. x.by # User /\ appended'[cmd.by] = appended[cmd.by] + cmd.a
        BY <1>1, <2>8, <4>1, <4>3
      <4>5. QED BY <4>3, <4>4
    <3>4. QED BY <3>2, <3>3
  <2>10. QueueType'
    BY <2>6, <2>7, <2>8, <2>9 DEF QueueType
  <2>11. QED BY <1>2, <2>4, <2>5, <2>10 DEF TypeOK
<1>5. QED BY <1>3, <1>4

\* The other steps of MPD, and a request given up.
LEMMA FailureType ==
    ASSUME TypeOK, RefuseAdd \/ LoseCommand \/ Advance \/ \E h \in Handlers : GiveUp(h)
    PROVE  TypeOK'
<1>0. QueueType /\ OldType /\ ChannelType /\ HandlerType /\ BoundsType
  BY DEF TypeOK
<1>1. CASE RefuseAdd \/ LoseCommand
  <2>1. PICK s \in {"ACK", "lost"} : Answer(Head(channel).by, Failed(s))
    BY <1>1 DEF RefuseAdd, LoseCommand
  <2>2. channel # <<>> /\ UNCHANGED <<mpdVars, job, pc, result, localVars, old, advances>>
        /\ failures < MaxFailures /\ failures' = failures + 1
    BY <1>1 DEF RefuseAdd, LoseCommand
  <2>3. ChannelType' /\ reply' \in [Handlers -> Replies]
    BY <1>0, <2>1, <2>2, ReplyTypes, AnswerType
  <2>4. QueueType' /\ OldType' /\ BoundsType'
    BY <1>0, <2>2 DEF QueueType, OldType, BoundsType, mpdVars
  <2>5. HandlerType'
    BY <1>0, <2>2, <2>3 DEF HandlerType, localVars
  <2>6. QED BY <2>3, <2>4, <2>5 DEF TypeOK
<1>2. CASE Advance
  <2> DEFINE p == Position(queue, playing)
  <2>1. queue \in Seq(Ids) /\ Len(queue) \in Nat /\ p \in Nat
    <3>1. Contains(queue, playing)
      BY <1>0, <1>2 DEF QueueType, Advance
    <3>2. QED BY <1>0, <3>1, PositionType DEF QueueType
  <2>2. playing' = IF p + 1 < Len(queue) THEN queue[p + 2] ELSE NoSong
    BY <1>2 DEF Advance
  <2> HIDE DEF p
  <2>3. p + 1 < Len(queue) => p + 2 \in 1..Len(queue)
    BY <2>1
  <2>4. playing' = NoSong \/ Contains(queue, playing')
    BY <2>2, <2>3 DEF Contains
  <2>5. QueueType'
    BY <1>0, <1>2, <2>4 DEF QueueType, Advance
  <2>6. OldType' /\ ChannelType' /\ HandlerType'
    BY <1>0, <1>2 DEF OldType, ChannelType, HandlerType, localVars, Advance
  <2>7. BoundsType'
    BY <1>0, <1>2 DEF BoundsType, Advance
  <2>8. QED BY <2>5, <2>6, <2>7 DEF TypeOK
<1>3. ASSUME NEW h \in Handlers, GiveUp(h) PROVE TypeOK'
  <2>1. QueueType' /\ OldType' /\ BoundsType'
    BY <1>0, <1>3 DEF QueueType, OldType, BoundsType, mpdVars, GiveUp
  <2>2. HandlerType'
    BY <1>0, <1>3, ReplyTypes DEF HandlerType, localVars, GiveUp
  <2>3. ChannelType'
    <3>1. DOMAIN channel = 1..Len(channel) /\ Len(channel) \in Nat
      BY <1>0 DEF ChannelType
    <3> DEFINE give(i) == IF channel[i].by = h THEN [channel[i] EXCEPT !.awaited = FALSE]
                          ELSE channel[i]
    <3>2. channel' = [i \in 1..Len(channel) |-> give(i)]
      BY <1>3, <3>1 DEF GiveUp
    <3> DEFINE T == {give(i) : i \in 1..Len(channel)}
    <3> HIDE DEF give
    <3>3. channel' \in Seq(T) /\ Len(channel') = Len(channel)
      <4>1. \A i \in 1..Len(channel) : give(i) \in T
        OBVIOUS
      <4> HIDE DEF T
      <4>2. QED BY <3>1, <3>2, <4>1
    <3> USE DEF give
    <3>4. ASSUME NEW i \in 1..Len(channel) PROVE IsSent(give(i))
      BY <1>0 DEF ChannelType, IsSent
    <3>5. QED BY <3>2, <3>3, <3>4, SeqOfRange DEF ChannelType
  <2>4. QED BY <2>1, <2>2, <2>3 DEF TypeOK
<1>4. QED BY <1>1, <1>2, <1>3

-----------------------------------------------------------------------------
(* The steps of the handlers.                                              *)

Sent(h, cmd) == [op |-> cmd.op, a |-> cmd.a, b |-> cmd.b, c |-> cmd.c, by |-> h, awaited |-> TRUE]

LEMMA SentFields == \A h, cmd : LET s == Sent(h, cmd) IN
    /\ s.op = cmd.op /\ s.a = cmd.a /\ s.b = cmd.b /\ s.c = cmd.c
    /\ s.by = h /\ s.awaited = TRUE /\ DOMAIN s = {"op", "a", "b", "c", "by", "awaited"}
BY DEF Sent

\* A step of h leaves the other handlers' variables alone.
OthersKept(h) == \A g \in Handlers \ {h} :
    /\ pc'[g] = pc[g] /\ reply'[g] = reply[g] /\ result'[g] = result[g]
    /\ oldLen'[g] = oldLen[g] /\ before'[g] = before[g] /\ added'[g] = added[g]
    /\ at'[g] = at[g] /\ target'[g] = target[g]

\* The command goes to the end of the channel.
LEMMA SendEffect ==
    ASSUME ChannelType, HandlerType, NEW h \in Handlers, NEW step \in Steps,
           NEW cmd, IsSent(Sent(h, cmd)), Send(h, step, cmd)
    PROVE  /\ ChannelType' /\ Len(channel') = Len(channel) + 1 /\ Len(channel) \in Nat
           /\ channel'[Len(channel) + 1] = Sent(h, cmd)
           /\ \A i \in 1..Len(channel) : channel'[i] = channel[i]
           /\ pc' \in [Handlers -> Steps] /\ pc'[h] = step
           /\ reply' \in [Handlers -> Replies] /\ reply'[h] = None
           /\ result' = result
           /\ \A g \in Handlers \ {h} : pc'[g] = pc[g] /\ reply'[g] = reply[g]
<1> DEFINE s == Sent(h, cmd)
           T == Range(channel) \cup {s}
<1>1. channel' = Append(channel, s)
  BY DEF Send, Sent
<1>2. channel \in Seq(Range(channel)) /\ Len(channel) \in Nat
  BY DEF ChannelType
<1> HIDE DEF s
<1>3. channel \in Seq(T) /\ s \in T
  BY <1>2, SeqMonotonic
<1> HIDE DEF T
<1>4. /\ channel' \in Seq(T) /\ Len(channel') = Len(channel) + 1
      /\ channel'[Len(channel) + 1] = s
      /\ \A i \in 1..Len(channel) : channel'[i] = channel[i]
  BY <1>1, <1>3, AppendProperties
<1>5. IsSent(s)
  BY DEF s
<1>6. \A i \in 1..Len(channel') : IsSent(channel'[i])
  <2> SUFFICES ASSUME NEW i \in 1..Len(channel') PROVE IsSent(channel'[i])
    OBVIOUS
  <2>1. CASE i <= Len(channel)
    BY <1>2, <1>4, <2>1 DEF ChannelType
  <2>2. CASE i = Len(channel) + 1
    BY <1>4, <1>5, <2>2
  <2>3. QED BY <1>2, <1>4, <2>1, <2>2
<1>7. ChannelType'
  BY <1>4, <1>6, SeqOfRange DEF ChannelType
<1>8. /\ pc' \in [Handlers -> Steps] /\ pc'[h] = step
      /\ reply' \in [Handlers -> Replies] /\ reply'[h] = None
      /\ result' = result
      /\ \A g \in Handlers \ {h} : pc'[g] = pc[g] /\ reply'[g] = reply[g]
  BY ReplyTypes DEF Send, HandlerType
<1>9. QED BY <1>2, <1>4, <1>7, <1>8 DEF s

LEMMA FinishEffect ==
    ASSUME ChannelType, HandlerType, NEW h \in Handlers, NEW res \in {"ok", "error"}, Finish(h, res)
    PROVE  /\ ChannelType' /\ channel' = channel
           /\ pc' \in [Handlers -> Steps] /\ pc'[h] = "done"
           /\ reply' \in [Handlers -> Replies] /\ reply'[h] = None
           /\ result' \in [Handlers -> {"none", "ok", "error"}] /\ result'[h] = res
           /\ \A g \in Handlers \ {h} : pc'[g] = pc[g] /\ reply'[g] = reply[g] /\ result'[g] = result[g]
BY ReplyTypes DEF Finish, HandlerType, ChannelType, Steps

LEMMA SentIsSent ==
    ASSUME NEW h \in Handlers, NEW cmd, cmd.op \in Ops,
           cmd.op = "add" => cmd.a \in Nat,
           cmd.op = "delete" => cmd.a \in Nat /\ cmd.b \in Nat /\ cmd.a <= cmd.b,
           cmd.op = "move" => /\ cmd.a \in Nat /\ cmd.b \in Nat /\ cmd.c \in Nat
                              /\ cmd.c < cmd.a /\ cmd.a < cmd.b,
           cmd.op \in ById => cmd.a \in Ids,
           cmd.op = "moveid" => cmd.b \in Nat
    PROVE  IsSent(Sent(h, cmd))
<1> DEFINE s == Sent(h, cmd)
<1>1. /\ s.op = cmd.op /\ s.a = cmd.a /\ s.b = cmd.b /\ s.c = cmd.c
      /\ s.by = h /\ s.awaited = TRUE
  BY SentFields
<1>2. DOMAIN s = {"op", "a", "b", "c", "by", "awaited"}
  BY DEF Sent
<1> HIDE DEF s
<1>3. s.awaited \in BOOLEAN
  BY <1>1
<1>4. IsSent(s)
  BY <1>1, <1>2, <1>3 DEF IsSent
<1>5. QED BY <1>4 DEF s

LEMMA CommandFields ==
    /\ StatusCmd.op = "status" /\ PlayCmd.op = "play"
    /\ \A n : AddCmd(n).op = "add" /\ AddCmd(n).a = n
    /\ \A n, m : DeleteCmd(n, m).op = "delete" /\ DeleteCmd(n, m).a = n /\ DeleteCmd(n, m).b = m
    /\ \A n, m, p : /\ MoveCmd(n, m, p).op = "move"
                    /\ MoveCmd(n, m, p).a = n /\ MoveCmd(n, m, p).b = m /\ MoveCmd(n, m, p).c = p
BY DEF StatusCmd, PlayCmd, AddCmd, DeleteCmd, MoveCmd

\* The commands the handlers send are ones MPD understands.
LEMMA CommandTypes ==
    ASSUME HandlerType, NEW h \in Handlers
    PROVE  /\ IsSent(Sent(h, StatusCmd)) /\ IsSent(Sent(h, PlayCmd))
           /\ Kind(h) \in Adding => \A i \in 1..Len(job[h].targets) : IsSent(Sent(h, AddCmd(job[h].targets[i])))
           /\ Kind(h) = "each" => \A i \in 1..Len(job[h].targets) : IsSent(Sent(h, job[h].targets[i]))
           /\ \A n, m \in Nat : n <= m => IsSent(Sent(h, DeleteCmd(n, m)))
           /\ \A n, m, p \in Nat : p < n /\ n < m => IsSent(Sent(h, MoveCmd(n, m, p)))
<1> USE CommandFields, SentIsSent DEF Ops, ById
<1>1. IsSent(Sent(h, StatusCmd)) /\ IsSent(Sent(h, PlayCmd))
  OBVIOUS
<1>2. ASSUME Kind(h) \in Adding, NEW i \in 1..Len(job[h].targets)
      PROVE  IsSent(Sent(h, AddCmd(job[h].targets[i])))
  <2>1. job[h].targets[i] \in Nat
    BY <1>2, RequestType
  <2>2. QED BY <2>1
<1>3. ASSUME Kind(h) = "each", NEW i \in 1..Len(job[h].targets)
      PROVE  IsSent(Sent(h, job[h].targets[i]))
  <2> DEFINE t == job[h].targets[i]
  <2>1. RouteCommand(t)
    BY <1>3, RequestType DEF IsRequest, Kind
  <2> HIDE DEF t
  <2>2. IsSent(Sent(h, t))
    BY <2>1 DEF RouteCommand
  <2>3. QED BY <2>2 DEF t
<1>4. ASSUME NEW n \in Nat, NEW m \in Nat, n <= m PROVE IsSent(Sent(h, DeleteCmd(n, m)))
  BY <1>4
<1>5. ASSUME NEW n \in Nat, NEW m \in Nat, NEW p \in Nat, p < n, n < m
      PROVE  IsSent(Sent(h, MoveCmd(n, m, p)))
  BY <1>5
<1>6. QED BY <1>1, <1>2, <1>3, <1>4, <1>5

\* What a step of h does to the connection, and to its own variables.
Acts(h) ==
    /\ ChannelType' /\ pc' \in [Handlers -> Steps] /\ reply' \in [Handlers -> Replies]
    /\ result' \in [Handlers -> {"none", "ok", "error"}]
    /\ reply'[h] = None
    /\ Len(channel) \in Nat /\ Len(channel') \in {Len(channel), Len(channel) + 1}
    /\ \A i \in 1..Len(channel) : channel'[i] = channel[i]
    /\ \A i \in 1..Len(channel') : i > Len(channel) => channel'[i].by = h /\ channel'[i].awaited
    /\ \A g \in Handlers \ {h} : pc'[g] = pc[g] /\ reply'[g] = reply[g] /\ result'[g] = result[g]

Works(h) ==
    /\ oldLen' \in [Handlers -> Nat] /\ before' \in [Handlers -> Nat] /\ added' \in [Handlers -> Nat]
    /\ at' \in [Handlers -> Nat] /\ target' \in [Handlers -> Nat]
    /\ target'[h] \in 1..Len(job[h].targets)
    /\ \A g \in Handlers \ {h} : /\ oldLen'[g] = oldLen[g] /\ before'[g] = before[g]
                                 /\ added'[g] = added[g] /\ at'[g] = at[g] /\ target'[g] = target[g]

Goes(h) ==
    /\ pc'[h] \in StepsOf(Kind(h)) \ {"begin"}
    /\ pc'[h] = "len" => target'[h] = 1
    /\ pc'[h] = "move" => at'[h] < oldLen'[h]
    /\ result'[h] = "ok" => pc'[h] = "done"

LEMMA SendActs ==
    ASSUME ChannelType, HandlerType, NEW h \in Handlers, NEW step \in Steps,
           NEW cmd, IsSent(Sent(h, cmd)), Send(h, step, cmd)
    PROVE  Acts(h) /\ pc'[h] = step /\ result' = result
<1>1. Sent(h, cmd).by = h /\ Sent(h, cmd).awaited
  BY SentFields
<1>2. result \in [Handlers -> {"none", "ok", "error"}]
  BY DEF HandlerType
<1>3. Len(channel) \in Nat
  BY SendEffect
<1>4. ASSUME NEW i \in 1..Len(channel'), i > Len(channel) PROVE channel'[i].by = h /\ channel'[i].awaited
  <2>1. Len(channel') = Len(channel) + 1 /\ channel'[Len(channel) + 1] = Sent(h, cmd)
    BY SendEffect
  <2>2. i = Len(channel) + 1
    BY <1>3, <1>4, <2>1
  <2>3. QED BY <1>1, <2>1, <2>2
<1>5. QED BY <1>2, <1>4, SendEffect DEF Acts

LEMMA FinishActs ==
    ASSUME ChannelType, HandlerType, NEW h \in Handlers, NEW res \in {"ok", "error"}, Finish(h, res)
    PROVE  Acts(h) /\ pc'[h] = "done" /\ result'[h] = res
<1>1. Len(channel) \in Nat
  BY DEF ChannelType
<1>2. QED BY <1>1, FinishEffect DEF Acts

\* Every step of a handler is one of its kind of request, and of its own.
LEMMA HandlerSteps ==
    ASSUME ChannelType, HandlerType, NEW h \in Handlers, StepInv(h), Handler(h)
    PROVE  Acts(h) /\ Works(h) /\ Goes(h) /\ UNCHANGED handlerRest
<1> DEFINE n == Len(job[h].targets)
<1>1. /\ Kind(h) \in Adding \cup {"each", "none"} /\ n \in Nat \ {0}
      /\ Kind(h) \in Adding => job[h].targets \in Seq(Nat)
  BY RequestType
<1>2. /\ oldLen \in [Handlers -> Nat] /\ before \in [Handlers -> Nat] /\ added \in [Handlers -> Nat]
      /\ at \in [Handlers -> Nat] /\ target \in [Handlers -> Nat] /\ target[h] \in 1..n
  BY DEF HandlerType
<1>3. reply[h].len \in Nat /\ reply[h].pos + 1 \in Nat
  <2>1. reply[h] \in Replies
    BY DEF HandlerType
  <2>2. reply[h].len \in Nat /\ reply[h].pos \in Nat \cup {-1}
    BY <2>1 DEF Replies
  <2>3. QED BY <2>2
<1>4. /\ pc[h] \in StepsOf(Kind(h)) /\ (pc[h] # "done" => result[h] # "ok")
      /\ pc[h] = "begin" /\ UNCHANGED localVars => target'[h] = 1
  BY DEF StepInv, localVars
<1>5. UNCHANGED localVars => Works(h)
  BY <1>2 DEF localVars, Works
<1> HIDE DEF n
<1>6. \A step \in Steps : \A cmd : IsSent(Sent(h, cmd)) /\ Send(h, step, cmd)
         => Acts(h) /\ pc'[h] = step /\ result'[h] = result[h]
  BY SendActs
<1>7. \A res \in {"ok", "error"} : Finish(h, res) => Acts(h) /\ pc'[h] = "done" /\ result'[h] = res
  BY FinishActs
<1>8. Kind(h) \in Adding => \A i \in 1..n : SendAdd(h, i)
         => Acts(h) /\ pc'[h] = "add" /\ result'[h] = result[h]
  BY <1>6, CommandTypes DEF SendAdd, n, Steps
<1>9. /\ IsSent(Sent(h, StatusCmd)) /\ IsSent(Sent(h, PlayCmd))
      /\ Kind(h) = "each" => \A i \in 1..n : IsSent(Sent(h, job[h].targets[i]))
      /\ IsSent(Sent(h, DeleteCmd(0, oldLen[h])))
      /\ IsSent(Sent(h, DeleteCmd(oldLen[h], oldLen[h] + added[h])))
  BY <1>2, CommandTypes DEF n
<1>10. "done" \in StepsOf(Kind(h))
  BY <1>1 DEF StepsOf, Adding
<1>11. CASE Begin(h)
  <2>1. pc[h] = "begin" /\ UNCHANGED localVars /\ UNCHANGED handlerRest
    BY <1>11 DEF Begin
  <2>2. 1 \in 1..n
    BY <1>1
  <2>3. CASE Kind(h) = "end" /\ SendAdd(h, 1)
    BY <1>4, <1>5, <1>8, <2>1, <2>2, <2>3 DEF Goes, StepsOf, Adding
  <2>4. CASE Kind(h) = "each" /\ Send(h, "each", job[h].targets[1])
    BY <1>4, <1>5, <1>6, <1>9, <2>1, <2>2, <2>4 DEF Goes, StepsOf, Steps
  <2>5. CASE Kind(h) \notin {"end", "each"} /\ Send(h, "len", StatusCmd)
    <3>1. Kind(h) \in {"after", "play", "only"}
      BY <1>1, <1>4, <2>1, <2>5 DEF StepsOf, Adding
    <3>2. QED BY <1>4, <1>5, <1>6, <1>9, <2>1, <2>5, <3>1 DEF Goes, StepsOf, Steps
  <2>6. CASE Finish(h, "error")
    BY <1>5, <1>7, <1>10, <2>1, <2>6 DEF Goes
  <2>7. QED BY <1>11, <2>3, <2>4, <2>5, <2>6 DEF Begin
<1>12. CASE GotLen(h)
  <2>1. /\ pc[h] = "len" /\ UNCHANGED <<before, added, target, handlerRest>>
        /\ oldLen' = [oldLen EXCEPT ![h] = reply[h].len]
        /\ at' = [at EXCEPT ![h] = reply[h].pos + 1]
    BY <1>12 DEF GotLen, Told
  <2>2. Works(h) /\ UNCHANGED handlerRest
    BY <1>2, <1>3, <2>1 DEF Works, n
  <2>3. Kind(h) \in {"after", "play", "only"}
    BY <1>1, <1>4, <2>1 DEF StepsOf, Adding
  <2>4. CASE Kind(h) = "play"
    BY <1>4, <1>6, <1>9, <1>12, <2>1, <2>2, <2>4 DEF GotLen, Goes, StepsOf, Steps
  <2>5. CASE Kind(h) # "play"
    <3>1. 1 \in 1..n /\ Kind(h) \in Adding
      BY <1>1, <2>3 DEF Adding
    <3>2. Acts(h) /\ pc'[h] = "add" /\ result'[h] = result[h]
      BY <1>8, <1>12, <2>5, <3>1 DEF GotLen
    <3>3. QED BY <1>4, <2>1, <2>2, <2>3, <2>5, <3>2 DEF Goes, StepsOf
  <2>6. QED BY <2>4, <2>5
<1>13. CASE GotBefore(h)
  <2>1. /\ pc[h] = "before" /\ UNCHANGED <<oldLen, added, at, target, handlerRest>>
        /\ before' = [before EXCEPT ![h] = reply[h].len] /\ SendAdd(h, target[h])
    BY <1>13 DEF GotBefore, Told
  <2>2. Works(h) /\ UNCHANGED handlerRest
    BY <1>2, <1>3, <2>1 DEF Works, n
  <2>3. Kind(h) = "play"
    BY <1>1, <1>4, <2>1 DEF StepsOf, Adding
  <2>4. Acts(h) /\ pc'[h] = "add" /\ result'[h] = result[h]
    BY <1>2, <1>8, <2>1, <2>3 DEF Adding
  <2>5. QED BY <1>4, <2>1, <2>2, <2>3, <2>4 DEF Goes, StepsOf
<1>14. CASE Added(h)
  <2>1. pc[h] = "add" /\ UNCHANGED <<oldLen, before, added, at, handlerRest>>
    BY <1>14 DEF Added, Told
  <2>2. Kind(h) \in {"end", "after", "play", "only"}
    BY <1>1, <1>4, <2>1 DEF StepsOf, Adding
  <2>3. UNCHANGED target => Works(h)
    BY <1>2, <2>1 DEF Works, n
  <2>4. CASE Kind(h) = "play"
    BY <1>4, <1>6, <1>9, <1>14, <2>1, <2>3, <2>4 DEF Added, Goes, StepsOf, Steps
  <2>5. CASE Kind(h) # "play" /\ MoreTargets(h)
    <3>1. target' = [target EXCEPT ![h] = target[h] + 1] /\ SendAdd(h, target[h] + 1)
      BY <1>14, <2>5 DEF Added
    <3>2. target[h] + 1 \in 1..n
      BY <1>1, <1>2, <2>5 DEF MoreTargets, n
    <3>3. Works(h)
      BY <1>2, <2>1, <3>1, <3>2 DEF Works, n
    <3>4. Acts(h) /\ pc'[h] = "add" /\ result'[h] = result[h]
      BY <1>8, <2>2, <3>1, <3>2 DEF Adding
    <3>5. QED BY <1>4, <2>1, <2>2, <3>3, <3>4 DEF Goes, StepsOf
  <2>6. CASE Kind(h) = "end" /\ ~MoreTargets(h)
    BY <1>4, <1>7, <1>10, <1>14, <2>1, <2>3, <2>6 DEF Added, Goes
  <2>7. CASE Kind(h) \in {"after", "only"} /\ ~MoreTargets(h)
    BY <1>4, <1>6, <1>9, <1>14, <2>1, <2>3, <2>7 DEF Added, Goes, StepsOf, Steps
  <2>8. QED BY <2>2, <2>4, <2>5, <2>6, <2>7
<1>15. DropOld(h) => /\ Acts(h) /\ pc'[h] \in {"drop", "play"} /\ result'[h] = result[h]
  BY <1>6, <1>9 DEF DropOld, Steps
<1>16. CASE GotAfter(h)
  <2> DEFINE total == added[h] + Minus(reply[h].len, before[h])
  <2>1. /\ pc[h] = "after" /\ UNCHANGED <<oldLen, before, at, handlerRest>>
        /\ added' = [added EXCEPT ![h] = total]
    BY <1>16 DEF GotAfter, Told
  <2>2. total \in Nat
    BY <1>2, <1>3 DEF Minus
  <2>3. Kind(h) = "play"
    BY <1>1, <1>4, <2>1 DEF StepsOf, Adding
  <2>4. Works(h)
    <3>1. target' = target \/ (MoreTargets(h) /\ target' = [target EXCEPT ![h] = target[h] + 1])
      BY <1>16 DEF GotAfter
    <3>2. MoreTargets(h) => target[h] + 1 \in 1..n
      BY <1>1, <1>2 DEF MoreTargets, n
    <3> HIDE DEF total
    <3>3. /\ target' \in [Handlers -> Nat] /\ target'[h] \in 1..n
          /\ \A g \in Handlers \ {h} : target'[g] = target[g]
      <4>1. CASE target' = target
        BY <1>2, <4>1
      <4>2. CASE MoreTargets(h) /\ target' = [target EXCEPT ![h] = target[h] + 1]
        BY <1>2, <3>2, <4>2
      <4>3. QED BY <3>1, <4>1, <4>2
    <3>4. QED BY <1>2, <2>1, <2>2, <3>3 DEF Works, n
  <2>5. \/ Send(h, "before", StatusCmd)
        \/ Finish(h, "error")
        \/ DropOld(h)
    BY <1>16 DEF GotAfter
  <2>6. /\ Acts(h) /\ pc'[h] \in {"before", "drop", "play", "done"}
        /\ result'[h] = "error" \/ result'[h] = result[h]
    BY <1>6, <1>7, <1>9, <1>15, <2>5 DEF Steps
  <2>7. QED BY <1>4, <2>1, <2>3, <2>4, <2>6 DEF Goes, StepsOf
<1>17. CASE AddFailed(h)
  <2>1. pc[h] = "add" /\ UNCHANGED localVars /\ UNCHANGED handlerRest
    BY <1>17 DEF AddFailed
  <2>2. CASE Kind(h) = "play" /\ Send(h, "undo", DeleteCmd(oldLen[h], oldLen[h] + added[h]))
    BY <1>4, <1>5, <1>6, <1>9, <2>1, <2>2 DEF Goes, StepsOf, Steps
  <2>3. CASE Finish(h, "error")
    BY <1>5, <1>7, <1>10, <2>1, <2>3 DEF Goes
  <2>4. QED BY <1>17, <2>2, <2>3 DEF AddFailed
<1>18. CASE GotNewLen(h)
  <2>1. pc[h] = "newlen" /\ UNCHANGED localVars /\ UNCHANGED handlerRest
    BY <1>18 DEF GotNewLen, Told
  <2>2. Kind(h) \in {"after", "only"}
    BY <1>1, <1>4, <2>1 DEF StepsOf, Adding
  <2>3. CASE Finish(h, "error") \/ Finish(h, "ok")
    BY <1>5, <1>7, <1>10, <2>1, <2>3 DEF Goes
  <2>4. CASE Kind(h) = "only" /\ DropOld(h)
    BY <1>4, <1>5, <1>15, <2>1, <2>4 DEF Goes, StepsOf
  <2>5. CASE /\ Kind(h) # "only" /\ reply[h].len > oldLen[h] /\ at[h] < oldLen[h]
             /\ Send(h, "move", MoveCmd(oldLen[h], reply[h].len, at[h]))
    <3>1. IsSent(Sent(h, MoveCmd(oldLen[h], reply[h].len, at[h])))
      BY <1>2, <1>3, <2>5, CommandTypes
    <3>2. Acts(h) /\ pc'[h] = "move" /\ result'[h] = result[h]
      BY <1>6, <2>5, <3>1 DEF Steps
    <3>3. at'[h] < oldLen'[h]
      BY <2>1, <2>5 DEF localVars
    <3>4. QED BY <1>4, <1>5, <2>1, <2>2, <2>5, <3>2, <3>3 DEF Goes, StepsOf
  <2>6. QED
    <3>1. oldLen[h] \in Nat /\ reply[h].len \in Nat
      BY <1>2, <1>3
    <3>2. QED BY <1>18, <2>3, <2>4, <2>5, <3>1 DEF GotNewLen
<1>19. CASE EachDone(h)
  <2>1. pc[h] = "each" /\ UNCHANGED <<oldLen, before, added, at, handlerRest>>
    BY <1>19 DEF EachDone, Told
  <2>2. Kind(h) = "each"
    BY <1>1, <1>4, <2>1 DEF StepsOf, Adding
  <2>3. CASE MoreTargets(h)
    <3>1. /\ target' = [target EXCEPT ![h] = target[h] + 1]
          /\ Send(h, "each", job[h].targets[target[h] + 1])
      BY <1>19, <2>3 DEF EachDone
    <3>2. target[h] + 1 \in 1..n
      BY <1>1, <1>2, <2>3 DEF MoreTargets, n
    <3>3. Works(h)
      BY <1>2, <2>1, <3>1, <3>2 DEF Works, n
    <3>4. Acts(h) /\ pc'[h] = "each" /\ result'[h] = result[h]
      BY <1>6, <1>9, <2>2, <3>1, <3>2 DEF Steps
    <3>5. QED BY <1>4, <2>1, <2>2, <3>3, <3>4 DEF Goes, StepsOf
  <2>4. CASE ~MoreTargets(h)
    <3>1. UNCHANGED target /\ Finish(h, "ok")
      BY <1>19, <2>4 DEF EachDone
    <3>2. Works(h)
      BY <1>2, <2>1, <3>1 DEF Works, n
    <3>3. QED BY <1>7, <1>10, <2>1, <3>1, <3>2 DEF Goes
  <2>5. QED BY <2>3, <2>4
<1>20. CASE Dropped(h)
  <2>1. pc[h] = "drop" /\ UNCHANGED localVars /\ UNCHANGED handlerRest /\ Send(h, "play", PlayCmd)
    BY <1>20 DEF Dropped, Told
  <2>2. Kind(h) \in {"play", "only"}
    BY <1>1, <1>4, <2>1 DEF StepsOf, Adding
  <2>3. QED BY <1>4, <1>5, <1>6, <1>9, <2>1, <2>2 DEF Goes, StepsOf, Steps
<1>21. CASE Done(h)
  BY <1>5, <1>7, <1>10, <1>21 DEF Done, Goes
<1>22. CASE Fails(h)
  BY <1>5, <1>7, <1>10, <1>22 DEF Fails, Goes
<1>23. QED BY <1>11, <1>12, <1>13, <1>14, <1>16, <1>17, <1>18, <1>19, <1>20, <1>21, <1>22 DEF Handler

LEMMA HandlerKeepsType ==
    ASSUME TypeOK, NEW h \in Handlers, StepInv(h), Handler(h)
    PROVE  TypeOK'
<1>1. QueueType /\ OldType /\ ChannelType /\ HandlerType /\ BoundsType
  BY DEF TypeOK
<1>2. Acts(h) /\ Works(h) /\ UNCHANGED handlerRest
  BY <1>1, HandlerSteps
<1>3. UNCHANGED <<queue, playing, appended, fulfilled, job, old, failures, advances>>
  BY <1>2 DEF handlerRest, mpdVars, bounds
<1>4. QueueType' /\ OldType' /\ BoundsType'
  BY <1>1, <1>3 DEF QueueType, OldType, BoundsType
<1>5. \A g \in Handlers : target'[g] \in 1..Len(job'[g].targets)
  BY <1>1, <1>2, <1>3 DEF Works, HandlerType
<1>6. HandlerType'
  BY <1>1, <1>2, <1>3, <1>5 DEF Acts, Works, HandlerType
<1>7. QED BY <1>2, <1>4, <1>6 DEF TypeOK, Acts

\* MPD takes a command from the channel: it carries it out, refuses it, or loses it.
Leaves(s) ==
    LET cmd == channel[1] IN
    /\ Len(channel) \in Nat \ {0} /\ Head(channel) = cmd /\ IsSent(cmd)
    /\ Len(channel') = Len(channel) - 1
    /\ \A i \in 1..Len(channel') : i + 1 \in 1..Len(channel) /\ channel'[i] = channel[i + 1]
    /\ UNCHANGED <<job, pc, result, oldLen, before, added, at, target, old, advances>>
    /\ \A g \in Handlers :
          IF g = cmd.by /\ reply[g].status = "none" /\ cmd.awaited
          THEN /\ reply'[g].status = s
               /\ s = "OK" => /\ reply'[g].len = Len(queue)
                              /\ reply'[g].pos = Position(queue, playing)
          ELSE reply'[g] = reply[g]
    /\ \A g \in Handlers :
          IF s = "OK" /\ cmd.op = "add" /\ g = cmd.by
          THEN fulfilled'[g] = Append(fulfilled[g], cmd.a) /\ appended'[g] = appended[g] + cmd.a
          ELSE fulfilled'[g] = fulfilled[g] /\ appended'[g] = appended[g]
    /\ s = "OK" => Execute /\ ~Refuses(cmd)
    /\ s # "OK" => UNCHANGED <<queue, playing>>

LEMMA LeaveEffect ==
    ASSUME TypeOK, Execute \/ RefuseAdd \/ LoseCommand
    PROVE  \E s \in {"OK", "ACK", "lost"} : Leaves(s)
<1> DEFINE cmd == channel[1]
<1>0. QueueType /\ ChannelType /\ HandlerType
  BY DEF TypeOK
<1>1. channel # <<>>
  BY DEF Execute, RefuseAdd, LoseCommand
<1>2. /\ Len(channel) \in Nat \ {0} /\ Head(channel) = cmd /\ IsSent(cmd)
      /\ Len(Tail(channel)) = Len(channel) - 1
      /\ \A i \in 1..Len(Tail(channel)) : i + 1 \in 1..Len(channel) /\ Tail(channel)[i] = channel[i + 1]
  BY <1>0, <1>1, OldestCommand
<1>3. UNCHANGED <<job, pc, result, oldLen, before, added, at, target, old, advances>>
  BY DEF Execute, RefuseAdd, LoseCommand, localVars, bounds
<1>4. Len(queue) \in Nat /\ Position(queue, playing) \in Nat \cup {-1}
  BY <1>0, PositionType DEF QueueType
<1> DEFINE ok == [status |-> "OK", len |-> Len(queue), pos |-> Position(queue, playing)]
<1> HIDE DEF cmd
<1>5. ok \in Replies /\ ok.status = "OK" /\ ok.len = Len(queue) /\ ok.pos = Position(queue, playing)
      /\ \A s \in {"ACK", "lost"} : Failed(s) \in Replies /\ Failed(s).status = s
  BY <1>4, ReplyTypes DEF Failed
<1> HIDE DEF ok
<1>6. ASSUME NEW r \in Replies, Answer(Head(channel).by, r)
      PROVE  /\ channel' = Tail(channel)
             /\ \A g \in Handlers :
                  IF g = cmd.by /\ reply[g].status = "none" /\ cmd.awaited
                  THEN reply'[g] = r ELSE reply'[g] = reply[g]
  BY <1>0, <1>1, <1>2, <1>6, AnswerType DEF Answer
<1>7. appended \in [Handlers -> Nat] /\ fulfilled \in [Handlers -> Seq(Nat)]
  BY <1>0 DEF QueueType
<1>8. CASE Execute /\ ~Refuses(cmd)
  <2>1. Answer(Head(channel).by, ok)
    BY <1>2, <1>8 DEF Execute, ok
  <2>2. \A g \in Handlers :
          IF cmd.op = "add" /\ g = cmd.by
          THEN fulfilled'[g] = Append(fulfilled[g], cmd.a) /\ appended'[g] = appended[g] + cmd.a
          ELSE fulfilled'[g] = fulfilled[g] /\ appended'[g] = appended[g]
    BY <1>2, <1>7, <1>8 DEF Execute
  <2>3. Leaves("OK")
    BY <1>2, <1>3, <1>5, <1>6, <1>8, <2>1, <2>2 DEF Leaves, cmd
  <2>4. QED BY <2>3
<1>9. CASE Execute /\ Refuses(cmd)
  <2>1. Answer(Head(channel).by, Failed("ACK")) /\ UNCHANGED mpdVars
    BY <1>2, <1>9 DEF Execute
  <2>2. Leaves("ACK")
    BY <1>2, <1>3, <1>5, <1>6, <2>1 DEF Leaves, cmd, mpdVars
  <2>3. QED BY <2>2
<1>10. CASE RefuseAdd \/ LoseCommand
  <2>1. PICK s \in {"ACK", "lost"} : Answer(Head(channel).by, Failed(s)) /\ UNCHANGED mpdVars
    BY <1>10 DEF RefuseAdd, LoseCommand
  <2>2. Leaves(s)
    BY <1>2, <1>3, <1>5, <1>6, <2>1 DEF Leaves, cmd, mpdVars
  <2>3. QED BY <2>2
<1>11. QED BY <1>8, <1>9, <1>10

-----------------------------------------------------------------------------
(* Commands and answers.                                                   *)

IInv == TypeOK /\ \A h \in Handlers : StepInv(h) /\ AwaitInv(h) /\ AddInv(h)

LEMMA InitInv == ASSUME Init PROVE IInv
<1>1. PICK n \in 0..MaxOld : /\ old = Songs(User, n) /\ queue = Songs(User, n)
                             /\ playing \in {NoSong} \cup {Song(User, i) : i \in 1..n}
  BY DEF Init
<1>2. n \in Nat
  OBVIOUS
<1> DEFINE q == Songs(User, n)
<1>3. q \in Seq(Ids) /\ Len(q) = n /\ \A i \in 1..n : q[i] = Song(User, i)
  BY <1>2 DEF Songs, Song, Ids
<1> HIDE DEF q
<1>4. \A i \in 1..n : q[i].by = User /\ q[i].n = i
  BY <1>3, SongFields
<1>5. IsInjective(q)
  BY <1>2, <1>3, <1>4 DEF IsInjective
<1>6. playing = NoSong \/ Contains(q, playing)
  BY <1>1, <1>3 DEF Contains
<1>7. \A h \in Handlers : appended[h] = 0 /\ fulfilled[h] = <<>>
  BY DEF Init
<1>8. appended \in [Handlers -> Nat] /\ fulfilled \in [Handlers -> Seq(Nat)]
  BY DEF Init
<1>9. queue = q /\ old = q
  BY <1>1 DEF q
<1>10. QueueType
  BY <1>2, <1>3, <1>4, <1>5, <1>6, <1>8, <1>9 DEF QueueType
<1>11. OldType
  BY <1>1, <1>3, <1>9 DEF OldType
<1>12. ChannelType /\ channel = <<>> /\ Len(channel) = 0
  BY DEF Init, ChannelType
<1>13. job \in Workloads /\ \A h \in Handlers : IsRequest(job[h]) /\ Len(job[h].targets) \in Nat \ {0}
  <2>1. job \in Workloads
    BY DEF Init
  <2>2. \A h \in Handlers : IsRequest(job[h])
    BY <2>1
  <2>3. QED BY <2>1, <2>2 DEF IsRequest
<1>14. HandlerType
  <2>1. \A h \in Handlers : target[h] = 1 /\ 1 \in 1..Len(job[h].targets)
    BY <1>13 DEF Init
  <2>2. QED BY <1>13, <2>1, ReplyTypes DEF Init, HandlerType, Steps
<1>15. BoundsType
  BY DEF Init, BoundsType
<1>16. ASSUME NEW h \in Handlers PROVE StepInv(h) /\ AwaitInv(h) /\ AddInv(h)
  <2>1. /\ pc[h] = IF Kind(h) = "none" THEN "done" ELSE "begin"
        /\ reply[h] = None /\ result[h] = "none" /\ target[h] = 1
    BY DEF Init, Kind
  <2>2. StepInv(h)
    <3>1. Kind(h) \in Adding \cup {"each", "none"}
      BY <1>13 DEF IsRequest, Kind
    <3>2. pc[h] \in StepsOf(Kind(h))
      BY <2>1, <3>1 DEF StepsOf, Adding
    <3>3. None.status = "none"
      BY DEF None
    <3>4. QED BY <1>7, <2>1, <3>2, <3>3 DEF StepInv
  <2>3. AwaitInv(h) /\ AddInv(h)
    BY <1>12, <2>1 DEF AwaitInv, AddInv
  <2>4. QED BY <2>2, <2>3
<1>17. QED BY <1>10, <1>11, <1>12, <1>14, <1>15, <1>16 DEF IInv, TypeOK

\* What a command is waited for as does not depend on the channel.
LEMMA ExpectedKept ==
    ASSUME NEW h, UNCHANGED job, pc'[h] = pc[h], oldLen'[h] = oldLen[h], added'[h] = added[h],
           at'[h] = at[h], target'[h] = target[h], NEW i, NEW j, channel'[i] = channel[j],
           Expected(h, channel[j])
    PROVE  Expected(h, channel[i])'
BY DEF Expected

LEMMA LeaveInv ==
    ASSUME IInv, NEW s \in {"OK", "ACK", "lost"}, Leaves(s), NEW h \in Handlers
    PROVE  StepInv(h)' /\ AwaitInv(h)' /\ AddInv(h)'
<1> DEFINE cmd == channel[1]
<1>0. /\ TypeOK /\ StepInv(h) /\ AwaitInv(h) /\ AddInv(h)
      /\ QueueType /\ HandlerType /\ ChannelType
  BY DEF IInv, TypeOK
<1>1. /\ Len(channel) \in Nat \ {0} /\ Len(channel') = Len(channel) - 1
      /\ \A i \in 1..Len(channel') : i + 1 \in 1..Len(channel) /\ channel'[i] = channel[i + 1]
      /\ UNCHANGED <<job, pc, result, oldLen, before, added, at, target, old>>
  BY DEF Leaves
<1>2. IF h = cmd.by /\ reply[h].status = "none" /\ cmd.awaited
      THEN reply'[h].status = s ELSE reply'[h] = reply[h]
  BY DEF Leaves
<1>3. /\ IF s = "OK" /\ cmd.op = "add" /\ h = cmd.by
         THEN fulfilled'[h] = Append(fulfilled[h], cmd.a)
         ELSE fulfilled'[h] = fulfilled[h] 
      /\ ~(cmd.op = "add" /\ h = cmd.by) => appended'[h] = appended[h] /\ fulfilled'[h] = fulfilled[h]
  BY DEF Leaves
<1>4. 1 \in 1..Len(channel)
  BY <1>1
<1>5. h = cmd.by /\ cmd.awaited => /\ Awaits(h, 1) /\ reply[h].status = "none" /\ Expected(h, cmd)
                                   /\ \A j \in 1..Len(channel) : Awaits(h, j) => j = 1
  BY <1>0, <1>4 DEF AwaitInv, Awaits
<1>6. h = cmd.by /\ cmd.op = "add" => /\ Adds(h, 1) /\ pc[h] \in {"add", "undo", "done"}
                                      /\ \A j \in 1..Len(channel) : Adds(h, j) => j = 1
                                      /\ cmd.a = job[h].targets[target[h]]
                                      /\ Fulfilled(h, target[h] - 1)
  BY <1>0, <1>4 DEF AddInv, Adds
<1> HIDE DEF cmd
<1>7. Expected(h, cmd) => pc[h] \notin {"begin", "done"} /\ (pc[h] = "add" => cmd.op = "add")
  BY DEF Expected
<1>8. Kind(h)' = Kind(h)
  BY <1>1 DEF Kind
<1>9. StepInv(h)'
  <2>1. pc[h] \in {"begin", "done"} => reply'[h] = reply[h]
    BY <1>2, <1>5, <1>7
  <2>2. pc[h] = "begin" => appended'[h] = appended[h] /\ fulfilled'[h] = fulfilled[h]
    BY <1>3, <1>6
  <2>3. QED BY <1>0, <1>1, <1>8, <2>1, <2>2 DEF StepInv
<1>10. AwaitInv(h)'
  <2> SUFFICES ASSUME NEW i \in 1..Len(channel'), Awaits(h, i)'
               PROVE  /\ reply'[h].status = "none" /\ Expected(h, channel[i])'
                      /\ \A j \in 1..Len(channel') : Awaits(h, j)' => j = i
    BY DEF AwaitInv
  <2>1. i + 1 \in 1..Len(channel) /\ i \in Nat /\ Awaits(h, i + 1) /\ channel'[i] = channel[i + 1]
    BY <1>1 DEF Awaits
  <2>2. /\ reply[h].status = "none" /\ Expected(h, channel[i + 1])
        /\ \A j \in 1..Len(channel) : Awaits(h, j) => j = i + 1
    BY <1>0, <2>1 DEF AwaitInv
  <2>3. ~(h = cmd.by /\ cmd.awaited)
    <3>1. i + 1 # 1
      BY <2>1
    <3>2. QED BY <1>5, <2>1, <3>1
  <2>4. reply'[h] = reply[h]
    BY <1>2, <2>3
  <2>5. Expected(h, channel[i])'
    BY <1>1, <2>1, <2>2, ExpectedKept
  <2>6. ASSUME NEW j \in 1..Len(channel'), Awaits(h, j)' PROVE j = i
    <3>1. Awaits(h, j + 1) /\ j + 1 \in 1..Len(channel) /\ j \in Nat
      BY <1>1, <2>6 DEF Awaits
    <3>2. j + 1 = i + 1
      BY <2>2, <3>1
    <3>3. QED BY <2>1, <3>1, <3>2
  <2>7. QED BY <2>2, <2>4, <2>5, <2>6
<1>11. job[h].targets \in Seq(Range(job[h].targets)) /\ target[h] \in 1..Len(job[h].targets) /\ Len(job[h].targets) \in Nat
  BY <1>0, RequestType DEF HandlerType, IsRequest
<1>12. s = "OK" /\ cmd.op = "add" /\ h = cmd.by => Fulfilled(h, target[h])'
  <2> SUFFICES ASSUME s = "OK", cmd.op = "add", h = cmd.by PROVE Fulfilled(h, target[h])'
    OBVIOUS
  <2> DEFINE ts == job[h].targets
             k == target[h]
  <2>1. fulfilled'[h] = Append(SubSeq(ts, 1, k - 1), ts[k])
    BY <1>3, <1>6 DEF Fulfilled
  <2>2. ts \in Seq(Range(ts)) /\ k \in 1..Len(ts)
    BY <1>11
  <2> HIDE DEF ts, k
  <2>3. SubSeq(ts, 1, k) = Append(SubSeq(ts, 1, k - 1), ts[k])
    BY <2>2, SubSeqRecursiveSecond
  <2>4. QED BY <1>1, <2>1, <2>3 DEF Fulfilled, ts, k
<1>13. AddInv(h)'
  <2>1. ASSUME NEW i \in 1..Len(channel'), Adds(h, i)'
        PROVE  /\ pc'[h] \in {"add", "undo", "done"} /\ result'[h] # "ok"
               /\ pc'[h] = "add" /\ reply'[h].status = "none" => channel'[i].awaited
               /\ channel'[i].a = job'[h].targets[target'[h]]
               /\ Fulfilled(h, target[h] - 1)'
               /\ \A j \in 1..Len(channel') : Adds(h, j)' => j = i
    <3>1. i + 1 \in 1..Len(channel) /\ i \in Nat /\ Adds(h, i + 1) /\ channel'[i] = channel[i + 1]
      BY <1>1, <2>1 DEF Adds
    <3>2. /\ pc[h] \in {"add", "undo", "done"} /\ result[h] # "ok"
          /\ pc[h] = "add" /\ reply[h].status = "none" => channel[i + 1].awaited
          /\ channel[i + 1].a = job[h].targets[target[h]]
          /\ Fulfilled(h, target[h] - 1)
          /\ \A j \in 1..Len(channel) : Adds(h, j) => j = i + 1
      BY <1>0, <3>1 DEF AddInv
    <3>3. ~(h = cmd.by /\ cmd.op = "add")
      <4>1. i + 1 # 1
        BY <3>1
      <4>2. QED BY <1>6, <3>1, <4>1
    <3>4. reply'[h].status = "none" => reply[h].status = "none"
      BY <1>2
    <3>5. Fulfilled(h, target[h] - 1)'
      BY <1>1, <1>3, <3>2, <3>3 DEF Fulfilled
    <3>6. ASSUME NEW j \in 1..Len(channel'), Adds(h, j)' PROVE j = i
      <4>1. Adds(h, j + 1) /\ j + 1 \in 1..Len(channel) /\ j \in Nat
        BY <1>1, <3>6 DEF Adds
      <4>2. j + 1 = i + 1
        BY <3>2, <4>1
      <4>3. QED BY <3>1, <4>1, <4>2
    <3>7. QED BY <1>1, <3>1, <3>2, <3>4, <3>5, <3>6
  <2>2. ASSUME Kind(h) \in Adding
        PROVE  /\ pc[h] \in {"len", "before"} => Fulfilled(h, target[h] - 1)'
               /\ pc[h] = "add" /\ reply'[h].status = "OK" => Fulfilled(h, target[h])'
               /\ pc[h] = "after" => Fulfilled(h, target[h])'
               /\ pc[h] \in {"newlen", "drop", "move", "play"} => fulfilled'[h] = job'[h].targets
    <3>1. pc[h] \notin {"add", "undo", "done"} => fulfilled'[h] = fulfilled[h]
      BY <1>3, <1>6
    <3>2. pc[h] = "add" /\ reply'[h].status = "OK" => Fulfilled(h, target[h])'
      <4>1. CASE h = cmd.by /\ reply[h].status = "none" /\ cmd.awaited
        <5>1. pc[h] = "add" /\ reply'[h].status = "OK" => s = "OK" /\ cmd.op = "add"
          BY <1>2, <1>5, <1>7, <4>1
        <5>2. QED BY <1>12, <4>1, <5>1
      <4>2. CASE ~(h = cmd.by /\ reply[h].status = "none" /\ cmd.awaited)
        <5> SUFFICES ASSUME pc[h] = "add", reply[h].status = "OK" PROVE Fulfilled(h, target[h])'
          BY <1>2, <4>2
        <5>1. Fulfilled(h, target[h])
          BY <1>0, <2>2 DEF AddInv
        <5>2. (s = "OK" /\ cmd.op = "add" /\ h = cmd.by) \/ fulfilled'[h] = fulfilled[h]
          BY <1>3
        <5>3. QED BY <1>1, <1>12, <5>1, <5>2 DEF Fulfilled
      <4>3. QED BY <4>1, <4>2
    <3>3. QED BY <1>0, <1>1, <2>2, <3>1, <3>2 DEF AddInv, Fulfilled
  <2>3. QED BY <1>1, <1>8, <2>1, <2>2 DEF AddInv, Fulfilled
<1>14. QED BY <1>9, <1>10, <1>13

\* A step of another handler.
LEMMA OthersInv ==
    ASSUME IInv, NEW g \in Handlers, NEW h \in Handlers \ {g}, Handler(g)
    PROVE  StepInv(h)' /\ AwaitInv(h)' /\ AddInv(h)'
<1>0. /\ HandlerType /\ ChannelType /\ StepInv(g) /\ StepInv(h) /\ AwaitInv(h) /\ AddInv(h)
  BY DEF IInv, TypeOK
<1>1. Acts(g) /\ Works(g) /\ UNCHANGED <<queue, playing, appended, fulfilled, job, old>>
  BY <1>0, HandlerSteps DEF handlerRest, mpdVars
<1>2. /\ pc'[h] = pc[h] /\ reply'[h] = reply[h] /\ result'[h] = result[h]
      /\ oldLen'[h] = oldLen[h] /\ added'[h] = added[h] /\ at'[h] = at[h] /\ target'[h] = target[h]
      /\ UNCHANGED <<appended, fulfilled, job>>
  BY <1>1 DEF Acts, Works
<1>3. /\ Len(channel) \in Nat /\ Len(channel') \in {Len(channel), Len(channel) + 1}
      /\ \A i \in 1..Len(channel) : channel'[i] = channel[i]
      /\ \A i \in 1..Len(channel') : i > Len(channel) => channel'[i].by = g
  BY <1>1 DEF Acts
<1>4. \A i \in 1..Len(channel') :
         channel'[i].by = h => i \in 1..Len(channel) /\ channel'[i] = channel[i]
  BY <1>3
<1>5. StepInv(h)'
  BY <1>0, <1>2 DEF StepInv, Kind
<1>6. AwaitInv(h)'
  <2> SUFFICES ASSUME NEW i \in 1..Len(channel'), Awaits(h, i)'
               PROVE  /\ reply'[h].status = "none" /\ Expected(h, channel[i])'
                      /\ \A j \in 1..Len(channel') : Awaits(h, j)' => j = i
    BY DEF AwaitInv
  <2>1. i \in 1..Len(channel) /\ channel'[i] = channel[i] /\ Awaits(h, i)
    BY <1>4 DEF Awaits
  <2>2. Expected(h, channel[i])'
    BY <1>0, <1>2, <2>1, ExpectedKept DEF AwaitInv
  <2>3. QED BY <1>0, <1>2, <1>4, <2>1, <2>2 DEF AwaitInv, Awaits
<1>7. AddInv(h)'
  <2>1. \A i \in 1..Len(channel') : Adds(h, i)' =>
           i \in 1..Len(channel) /\ channel'[i] = channel[i] /\ Adds(h, i)
    BY <1>4 DEF Adds
  <2>2. QED BY <1>0, <1>2, <2>1 DEF AddInv, Fulfilled, Kind
<1>8. QED BY <1>5, <1>6, <1>7

LEMMA GiveUpInv ==
    ASSUME IInv, NEW g \in Handlers, GiveUp(g), NEW h \in Handlers
    PROVE  StepInv(h)' /\ AwaitInv(h)' /\ AddInv(h)'
<1>0. HandlerType /\ ChannelType /\ StepInv(h) /\ AwaitInv(h) /\ AddInv(h)
  BY DEF IInv, TypeOK
<1>1. /\ UNCHANGED <<job, pc, result, oldLen, before, added, at, target, appended, fulfilled>>
      /\ pc[g] \notin {"begin", "done"}
  BY DEF GiveUp, mpdVars, localVars
<1>2. /\ h = g => reply'[h].status = "lost"
      /\ h # g => reply'[h] = reply[h]
  BY <1>0 DEF GiveUp, HandlerType, Failed
<1>3. /\ Len(channel) \in Nat /\ Len(channel') = Len(channel) /\ DOMAIN channel = 1..Len(channel)
      /\ \A i \in 1..Len(channel) : IsSent(channel[i])
  BY <1>0 DEF ChannelType, GiveUp
<1>4. \A i \in 1..Len(channel) :
         /\ channel[i].by # g => channel'[i] = channel[i]
         /\ channel[i].by = g => channel'[i] = [channel[i] EXCEPT !.awaited = FALSE]
  BY <1>3 DEF GiveUp
<1>5. ASSUME NEW i \in 1..Len(channel)
      PROVE  /\ channel'[i].by = channel[i].by /\ channel'[i].op = channel[i].op
             /\ channel'[i].a = channel[i].a
             /\ channel[i].by = g => ~channel'[i].awaited
  BY <1>3, <1>4 DEF IsSent
<1>6. StepInv(h)'
  BY <1>0, <1>1, <1>2 DEF StepInv, Kind
<1>7. AwaitInv(h)'
  <2> SUFFICES ASSUME NEW i \in 1..Len(channel'), Awaits(h, i)'
               PROVE  /\ reply'[h].status = "none" /\ Expected(h, channel[i])'
                      /\ \A j \in 1..Len(channel') : Awaits(h, j)' => j = i
    BY DEF AwaitInv
  <2>1. i \in 1..Len(channel) /\ h # g
    BY <1>3, <1>5 DEF Awaits
  <2>2. \A j \in 1..Len(channel') : Awaits(h, j)' => channel'[j] = channel[j] /\ Awaits(h, j)
    BY <1>3, <1>4, <1>5, <2>1 DEF Awaits
  <2>3. Expected(h, channel[i])'
    BY <1>0, <1>1, <2>1, <2>2, ExpectedKept DEF AwaitInv
  <2>4. QED BY <1>0, <1>2, <1>3, <2>1, <2>2, <2>3 DEF AwaitInv
<1>8. AddInv(h)'
  <2>1. \A i \in 1..Len(channel') : Adds(h, i)' =>
           /\ i \in 1..Len(channel) /\ Adds(h, i) /\ channel'[i].a = channel[i].a
           /\ h # g => channel'[i] = channel[i]
    BY <1>3, <1>4, <1>5 DEF Adds
  <2>2. QED BY <1>0, <1>1, <1>2, <2>1 DEF AddInv, Fulfilled, Kind
<1>9. QED BY <1>6, <1>7, <1>8

LEMMA AdvanceInv ==
    ASSUME IInv, Advance, NEW h \in Handlers
    PROVE  StepInv(h)' /\ AwaitInv(h)' /\ AddInv(h)'
<1>1. StepInv(h) /\ AwaitInv(h) /\ AddInv(h)
  BY DEF IInv
<1>2. UNCHANGED <<channel, job, pc, reply, result, oldLen, added, at, target, appended, fulfilled>>
  BY DEF Advance, localVars
<1>3. StepInv(h)' /\ AddInv(h)'
  BY <1>1, <1>2 DEF StepInv, Kind, AddInv, Adds, Fulfilled
<1>4. AwaitInv(h)'
  BY <1>1, <1>2, ExpectedKept DEF AwaitInv, Awaits
<1>5. QED BY <1>3, <1>4

\* The command a step sends, and how the steps follow each other.
Sending(h) == \A i \in 1..Len(channel') : i > Len(channel) => Expected(h, channel[i])'

Flow(h) ==
    LET last == target[h] = Len(job[h].targets) IN
    /\ pc'[h] = "add" => \/ pc[h] \in {"begin", "len", "before"} /\ target'[h] = target[h]
                         \/ Told(h, "add") /\ target'[h] = target[h] + 1
    /\ pc'[h] = "len" => pc[h] = "begin"
    /\ pc'[h] = "before" => \/ pc[h] = "len" /\ target'[h] = target[h]
                            \/ pc[h] = "after" /\ target'[h] = target[h] + 1
    /\ pc'[h] = "after" => Told(h, "add") /\ target'[h] = target[h]
    /\ pc'[h] = "newlen" => Told(h, "add") /\ last
    /\ pc'[h] \in {"drop", "play", "move"} => pc[h] \in {"newlen", "drop"} \/ (pc[h] = "after" /\ last)
    /\ pc[h] \in {"add", "undo"} /\ ~Told(h, "add") =>
          /\ pc'[h] \in {"undo", "done"} /\ result'[h] # "ok" /\ target'[h] = target[h]

LEMMA SendingIs ==
    ASSUME ChannelType, HandlerType, NEW h \in Handlers, NEW step \in Steps,
           NEW cmd, IsSent(Sent(h, cmd)), Send(h, step, cmd), UNCHANGED job
    PROVE  /\ step \in {"len", "before", "after", "newlen"} /\ cmd = StatusCmd => Sending(h)
           /\ step = "add" /\ cmd = AddCmd(job[h].targets[target'[h]]) => Sending(h)
           /\ step = "each" /\ cmd = job[h].targets[target'[h]] => Sending(h)
           /\ step = "undo" /\ cmd = DeleteCmd(oldLen'[h], oldLen'[h] + added'[h]) => Sending(h)
           /\ step = "drop" /\ cmd = DeleteCmd(0, oldLen'[h]) => Sending(h)
           /\ step = "move" /\ (\E n : cmd = MoveCmd(oldLen'[h], n, at'[h])) => Sending(h)
           /\ step = "play" /\ cmd = PlayCmd => Sending(h)
<1>1. pc'[h] = step /\ Len(channel) \in Nat
  BY SendEffect
<1>2. ASSUME NEW i \in 1..Len(channel'), i > Len(channel) PROVE channel'[i] = Sent(h, cmd)
  <2>1. Len(channel') = Len(channel) + 1 /\ channel'[Len(channel) + 1] = Sent(h, cmd)
    BY SendEffect
  <2>2. i = Len(channel) + 1
    BY <1>1, <1>2, <2>1
  <2>3. QED BY <2>1, <2>2
<1> DEFINE s == Sent(h, cmd)
<1>3. s.op = cmd.op /\ s.a = cmd.a /\ s.b = cmd.b /\ s.c = cmd.c
  BY SentFields
<1> HIDE DEF s
<1>4. \A i \in 1..Len(channel') : i > Len(channel) => channel'[i] = s
  BY <1>2 DEF s
<1>5. QED BY <1>1, <1>3, <1>4, CommandFields DEF Sending, Expected

LEMMA HandlerFlow ==
    ASSUME ChannelType, HandlerType, NEW h \in Handlers, StepInv(h), Handler(h)
    PROVE  Sending(h) /\ Flow(h)
<1> DEFINE n == Len(job[h].targets)
<1>0. /\ pc[h] \in StepsOf(Kind(h)) /\ (pc[h] \in {"begin", "len"} => target[h] = 1)
      /\ (pc[h] # "done" => result[h] # "ok")
      /\ (pc[h] \in {"begin", "done"} => reply[h].status = "none")
  BY DEF StepInv
<1>1. /\ Kind(h) \in Adding \cup {"each", "none"} /\ n \in Nat \ {0}
  BY RequestType
<1>2. /\ oldLen \in [Handlers -> Nat] /\ added \in [Handlers -> Nat] /\ at \in [Handlers -> Nat]
      /\ target \in [Handlers -> Nat] /\ target[h] \in 1..n
      /\ reply[h].len \in Nat
  BY DEF HandlerType, Replies
<1> HIDE DEF n
<1>3. UNCHANGED job
  BY HandlerSteps DEF handlerRest
<1>4. ASSUME NEW res \in {"ok", "error"}, Finish(h, res) PROVE Sending(h) /\ pc'[h] = "done" /\ result'[h] = res
  <2>1. channel' = channel /\ pc'[h] = "done" /\ result'[h] = res /\ Len(channel) \in Nat
    BY <1>4, FinishEffect DEF ChannelType
  <2>2. QED BY <2>1 DEF Sending
<1>5. /\ IsSent(Sent(h, StatusCmd)) /\ IsSent(Sent(h, PlayCmd))
      /\ Kind(h) \in Adding => \A i \in 1..n : IsSent(Sent(h, AddCmd(job[h].targets[i])))
      /\ Kind(h) = "each" => \A i \in 1..n : IsSent(Sent(h, job[h].targets[i]))
      /\ IsSent(Sent(h, DeleteCmd(0, oldLen[h])))
      /\ IsSent(Sent(h, DeleteCmd(oldLen[h], oldLen[h] + added[h])))
  <2>1. oldLen[h] \in Nat /\ oldLen[h] + added[h] \in Nat /\ oldLen[h] <= oldLen[h] + added[h] /\ 0 <= oldLen[h]
    BY <1>2
  <2>2. QED BY <2>1, CommandTypes DEF n
<1>6. ASSUME NEW step \in {"len", "before", "after", "newlen"}, Send(h, step, StatusCmd)
      PROVE  Sending(h) /\ pc'[h] = step /\ result' = result
  BY <1>3, <1>5, <1>6, SendingIs, SendEffect DEF Steps
<1>7. ASSUME Kind(h) \in Adding, target'[h] \in 1..n, SendAdd(h, target'[h])
      PROVE  Sending(h) /\ pc'[h] = "add"
  <2> DEFINE cmd == AddCmd(job[h].targets[target'[h]])
  <2>1. Send(h, "add", cmd) /\ IsSent(Sent(h, cmd))
    BY <1>5, <1>7 DEF SendAdd
  <2> HIDE DEF cmd
  <2>2. pc'[h] = "add" /\ (cmd = AddCmd(job[h].targets[target'[h]]) => Sending(h))
    BY <1>3, <2>1, SendingIs, SendEffect DEF Steps
  <2>3. QED BY <2>2 DEF cmd
<1>8. ASSUME oldLen'[h] = oldLen[h], DropOld(h) PROVE Sending(h) /\ pc'[h] \in {"drop", "play"}
  BY <1>3, <1>5, <1>8, SendingIs, SendEffect DEF DropOld, Steps
<1>9. CASE Begin(h)
  <2>1. pc[h] = "begin" /\ target'[h] = target[h] /\ target[h] = 1 /\ 1 \in 1..n
    BY <1>0, <1>1, <1>9 DEF Begin, localVars
  <2>2. CASE Kind(h) = "end" /\ SendAdd(h, 1)
    BY <1>7, <2>1, <2>2 DEF Flow, Adding
  <2>3. CASE Kind(h) = "each" /\ Send(h, "each", job[h].targets[1])
    <3>1. Sending(h) /\ pc'[h] = "each"
      BY <1>3, <1>5, <2>1, <2>3, SendingIs, SendEffect DEF Steps
    <3>2. QED BY <2>1, <3>1 DEF Flow
  <2>4. CASE Send(h, "len", StatusCmd)
    BY <1>6, <2>1, <2>4 DEF Flow
  <2>5. CASE Finish(h, "error")
    BY <1>4, <2>1, <2>5 DEF Flow
  <2>6. QED BY <1>9, <2>2, <2>3, <2>4, <2>5 DEF Begin
<1>10. CASE GotLen(h)
  <2>1. pc[h] = "len" /\ target' = target /\ target[h] = 1 /\ 1 \in 1..n
    BY <1>0, <1>1, <1>10 DEF GotLen, Told
  <2>2. CASE Kind(h) = "play"
    BY <1>6, <1>10, <2>1, <2>2 DEF GotLen, Flow
  <2>3. CASE Kind(h) # "play"
    <3>1. Kind(h) \in Adding
      BY <1>0, <1>1, <2>1 DEF StepsOf
    <3>2. SendAdd(h, target'[h])
      BY <1>10, <2>1, <2>3 DEF GotLen
    <3>3. QED BY <1>7, <2>1, <3>1, <3>2 DEF Flow
  <2>4. QED BY <2>2, <2>3
<1>11. CASE GotBefore(h)
  <2>1. pc[h] = "before" /\ target' = target /\ SendAdd(h, target[h])
    BY <1>11 DEF GotBefore, Told
  <2>2. Kind(h) \in Adding
    BY <1>0, <1>1, <2>1 DEF StepsOf, Adding
  <2>3. QED BY <1>2, <1>7, <2>1, <2>2 DEF Flow
<1>12. CASE Added(h)
  <2>1. Told(h, "add") /\ pc[h] = "add"
    BY <1>12 DEF Added, Told
  <2>2. Kind(h) \in Adding
    BY <1>0, <1>1, <2>1 DEF StepsOf
  <2>3. CASE Kind(h) # "play" /\ MoreTargets(h)
    <3>1. target' = [target EXCEPT ![h] = target[h] + 1] /\ SendAdd(h, target[h] + 1)
      BY <1>12, <2>3 DEF Added
    <3>2. target'[h] = target[h] + 1 /\ target[h] + 1 \in 1..n
      BY <1>1, <1>2, <2>3, <3>1 DEF MoreTargets, n
    <3>3. QED BY <1>7, <2>1, <2>2, <3>1, <3>2 DEF Flow
  <2>4. CASE Kind(h) = "play"
    BY <1>6, <1>12, <2>1, <2>4 DEF Added, Flow
  <2>5. CASE Kind(h) # "play" /\ ~MoreTargets(h)
    <3>1. target[h] = n
      BY <1>1, <1>2, <2>5 DEF MoreTargets, n
    <3>2. Finish(h, "ok") \/ Send(h, "newlen", StatusCmd)
      BY <1>12, <2>5 DEF Added
    <3>3. QED BY <1>4, <1>6, <2>1, <3>1, <3>2 DEF Flow, n
  <2>6. QED BY <2>3, <2>4, <2>5
<1>13. CASE GotAfter(h)
  <2>1. pc[h] = "after" /\ oldLen' = oldLen
    BY <1>13 DEF GotAfter, Told
  <2>2. CASE MoreTargets(h)
    <3>1. target'[h] = target[h] + 1 /\ Send(h, "before", StatusCmd)
      BY <1>2, <1>13, <2>2 DEF GotAfter
    <3>2. QED BY <1>6, <2>1, <3>1 DEF Flow
  <2>3. CASE ~MoreTargets(h)
    <3>1. target[h] = n
      BY <1>1, <1>2, <2>3 DEF MoreTargets, n
    <3>2. Finish(h, "error") \/ DropOld(h)
      BY <1>13, <2>3 DEF GotAfter
    <3>3. QED BY <1>4, <1>8, <2>1, <3>1, <3>2 DEF Flow, n
  <2>4. QED BY <2>2, <2>3
<1>14. CASE AddFailed(h)
  <2>1. /\ pc[h] = "add" /\ UNCHANGED <<oldLen, added, target>>
        /\ ~Told(h, "add") /\ result[h] # "ok"
    BY <1>0, <1>14 DEF AddFailed, localVars, Told
  <2>2. CASE Send(h, "undo", DeleteCmd(oldLen[h], oldLen[h] + added[h]))
    <3>1. Sending(h) /\ pc'[h] = "undo" /\ result' = result
      BY <1>3, <1>5, <2>1, <2>2, SendingIs, SendEffect DEF Steps
    <3>2. QED BY <2>1, <3>1 DEF Flow
  <2>3. CASE Finish(h, "error")
    BY <1>4, <2>1, <2>3 DEF Flow
  <2>4. QED BY <1>14, <2>2, <2>3 DEF AddFailed
<1>15. CASE GotNewLen(h)
  <2>1. pc[h] = "newlen" /\ UNCHANGED <<oldLen, at, target>>
    BY <1>15 DEF GotNewLen, Told, localVars
  <2>2. CASE Finish(h, "error") \/ Finish(h, "ok")
    BY <1>4, <2>1, <2>2 DEF Flow
  <2>3. CASE DropOld(h)
    BY <1>8, <2>1, <2>3 DEF Flow
  <2>4. CASE /\ reply[h].len > oldLen[h] /\ at[h] < oldLen[h]
             /\ Send(h, "move", MoveCmd(oldLen[h], reply[h].len, at[h]))
    <3>1. IsSent(Sent(h, MoveCmd(oldLen[h], reply[h].len, at[h])))
      BY <1>2, <2>4, CommandTypes
    <3>2. Sending(h) /\ pc'[h] = "move"
      BY <1>3, <2>1, <2>4, <3>1, SendingIs, SendEffect DEF Steps
    <3>3. QED BY <2>1, <3>2 DEF Flow
  <2>5. QED
    <3>1. oldLen[h] \in Nat
      BY <1>2
    <3>2. QED BY <1>2, <1>15, <2>2, <2>3, <2>4, <3>1 DEF GotNewLen
<1>16. CASE EachDone(h)
  <2>1. pc[h] = "each"
    BY <1>16 DEF EachDone, Told
  <2>2. Kind(h) = "each"
    BY <1>0, <1>1, <2>1 DEF StepsOf, Adding
  <2>3. CASE MoreTargets(h)
    <3>1. /\ target' = [target EXCEPT ![h] = target[h] + 1]
          /\ Send(h, "each", job[h].targets[target[h] + 1])
      BY <1>16, <2>3 DEF EachDone
    <3>2. target'[h] = target[h] + 1 /\ target[h] + 1 \in 1..n
      BY <1>1, <1>2, <2>3, <3>1 DEF MoreTargets, n
    <3>3. Sending(h) /\ pc'[h] = "each"
      BY <1>3, <1>5, <2>2, <3>1, <3>2, SendingIs, SendEffect DEF Steps
    <3>4. QED BY <2>1, <3>3 DEF Flow
  <2>4. CASE ~MoreTargets(h)
    BY <1>4, <1>16, <2>1, <2>4 DEF EachDone, Flow
  <2>5. QED BY <2>3, <2>4
<1>17. CASE Dropped(h)
  <2>1. pc[h] = "drop" /\ Send(h, "play", PlayCmd)
    BY <1>17 DEF Dropped, Told
  <2>2. Sending(h) /\ pc'[h] = "play"
    BY <1>3, <1>5, <2>1, SendingIs, SendEffect DEF Steps
  <2>3. QED BY <2>1, <2>2 DEF Flow
<1>18. CASE Done(h)
  <2>1. pc[h] \in {"play", "move"} /\ Finish(h, "ok")
    BY <1>18 DEF Done, Told
  <2>2. QED BY <1>4, <2>1 DEF Flow
<1>19. CASE Fails(h)
  <2>1. Finish(h, "error") /\ target' = target /\ pc[h] \notin {"add", "begin"}
    BY <1>0, <1>19 DEF Fails, localVars
  <2>2. Sending(h) /\ pc'[h] = "done" /\ result'[h] = "error"
    BY <1>4, <2>1
  <2>3. QED BY <2>1, <2>2 DEF Flow
<1>20. QED BY <1>9, <1>10, <1>11, <1>12, <1>13, <1>14, <1>15, <1>16, <1>17, <1>18, <1>19 DEF Handler

\* Before a handler's step no command of its is waited for.
LEMMA NoneAwaited ==
    ASSUME HandlerType, NEW h \in Handlers, StepInv(h), AwaitInv(h), Handler(h)
    PROVE  \A i \in 1..Len(channel) : ~Awaits(h, i)
<1>1. pc[h] = "begin" \/ reply[h].status # "none"
  BY DEF Handler, Begin, GotLen, GotBefore, Added, GotAfter, AddFailed, GotNewLen, EachDone,
         Dropped, Done, Fails, Told
<1>2. \A i : Expected(h, channel[i]) => pc[h] # "begin"
  BY DEF Expected
<1>3. QED BY <1>1, <1>2 DEF AwaitInv

LEMMA HandlerInv ==
    ASSUME IInv, NEW h \in Handlers, Handler(h)
    PROVE  StepInv(h)' /\ AwaitInv(h)' /\ AddInv(h)'
<1> DEFINE ts == job[h].targets
<1>0. HandlerType /\ ChannelType /\ QueueType /\ StepInv(h) /\ AwaitInv(h) /\ AddInv(h)
  BY DEF IInv, TypeOK
<1>1. /\ Acts(h) /\ Works(h) /\ Goes(h) /\ Sending(h) /\ Flow(h)
      /\ UNCHANGED <<appended, fulfilled, job>>
  BY <1>0, HandlerSteps, HandlerFlow DEF handlerRest, mpdVars
<1>2. /\ Len(channel) \in Nat /\ Len(channel') \in {Len(channel), Len(channel) + 1}
      /\ \A i \in 1..Len(channel) : channel'[i] = channel[i]
      /\ \A i \in 1..Len(channel') : i > Len(channel) => channel'[i].by = h /\ channel'[i].awaited
      /\ reply'[h].status = "none"
  BY <1>1 DEF Acts, None
<1>3. \A i \in 1..Len(channel') : \/ i \in 1..Len(channel) /\ channel'[i] = channel[i]
                                  \/ i = Len(channel) + 1 /\ Len(channel') = Len(channel) + 1
  BY <1>2
<1>4. \A i \in 1..Len(channel') : i = Len(channel) + 1 => Expected(h, channel[i])'
  BY <1>1, <1>2 DEF Sending
<1>5. StepInv(h)'
  <2>1. pc'[h] \in StepsOf(Kind(h)) \ {"begin"} /\ Kind(h)' = Kind(h)
    BY <1>1 DEF Goes, Kind
  <2>2. QED BY <1>1, <1>2, <2>1 DEF Goes, StepInv
<1>6. AwaitInv(h)'
  <2> SUFFICES ASSUME NEW i \in 1..Len(channel'), Awaits(h, i)'
               PROVE  /\ reply'[h].status = "none" /\ Expected(h, channel[i])'
                      /\ \A j \in 1..Len(channel') : Awaits(h, j)' => j = i
    BY DEF AwaitInv
  <2>1. \A j \in 1..Len(channel') : Awaits(h, j)' => j = Len(channel) + 1
    BY <1>0, <1>3, NoneAwaited DEF Awaits
  <2>2. QED BY <1>2, <1>4, <2>1
<1>7. /\ ts \in Seq(Range(ts)) /\ Len(ts) \in Nat /\ target[h] \in 1..Len(ts)
      /\ Kind(h) \in Adding \cup {"each", "none"}
      /\ Kind(h) = "each" => \A i \in 1..Len(ts) : ts[i].op # "add"
  BY <1>0, RequestType DEF HandlerType, IsRequest, RouteCommand, ById, Kind
<1>8. target'[h] \in 1..Len(ts)
  BY <1>1 DEF Works
<1>9. \A k, m \in 0..Len(ts) : Fulfilled(h, k) /\ Fulfilled(h, m) => k = m
  <2> SUFFICES ASSUME NEW k \in 0..Len(ts), NEW m \in 0..Len(ts), SubSeq(ts, 1, k) = SubSeq(ts, 1, m)
               PROVE  k = m
    BY DEF Fulfilled
  <2> HIDE DEF ts
  <2>1. Len(SubSeq(ts, 1, k)) = k /\ Len(SubSeq(ts, 1, m)) = m
    BY <1>7
  <2>2. QED BY <2>1
<1>10. Told(h, "add") => \A i \in 1..Len(channel) : ~Adds(h, i)
  <2> SUFFICES ASSUME Told(h, "add"), NEW i \in 1..Len(channel), Adds(h, i) PROVE FALSE
    OBVIOUS
  <2>1. Kind(h) \in Adding
    BY <1>0, <1>7 DEF Told, StepInv, StepsOf
  <2>2. Fulfilled(h, target[h]) /\ Fulfilled(h, target[h] - 1)
    BY <1>0, <2>1 DEF AddInv, Told
  <2>3. target[h] \in 0..Len(ts) /\ target[h] - 1 \in 0..Len(ts) /\ target[h] # target[h] - 1
    BY <1>7
  <2>4. QED BY <1>9, <2>2, <2>3
<1>11. \A i \in 1..Len(channel') : Expected(h, channel[i])' /\ channel'[i].op = "add" =>
          pc'[h] = "add" /\ channel'[i].a = ts[target'[h]]
  <2>1. pc'[h] = "each" => Kind(h) = "each"
    BY <1>1, <1>7 DEF Goes, StepsOf, Adding
  <2>2. pc'[h] = "each" => ts[target'[h]].op # "add"
    BY <1>7, <1>8, <2>1
  <2>3. job' = job
    BY <1>1
  <2>4. QED BY <2>2, <2>3 DEF Expected
<1>12. Kind(h) \in Adding => Fulfilled(h, Len(ts)) = (fulfilled[h] = ts)
  <2>1. SubSeq(ts, 1, Len(ts)) = ts
    BY <1>7, SubSeqFull
  <2>2. QED BY <2>1 DEF Fulfilled
<1>13. pc[h] = "begin" => Fulfilled(h, 0)
  <2>1. SubSeq(ts, 1, 0) = <<>>
    BY <1>7, SubSeqEmpty
  <2>2. QED BY <1>0, <2>1 DEF StepInv, Fulfilled
<1>14. \A k : Fulfilled(h, k)' <=> Fulfilled(h, k)
  BY <1>1 DEF Fulfilled
<1> HIDE DEF ts
<1>15. ASSUME pc'[h] = "add"
       PROVE  Fulfilled(h, target'[h] - 1) /\ \A i \in 1..Len(channel) : ~Adds(h, i)
  <2>1. Kind(h) \in Adding
    BY <1>1, <1>7, <1>15 DEF Goes, StepsOf
  <2>2. CASE pc[h] \in {"begin", "len", "before"} /\ target'[h] = target[h]
    BY <1>0, <1>13, <2>1, <2>2 DEF AddInv, StepInv
  <2>3. CASE Told(h, "add") /\ target'[h] = target[h] + 1
    <3>1. target'[h] - 1 = target[h]
      BY <1>7, <2>3
    <3>2. Fulfilled(h, target[h])
      BY <1>0, <2>1, <2>3 DEF AddInv, Told
    <3>3. QED BY <1>10, <2>3, <3>1, <3>2
  <2>4. QED BY <1>1, <1>15, <2>2, <2>3 DEF Flow
<1>16. ASSUME NEW i \in 1..Len(channel'), Adds(h, i)'
       PROVE  /\ pc'[h] \in {"add", "undo", "done"} /\ result'[h] # "ok"
              /\ pc'[h] = "add" /\ reply'[h].status = "none" => channel'[i].awaited
              /\ channel'[i].a = ts[target'[h]]
              /\ Fulfilled(h, target'[h] - 1)
              /\ \A j \in 1..Len(channel') : Adds(h, j)' => j = i
  <2>1. CASE i \in 1..Len(channel) /\ channel'[i] = channel[i]
    <3>1. Adds(h, i)
      BY <1>16, <2>1 DEF Adds
    <3>2. /\ pc[h] \in {"add", "undo", "done"} /\ ~Told(h, "add") /\ pc'[h] # "add"
          /\ channel[i].a = ts[target[h]] /\ Fulfilled(h, target[h] - 1)
          /\ \A j \in 1..Len(channel) : Adds(h, j) => j = i
      BY <1>0, <1>10, <1>15, <2>1, <3>1 DEF AddInv, ts
    <3>3. pc[h] # "done"
      <4>1. pc[h] = "done" => reply[h].status = "none"
        BY <1>0 DEF StepInv
      <4>2. QED BY <4>1 DEF Handler, Begin, GotLen, GotBefore, Added, GotAfter, AddFailed, GotNewLen,
                           EachDone, Dropped, Done, Fails, Told
    <3>4. pc'[h] \in {"undo", "done"} /\ result'[h] # "ok" /\ target'[h] = target[h]
      BY <1>1, <3>2, <3>3 DEF Flow
    <3>5. \A j \in 1..Len(channel') : Adds(h, j)' => j \in 1..Len(channel) /\ channel'[j] = channel[j]
      BY <1>3, <1>4, <1>11, <3>2 DEF Adds
    <3>6. QED BY <2>1, <3>2, <3>4, <3>5 DEF Adds
  <2>2. CASE i = Len(channel) + 1
    <3>1. pc'[h] = "add" /\ channel'[i].a = ts[target'[h]]
      BY <1>4, <1>11, <1>16, <2>2 DEF Adds
    <3>2. Fulfilled(h, target'[h] - 1) /\ \A j \in 1..Len(channel) : ~Adds(h, j)
      BY <1>15, <3>1
    <3>3. \A j \in 1..Len(channel') : Adds(h, j)' => j = i
      BY <1>3, <2>2, <3>2 DEF Adds
    <3>4. i > Len(channel)
      BY <1>2, <2>2
    <3>5. channel'[i].awaited /\ result'[h] # "ok"
      BY <1>1, <1>2, <3>1, <3>4 DEF Goes
    <3>6. QED BY <3>1, <3>2, <3>3, <3>5
  <2>3. QED BY <1>3, <2>1, <2>2
<1>17. ASSUME Kind(h) \in Adding
       PROVE  /\ pc'[h] \in {"len", "before"} => Fulfilled(h, target'[h] - 1)
              /\ pc'[h] = "after" => Fulfilled(h, target'[h])
              /\ pc'[h] \in {"newlen", "drop", "move", "play"} => fulfilled[h] = ts
  <2>1. pc'[h] = "len" => Fulfilled(h, target'[h] - 1)
    BY <1>0, <1>1, <1>13 DEF Goes, Flow
  <2>2. pc'[h] = "before" => Fulfilled(h, target'[h] - 1)
    <3>1. pc[h] = "after" /\ target'[h] = target[h] + 1 => Fulfilled(h, target'[h] - 1)
      <4>1. (target[h] + 1) - 1 = target[h]
        BY <1>7
      <4>2. QED BY <1>0, <1>17, <4>1 DEF AddInv
    <3>2. pc[h] = "len" /\ target'[h] = target[h] => Fulfilled(h, target'[h] - 1)
      BY <1>0, <1>17 DEF AddInv
    <3>3. QED BY <1>1, <3>1, <3>2 DEF Flow
  <2>3. pc'[h] = "after" => Fulfilled(h, target'[h])
    BY <1>0, <1>1, <1>17 DEF Flow, AddInv, Told
  <2>4. pc'[h] \in {"newlen", "drop", "move", "play"} => fulfilled[h] = ts
    BY <1>0, <1>1, <1>12, <1>17 DEF Flow, AddInv, Told, ts
  <2>5. QED BY <2>1, <2>2, <2>3, <2>4
<1>18. Kind(h)' = Kind(h)
  BY <1>1 DEF Kind
<1>19. fulfilled'[h] = fulfilled[h] /\ job'[h].targets = ts
  BY <1>1 DEF ts
<1>20. AddInv(h)'
  BY <1>2, <1>14, <1>16, <1>17, <1>18, <1>19 DEF AddInv
<1>21. QED BY <1>5, <1>6, <1>20

LEMMA NothingHappens == ASSUME IInv, UNCHANGED vars PROVE IInv'
<1>1. UNCHANGED <<queue, playing, appended, fulfilled, channel, job, pc, reply, result,
                  oldLen, before, added, at, target, old, failures, advances>>
  BY DEF vars, mpdVars, localVars, bounds
<1>2. TypeOK'
  BY <1>1 DEF IInv, TypeOK, QueueType, OldType, ChannelType, HandlerType, BoundsType
<1>3. ASSUME NEW h \in Handlers PROVE StepInv(h)' /\ AwaitInv(h)' /\ AddInv(h)'
  <2>1. StepInv(h) /\ AwaitInv(h) /\ AddInv(h)
    BY DEF IInv
  <2>2. StepInv(h)' /\ AddInv(h)'
    BY <1>1, <2>1 DEF StepInv, AddInv, Adds, Fulfilled, Kind
  <2>3. AwaitInv(h)'
    BY <1>1, <2>1, ExpectedKept DEF AwaitInv, Awaits
  <2>4. QED BY <2>2, <2>3
<1>4. QED BY <1>2, <1>3 DEF IInv

LEMMA NextInv == ASSUME IInv, [Next]_vars PROVE IInv'
<1>0. TypeOK /\ \A h \in Handlers : StepInv(h)
  BY DEF IInv
<1>1. CASE Execute \/ RefuseAdd \/ LoseCommand
  <2>1. TypeOK'
    BY <1>0, <1>1, ExecuteType, FailureType
  <2>2. PICK s \in {"OK", "ACK", "lost"} : Leaves(s)
    BY <1>0, <1>1, LeaveEffect
  <2>3. QED BY <2>1, <2>2, LeaveInv DEF IInv
<1>2. CASE Advance
  BY <1>0, <1>2, FailureType, AdvanceInv DEF IInv
<1>3. ASSUME NEW h \in Handlers, GiveUp(h) PROVE IInv'
  BY <1>0, <1>3, FailureType, GiveUpInv DEF IInv
<1>4. ASSUME NEW h \in Handlers, Handler(h) PROVE IInv'
  <2>1. TypeOK'
    BY <1>0, <1>4, HandlerKeepsType
  <2>2. \A g \in Handlers : StepInv(g)' /\ AwaitInv(g)' /\ AddInv(g)'
    BY <1>4, HandlerInv, OthersInv
  <2>3. QED BY <2>1, <2>2 DEF IInv
<1>5. QED BY <1>1, <1>2, <1>3, <1>4, NothingHappens DEF Next

THEOREM Inductive == Spec => []IInv
BY InitInv, NextInv, PTL DEF Spec

\* MPD's queue never lists a song twice nor one that nobody added, what plays is in
\* it, and the handlers send only ranges that are not reversed, whatever is asked
\* for, by however many, in whatever order it is carried out or fails.
THEOREM TypeCorrect == Spec => []TypeOK
<1>1. IInv => TypeOK
  BY DEF IInv
<1>2. QED BY <1>1, Inductive, PTL

-----------------------------------------------------------------------------
(* The mock.                                                               *)

\* Removing its range, where there is one, is cutting it out.
LEMMA RemoveRangeIsCut ==
    ASSUME NEW q \in Seq(Ids), NEW a \in Nat, NEW b \in Nat
    PROVE  LET e == IF b <= Len(q) THEN b ELSE Len(q) IN
           /\ a <= e => RemoveRange(q, a, b) = Cut(q, a, e)
           /\ e <= a => RemoveRange(q, a, b) = q
<1> DEFINE e == IF b <= Len(q) THEN b ELSE Len(q)
<1>1. Len(q) \in Nat /\ e \in Nat /\ e <= Len(q) /\ Clamped(b, Len(q)) = e
  BY DEF Clamped
<1> HIDE DEF e
<1>2. a < e => RemoveRange(q, a, b) = Cut(q, a, e)
  <2>1. Slice(q, 0, a) = SubSeq(q, 1, a)
    BY DEF Slice
  <2>2. Slice(q, 0, a) \o Slice(q, e, Len(q)) = Cut(q, a, e)
    BY <2>1 DEF Slice, Cut
  <2>3. QED BY <1>1, <2>2 DEF RemoveRange
<1>3. e <= a => RemoveRange(q, a, b) = q
  BY <1>1 DEF RemoveRange
<1>4. ASSUME a = e PROVE Cut(q, a, e) = q
  <2> DEFINE r == Cut(q, a, e)
  <2>1. /\ r \in Seq(Ids) /\ Len(r) = Len(q) - (e - a)
        /\ \A i \in 1..Len(r) : r[i] = q[IF i <= a THEN i ELSE i + (e - a)]
    BY <1>1, <1>4, CutEffect
  <2> HIDE DEF r
  <2>2. Len(r) = Len(q) /\ \A i \in 1..Len(r) : r[i] = q[i]
    BY <1>1, <1>4, <2>1
  <2>3. r = q
    BY <2>1, <2>2, SeqEqual
  <2>4. QED BY <2>3 DEF r
<1>5. a <= e => RemoveRange(q, a, b) = Cut(q, a, e)
  BY <1>1, <1>2, <1>3, <1>4
<1>6. QED BY <1>3, <1>5 DEF e

LEMMA MockMirrors == ASSUME TypeOK PROVE MockMirrorsMpd
<1> DEFINE cmd == Head(channel)
           n == Len(queue)
<1> SUFFICES ASSUME channel # <<>>, cmd.op \in Mirrored
             PROVE  IF Refuses(cmd) THEN MockRefuses(cmd) \/ MockQueue(cmd, cmd.by) = queue
                    ELSE ~MockRefuses(cmd) /\ MockQueue(cmd, cmd.by) \in Becomes(cmd, cmd.by)
  BY DEF MockMirrorsMpd
<1>0. QueueType /\ ChannelType /\ IsSent(cmd) /\ queue \in Seq(Ids) /\ n \in Nat
  BY OldestCommand DEF TypeOK, QueueType
<1> HIDE DEF cmd
<1>1. CASE cmd.op \in {"add", "clear", "play"}
  <2>1. ~MockRefuses(cmd) /\ (Refuses(cmd) => cmd.op = "play")
    BY <1>1 DEF Refuses, MockRefuses
  <2>2. CASE cmd.op = "add"
    <3>1. MockQueue(cmd, cmd.by) = queue \o Fresh(cmd.by, cmd.a)
      BY <2>2 DEF MockQueue
    <3>2. Becomes(cmd, cmd.by) = {queue \o Fresh(cmd.by, cmd.a)}
      BY <1>0, <2>2, BecomesCases
    <3>3. QED BY <2>1, <2>2, <3>1, <3>2
  <2>3. CASE cmd.op = "clear"
    <3>1. MockQueue(cmd, cmd.by) = <<>>
      BY <2>3 DEF MockQueue
    <3>2. Becomes(cmd, cmd.by) = {<<>>}
      BY <1>0, <2>3, BecomesCases
    <3>3. QED BY <2>1, <2>3, <3>1, <3>2
  <2>4. CASE cmd.op = "play"
    <3>1. MockQueue(cmd, cmd.by) = queue
      BY <2>4 DEF MockQueue
    <3>2. Becomes(cmd, cmd.by) = {queue}
      BY <1>0, <2>4, BecomesCases
    <3>3. QED BY <2>1, <3>1, <3>2
  <2>5. QED BY <1>1, <2>2, <2>3, <2>4
<1>2. CASE cmd.op = "delete"
  <2> DEFINE e == IF cmd.b <= n THEN cmd.b ELSE n
  <2>1. /\ cmd.a \in Nat /\ cmd.b \in Nat /\ cmd.a <= cmd.b /\ ~MockRefuses(cmd)
        /\ Refuses(cmd) <=> cmd.a > n
        /\ MockQueue(cmd, cmd.by) = RemoveRange(queue, cmd.a, cmd.b)
    BY <1>0, <1>2 DEF IsSent, MockRefuses, MockQueue, Refuses
  <2>2. CASE cmd.a > n
    <3>1. e <= cmd.a
      BY <1>0, <2>1, <2>2
    <3>2. QED BY <1>0, <2>1, <2>2, <3>1, RemoveRangeIsCut
  <2>3. CASE ~(cmd.a > n)
    <3>1. cmd.a <= e
      BY <1>0, <2>1, <2>3
    <3>2. RemoveRange(queue, cmd.a, cmd.b) = Cut(queue, cmd.a, e)
      BY <1>0, <2>1, <3>1, RemoveRangeIsCut
    <3>3. Becomes(cmd, cmd.by) = {Cut(queue, cmd.a, e)}
      BY <1>0, <1>2, BecomesCases
    <3>4. QED BY <2>1, <2>3, <3>2, <3>3
  <2>4. QED BY <2>2, <2>3
<1>3. CASE cmd.op = "move"
  <2>1. /\ cmd.a \in Nat /\ cmd.b \in Nat /\ cmd.c \in Nat /\ cmd.c < cmd.a /\ cmd.a < cmd.b
    BY <1>0, <1>3 DEF IsSent
  <2>2. Refuses(cmd) <=> (cmd.a >= n \/ cmd.b > n \/ cmd.c > n - (cmd.b - cmd.a))
    BY <1>3 DEF Refuses
  <2>3. MockRefuses(cmd) <=> (\/ cmd.c > IF n > cmd.b - cmd.a THEN n - (cmd.b - cmd.a) ELSE 0
                              \/ cmd.a >= n \/ cmd.b > n)
    BY <1>0, <1>3, <2>1 DEF MockRefuses, Minus
  <2>4. Refuses(cmd) <=> MockRefuses(cmd)
    BY <1>0, <2>1, <2>2, <2>3
  <2>5. ASSUME ~Refuses(cmd) PROVE MockQueue(cmd, cmd.by) \in Becomes(cmd, cmd.by)
    <3>1. cmd.b <= n
      BY <1>0, <2>1, <2>2, <2>5
    <3>2. RemoveRange(queue, cmd.a, cmd.b) = Cut(queue, cmd.a, cmd.b)
      BY <1>0, <2>1, <3>1, RemoveRangeIsCut
    <3>3. MockMove(queue, cmd.a, cmd.b, cmd.c) = Moved(queue, cmd.a, cmd.b, cmd.c)
      <4>1. \A q, m : Slice(q, 0, m) = SubSeq(q, 1, m)
        BY DEF Slice
      <4>2. QED BY <2>1, <3>2, <4>1 DEF MockMove, Moved, Slice
    <3>4. Becomes(cmd, cmd.by) = {Moved(queue, cmd.a, cmd.b, cmd.c)}
      BY <1>0, <1>3, <3>1, BecomesCases
    <3>5. QED BY <1>3, <3>3, <3>4 DEF MockQueue
  <2>6. QED BY <2>4, <2>5
<1>4. QED BY <1>1, <1>2, <1>3 DEF Mirrored

\* The tests' stand-in for MPD does what MPD does, for any queue and any command
\* the handlers may send.
THEOREM MockIsFaithful == Spec => []MockMirrorsMpd
BY MockMirrors, TypeCorrect, PTL

-----------------------------------------------------------------------------
(* Requests that remove songs.                                             *)

LEMMA RemovesType ==
    ASSUME HandlerType, NEW h \in Handlers, Removes(h)
    PROVE  LET ts == job[h].targets IN
           /\ Len(ts) \in Nat \ {0} /\ DOMAIN ts = 1..Len(ts) /\ target[h] \in 1..Len(ts)
           /\ \A i \in 1..Len(ts) : ts[i].op = "deleteid" /\ ts[i].a \in Ids
<1> DEFINE ts == job[h].targets
<1>1. IsRequest(job[h]) /\ Len(ts) \in Nat \ {0} /\ Kind(h) = "each" /\ ts[1].op = "deleteid"
  BY RequestType DEF Removes
<1>2. ts \in Seq(Range(ts)) /\ target[h] \in 1..Len(ts)
  BY <1>1 DEF IsRequest, HandlerType
<1>3. /\ \A i \in 1..Len(ts) : RouteCommand(ts[i])
      /\ Len(ts) > 1 => \A i \in 1..Len(ts) : ts[i].op = "deleteid"
  BY <1>1 DEF IsRequest, Kind
<1> HIDE DEF ts
<1>4. ASSUME NEW i \in 1..Len(ts) PROVE ts[i].op = "deleteid" /\ ts[i].a \in Ids
  <2>1. ts[i].op = "deleteid"
    <3>1. Len(ts) = 1 => i = 1
      BY <1>1
    <3>2. Len(ts) = 1 \/ Len(ts) > 1
      <4>1. \A m \in Nat \ {0} : m = 1 \/ m > 1
        OBVIOUS
      <4>2. Len(ts) \in Nat \ {0}
        BY <1>1
      <4>3. QED BY ONLY <4>1, <4>2
    <3>3. CASE Len(ts) = 1
      BY <1>1, <3>1, <3>3
    <3>4. CASE Len(ts) > 1
      BY <1>3, <3>4
    <3>5. QED BY <3>2, <3>3, <3>4
  <2>2. QED BY <1>3, <2>1 DEF RouteCommand, ById
<1>5. DOMAIN ts = 1..Len(ts)
  BY <1>2
<1>6. QED BY <1>1, <1>2, <1>4, <1>5 DEF ts

\* The steps of a request whose commands are sent one by one.
LEMMA EachSteps ==
    ASSUME IInv, NEW h \in Handlers, Kind(h) = "each", Handler(h)
    PROVE  LET ts == job[h].targets
               sends(i) == /\ Len(channel') = Len(channel) + 1 /\ Len(channel) \in Nat
                           /\ channel'[Len(channel) + 1] = Sent(h, ts[i])
                           /\ pc'[h] = "each" /\ reply'[h].status = "none" /\ result'[h] = result[h]
               ends == channel' = channel /\ pc'[h] = "done"
           IN
           \/ pc[h] = "begin" /\ target[h] = 1 /\ target'[h] = 1 /\ sends(1)
           \/ /\ Told(h, "each") /\ target[h] + 1 \in 1..Len(ts) /\ target'[h] = target[h] + 1
              /\ sends(target[h] + 1)
           \/ /\ Told(h, "each") /\ target[h] = Len(ts) /\ target'[h] = target[h]
              /\ ends /\ result'[h] = "ok"
           \/ /\ pc[h] = "each" /\ reply[h].status \in {"ACK", "lost"} /\ target'[h] = target[h]
              /\ ends /\ result'[h] = "error"
<1> DEFINE ts == job[h].targets
           n == Len(ts)
<1>0. /\ ChannelType /\ HandlerType /\ StepInv(h)
  BY DEF IInv, TypeOK
<1>1. /\ pc[h] \in {"begin", "each", "done"} /\ (pc[h] = "begin" => target[h] = 1)
      /\ pc[h] \in {"begin", "done"} => reply[h].status = "none"
  BY <1>0 DEF StepInv, StepsOf
<1>2. n \in Nat \ {0} /\ target \in [Handlers -> Nat] /\ target[h] \in 1..n
  BY <1>0, RequestType DEF HandlerType
<1>3. ASSUME NEW i \in 1..n, Send(h, "each", ts[i])
      PROVE  /\ Len(channel') = Len(channel) + 1 /\ Len(channel) \in Nat
             /\ channel'[Len(channel) + 1] = Sent(h, ts[i])
             /\ pc'[h] = "each" /\ reply'[h].status = "none" /\ result'[h] = result[h]
  <2>1. IsSent(Sent(h, ts[i]))
    BY <1>0, CommandTypes
  <2>2. "each" \in Steps /\ None.status = "none"
    BY DEF Steps, None
  <2> HIDE DEF ts
  <2>3. QED BY <1>0, <1>3, <2>1, <2>2, SendEffect
<1>4. ASSUME NEW res \in {"ok", "error"}, Finish(h, res)
      PROVE  channel' = channel /\ pc'[h] = "done" /\ result'[h] = res
  BY <1>0, <1>4, FinishEffect
<1>5. CASE Begin(h)
  <2>1. pc[h] = "begin" /\ target'[h] = 1 /\ 1 \in 1..n /\ Send(h, "each", ts[1])
    BY <1>1, <1>2, <1>5 DEF Begin, localVars
  <2>2. QED BY <1>1, <1>3, <2>1
<1>6. CASE EachDone(h)
  <2>1. CASE MoreTargets(h)
    <3>1. target' = [target EXCEPT ![h] = target[h] + 1] /\ Send(h, "each", ts[target[h] + 1])
      BY <1>6, <2>1 DEF EachDone
    <3>2. target[h] + 1 \in 1..n /\ target'[h] = target[h] + 1
      BY <1>2, <2>1, <3>1 DEF MoreTargets
    <3>3. QED BY <1>3, <1>6, <3>1, <3>2 DEF EachDone
  <2>2. CASE ~MoreTargets(h)
    <3>1. target[h] = n
      BY <1>2, <2>2 DEF MoreTargets
    <3>2. QED BY <1>4, <1>6, <2>2, <3>1 DEF EachDone
  <2>3. QED BY <2>1, <2>2
<1>7. CASE Fails(h)
  BY <1>1, <1>4, <1>7 DEF Fails, localVars
<1>8. QED BY <1>1, <1>5, <1>6, <1>7 DEF Handler, GotLen, GotBefore, Added, GotAfter, AddFailed,
          GotNewLen, Dropped, Done, Told

\* A song that is gone does not come back.
LEMMA GoneForGood ==
    ASSUME IInv, [Next]_vars, NEW song \in Ids, Gone(song)
    PROVE  Gone(song)'
<1>0. QueueType /\ ChannelType /\ TypeOK /\ \A h \in Handlers : StepInv(h)
  BY DEF IInv, TypeOK
<1>1. CASE UNCHANGED <<queue, appended>>
  BY <1>1 DEF Gone
<1>2. CASE Execute
  <2> DEFINE cmd == channel[1]
  <2>1. PICK s \in {"OK", "ACK", "lost"} : Leaves(s)
    BY <1>0, <1>2, LeaveEffect
  <2>2. IsSent(cmd) /\ Head(channel) = cmd /\ cmd.by \in Handlers
    BY <2>1 DEF Leaves, IsSent
  <2>3. \A g \in Handlers : appended'[g] = appended[g]
                            \/ (g = cmd.by /\ cmd.op = "add" /\ appended'[g] = appended[g] + cmd.a)
    BY <2>1 DEF Leaves
  <2>4. \A g \in Handlers : appended[g] \in Nat /\ appended'[g] \in Nat /\ appended[g] <= appended'[g]
    <3>1. cmd.op = "add" => cmd.a \in Nat
      BY <2>2 DEF IsSent
    <3>2. appended \in [Handlers -> Nat]
      BY <1>0 DEF QueueType
    <3> HIDE DEF cmd
    <3>3. QED BY <2>3, <3>1, <3>2
  <2>5. song.by = User \/ song.n <= appended'[song.by]
    <3>1. song.by # User => song.by \in Handlers /\ song.n \in Nat
      BY DEF Ids
    <3>2. QED BY <2>4, <3>1 DEF Gone
  <2>6. ~Contains(queue', song)
    <3>1. CASE s = "OK"
      <4>1. Execute /\ ~Refuses(cmd)
        BY <2>1, <3>1 DEF Leaves
      <4>2. queue' \in Becomes(cmd, cmd.by)
        BY <2>2, <4>1 DEF Execute
      <4>3. Contains(queue', song) => cmd.op = "add" /\ Contains(Fresh(cmd.by, cmd.a), song)
        BY <1>0, <2>2, <4>1, <4>2, BecomesEffect DEF Gone
      <4>4. cmd.op = "add" => cmd.a \in Nat
        BY <2>2 DEF IsSent
      <4> HIDE DEF cmd
      <4>5. cmd.op = "add" /\ Contains(Fresh(cmd.by, cmd.a), song)
               => song.by = cmd.by /\ song.n > appended[cmd.by]
        BY <1>0, <2>2, <4>4, FreshSongs
      <4>6. song.n \in Nat
        BY DEF Ids
      <4>7. QED BY <2>2, <2>4, <4>3, <4>5, <4>6 DEF Gone
    <3>2. CASE s # "OK"
      BY <2>1, <3>2 DEF Leaves, Gone
    <3>3. QED BY <3>1, <3>2
  <2>7. QED BY <2>5, <2>6 DEF Gone
<1>3. CASE RefuseAdd \/ LoseCommand \/ Advance \/ UNCHANGED vars
  BY <1>1, <1>3 DEF RefuseAdd, LoseCommand, Advance, vars, mpdVars
<1>4. ASSUME NEW h \in Handlers, Handler(h) \/ GiveUp(h) PROVE Gone(song)'
  <2>1. UNCHANGED mpdVars
    BY <1>0, <1>4, HandlerSteps DEF handlerRest, GiveUp, IInv, TypeOK
  <2>2. QED BY <1>1, <2>1 DEF mpdVars
<1>5. QED BY <1>2, <1>3, <1>4 DEF Next

GoneNext(song) == ~Contains(queue', song) /\ (song.by = User \/ song.n <= appended'[song.by])

\* The songs in the queue, once removed, will be gone for good.
LEMMA RemovedIsGone ==
    ASSUME QueueType, NEW song \in Ids, Contains(queue, song), queue' = RemoveFirst(queue, song),
           UNCHANGED appended
    PROVE  Gone(song)'
<1>1. ~Contains(queue', song)
  BY RemoveFirstEffect DEF QueueType
<1>2. PICK i \in 1..Len(queue) : queue[i] = song
  BY DEF Contains
<1>3. song.by = User \/ song.n <= appended[song.by]
  BY <1>2 DEF QueueType
<1>4. QED BY <1>1, <1>3 DEF Gone

LEMMA JobKept == ASSUME IInv, [Next]_vars PROVE UNCHANGED <<job, old>>
<1>1. CASE Execute \/ RefuseAdd \/ LoseCommand \/ Advance \/ UNCHANGED vars
  BY <1>1 DEF Execute, RefuseAdd, LoseCommand, Advance, vars
<1>2. ASSUME NEW h \in Handlers, Handler(h) \/ GiveUp(h) PROVE UNCHANGED <<job, old>>
  BY <1>2, HandlerSteps DEF handlerRest, GiveUp, IInv, TypeOK
<1>3. QED BY <1>1, <1>2 DEF Next

\* What a step leaves of h's own, unless it is a step of h or the answer to h's command.
LEMMA OwnKept ==
    ASSUME IInv, NEW h \in Handlers, [Next]_vars, ~Handler(h)
    PROVE  /\ pc'[h] = pc[h] /\ target'[h] = target[h] /\ result'[h] = result[h]
           /\ oldLen'[h] = oldLen[h]
           /\ (~\E s \in {"OK", "ACK", "lost"} : Leaves(s)) =>
                  reply'[h] = reply[h] \/ reply'[h].status = "lost"
<1>0. TypeOK /\ ChannelType /\ HandlerType /\ \A g \in Handlers : StepInv(g)
  BY DEF IInv, TypeOK
<1>1. CASE Execute \/ RefuseAdd \/ LoseCommand
  <2>1. PICK s \in {"OK", "ACK", "lost"} : Leaves(s)
    BY <1>0, <1>1, LeaveEffect
  <2>2. QED BY <2>1 DEF Leaves
<1>2. CASE Advance \/ UNCHANGED vars
  BY <1>2 DEF Advance, vars, localVars
<1>3. ASSUME NEW g \in Handlers, GiveUp(g)
      PROVE  /\ UNCHANGED <<pc, target, result, oldLen>>
             /\ reply'[h] = reply[h] \/ reply'[h].status = "lost"
  <2>1. UNCHANGED <<pc, target, result, oldLen>> /\ reply' = [reply EXCEPT ![g] = Failed("lost")]
    BY <1>3 DEF GiveUp, localVars
  <2>2. Failed("lost").status = "lost"
    BY DEF Failed
  <2>3. QED BY <1>0, <2>1, <2>2 DEF HandlerType
<1>4. ASSUME NEW g \in Handlers, Handler(g)
      PROVE  /\ pc'[h] = pc[h] /\ target'[h] = target[h] /\ result'[h] = result[h] /\ reply'[h] = reply[h]
             /\ oldLen'[h] = oldLen[h]
  <2>1. g # h
    BY <1>4
  <2>2. QED BY <1>0, <1>4, <2>1, HandlerSteps DEF Acts, Works
<1>5. QED BY <1>1, <1>2, <1>3, <1>4 DEF Next

LEMMA GoneStep ==
    ASSUME IInv, NEW h \in Handlers, GoneInv(h), [Next]_vars
    PROVE  GoneInv(h)'
<1> DEFINE ts == job[h].targets
<1>0. TypeOK /\ QueueType /\ ChannelType /\ HandlerType /\ StepInv(h) /\ AwaitInv(h)
  BY DEF IInv, TypeOK
<1>1. job' = job
  BY JobKept
<1> SUFFICES ASSUME Removes(h)
             PROVE  /\ \A i \in 1..(target'[h] - 1) : GoneNext(ts[i].a)
                    /\ pc'[h] = "each" /\ reply'[h].status = "OK" => GoneNext(ts[target'[h]].a)
                    /\ result'[h] = "ok" => \A i \in 1..Len(ts) : GoneNext(ts[i].a)
  <2>1. Removes(h)' <=> Removes(h)
    BY <1>1 DEF Removes, Kind
  <2>2. job'[h].targets = ts
    BY <1>1
  <2> HIDE DEF ts
  <2>3. \A i : Gone(job[h].targets[i].a)' <=> GoneNext(ts[i].a)
    BY <2>2 DEF Gone, GoneNext
  <2>4. QED BY <2>1, <2>2, <2>3 DEF GoneInv
<1>2. /\ \A i \in 1..(target[h] - 1) : Gone(ts[i].a)
      /\ pc[h] = "each" /\ reply[h].status = "OK" => Gone(ts[target[h]].a)
      /\ result[h] = "ok" => \A i \in 1..Len(ts) : Gone(ts[i].a)
  BY DEF GoneInv
<1>3. /\ Len(ts) \in Nat \ {0} /\ target[h] \in 1..Len(ts)
      /\ \A i \in 1..Len(ts) : ts[i].op = "deleteid" /\ ts[i].a \in Ids
  BY <1>0, RemovesType
<1> HIDE DEF ts
<1>4. \A i \in 1..Len(ts) : Gone(ts[i].a) => GoneNext(ts[i].a)
  <2>1. \A song \in Ids : Gone(song) => GoneNext(song)
    BY GoneForGood DEF Gone, GoneNext
  <2>2. QED BY <1>3, <2>1
<1>5. \A i \in 1..(target[h] - 1) : i \in 1..Len(ts)
  BY <1>3
<1>6. CASE Handler(h)
  <2>1. Kind(h) = "each"
    BY DEF Removes
  <2>2. \/ target'[h] = 1 /\ reply'[h].status = "none" /\ result'[h] = result[h]
        \/ /\ Told(h, "each") /\ target[h] + 1 \in 1..Len(ts) /\ target'[h] = target[h] + 1
           /\ reply'[h].status = "none" /\ result'[h] = result[h]
        \/ /\ Told(h, "each") /\ target[h] = Len(ts) /\ target'[h] = target[h]
           /\ pc'[h] = "done" /\ result'[h] = "ok"
        \/ target'[h] = target[h] /\ pc'[h] = "done" /\ result'[h] = "error"
    BY <1>6, <2>1, EachSteps DEF ts
  <2>3. CASE target'[h] = 1 /\ reply'[h].status = "none" /\ result'[h] = result[h]
    BY <1>2, <1>4, <2>3
  <2>4. CASE /\ Told(h, "each") /\ target[h] + 1 \in 1..Len(ts) /\ target'[h] = target[h] + 1
             /\ reply'[h].status = "none" /\ result'[h] = result[h]
    <3>1. Gone(ts[target[h]].a)
      BY <1>2, <2>4 DEF Told
    <3>2. \A i \in 1..(target'[h] - 1) : i \in 1..(target[h] - 1) \/ i = target[h]
      BY <1>3, <2>4
    <3>3. QED BY <1>2, <1>3, <1>4, <1>5, <2>4, <3>1, <3>2
  <2>5. CASE /\ Told(h, "each") /\ target[h] = Len(ts) /\ target'[h] = target[h]
             /\ pc'[h] = "done" /\ result'[h] = "ok"
    <3>1. Gone(ts[target[h]].a)
      BY <1>2, <2>5 DEF Told
    <3>2. \A i \in 1..Len(ts) : i \in 1..(target[h] - 1) \/ i = target[h]
      BY <1>3, <2>5
    <3>3. QED BY <1>2, <1>4, <1>5, <2>5, <3>1, <3>2
  <2>6. CASE target'[h] = target[h] /\ pc'[h] = "done" /\ result'[h] = "error"
    BY <1>2, <1>4, <1>5, <2>6
  <2>7. QED BY <2>2, <2>3, <2>4, <2>5, <2>6
<1>7. CASE ~Handler(h)
  <2>1. pc'[h] = pc[h] /\ target'[h] = target[h] /\ result'[h] = result[h]
    BY <1>7, OwnKept
  <2>2. ASSUME NEW s \in {"OK", "ACK", "lost"}, Leaves(s), pc[h] = "each", reply'[h].status = "OK"
        PROVE  GoneNext(ts[target[h]].a)
    <3> DEFINE cmd == channel[1]
    <3>1. /\ Len(channel) \in Nat \ {0} /\ Head(channel) = cmd /\ IsSent(cmd)
          /\ IF h = cmd.by /\ reply[h].status = "none" /\ cmd.awaited
             THEN reply'[h].status = s ELSE reply'[h] = reply[h]
          /\ s = "OK" => Execute /\ ~Refuses(cmd)
      BY <2>2 DEF Leaves
    <3>2. CASE h = cmd.by /\ reply[h].status = "none" /\ cmd.awaited
      <4>1. Awaits(h, 1) /\ 1 \in 1..Len(channel)
        BY <3>1, <3>2 DEF Awaits
      <4>2. Expected(h, cmd)
        BY <1>0, <4>1 DEF AwaitInv
      <4>3. cmd.op = "deleteid" /\ cmd.a = ts[target[h]].a /\ cmd.a \in Ids
        BY <1>3, <2>2, <4>2 DEF Expected, ts
      <4>4. Execute /\ ~Refuses(cmd)
        BY <2>2, <3>1, <3>2
      <4>5. queue' \in Becomes(cmd, cmd.by) /\ UNCHANGED appended
        BY <3>1, <4>3, <4>4 DEF Execute
      <4>6. queue' = RemoveFirst(queue, cmd.a)
        BY <1>0, <4>3, <4>5, BecomesCases
      <4>7. Contains(queue, cmd.a)
        BY <4>3, <4>4 DEF Refuses
      <4> HIDE DEF cmd
      <4>8. \A song \in Ids : Contains(queue, song) /\ queue' = RemoveFirst(queue, song) => GoneNext(song)
        BY <1>0, <4>5, RemovedIsGone DEF Gone, GoneNext
      <4>9. QED BY <4>3, <4>6, <4>7, <4>8
    <3>3. CASE ~(h = cmd.by /\ reply[h].status = "none" /\ cmd.awaited)
      <4>1. reply[h].status = "OK"
        BY <2>2, <3>1, <3>3
      <4>2. QED BY <1>2, <1>3, <1>4, <2>2, <4>1
    <3>4. QED BY <3>2, <3>3
  <2>3. pc[h] = "each" /\ reply'[h].status = "OK" => GoneNext(ts[target[h]].a)
    <3>1. CASE \E s \in {"OK", "ACK", "lost"} : Leaves(s)
      BY <2>2, <3>1
    <3>2. CASE ~\E s \in {"OK", "ACK", "lost"} : Leaves(s)
      <4>1. reply'[h] = reply[h] \/ reply'[h].status = "lost"
        BY <1>7, <3>2, OwnKept
      <4>2. QED BY <1>2, <1>3, <1>4, <4>1
    <3>3. QED BY <3>1, <3>2
  <2>4. QED BY <1>2, <1>4, <1>5, <2>1, <2>3
<1>8. QED BY <1>6, <1>7

\* A request of its own is the only one there.
LEMMA AloneIs ==
    ASSUME IInv, NEW h \in Handlers, Alone(h), NEW g \in Handlers
    PROVE  Handler(g) \/ GiveUp(g) => g = h
<1> SUFFICES ASSUME g # h PROVE ~Handler(g) /\ ~GiveUp(g)
  OBVIOUS
<1>1. Kind(g) = "none" /\ StepInv(g)
  BY DEF Alone, IInv
<1>2. pc[g] = "done" /\ reply[g].status = "none"
  BY <1>1 DEF StepInv, StepsOf
<1>3. QED BY <1>2 DEF Handler, Begin, GotLen, GotBefore, Added, GotAfter, AddFailed, GotNewLen,
         EachDone, Dropped, Done, Fails, Told, GiveUp

LEMMA RemoveStep ==
    ASSUME IInv, NEW h \in Handlers, RemoveInv(h), [Next]_vars
    PROVE  RemoveInv(h)'
<1> DEFINE ts == job[h].targets
           k == target[h]
           Removed(m) == /\ \A i \in 1..m : Contains(old, ts[i].a)
                         /\ \A song \in Ids : Contains(queue', song) <=>
                               Contains(old, song) /\ \A i \in 1..m : ts[i].a # song
           Mine(i) == /\ channel'[i].by = h /\ channel'[i].op = "deleteid"
                      /\ channel'[i].a = ts[target'[h]].a
           Before1 == /\ Removed(target'[h] - 1)
                      /\ Len(channel') <= 1
                      /\ pc'[h] = "begin" => channel' = <<>>
                      /\ pc'[h] = "each" => reply'[h].status # "OK"
                      /\ \A i \in 1..Len(channel') : Mine(i)
           After1 == Removed(target'[h]) /\ channel' = <<>> /\ pc'[h] \in {"each", "done"}
<1>0. TypeOK /\ QueueType /\ ChannelType /\ HandlerType /\ StepInv(h) /\ AwaitInv(h)
  BY DEF IInv, TypeOK
<1>1. job' = job /\ old' = old
  BY JobKept
<1> SUFFICES ASSUME Removes(h), Alone(h) PROVE Before1 \/ After1
  <2>1. Removes(h)' = Removes(h) /\ Alone(h)' = Alone(h)
    BY <1>1 DEF Removes, Alone, Kind
  <2>2. \A m : RemovedFirst(h, m)' <=> Removed(m)
    BY <1>1 DEF RemovedFirst
  <2>3. job'[h].targets = ts
    BY <1>1
  <2> HIDE DEF ts, Removed
  <2>4. QED BY <2>1, <2>2, <2>3 DEF RemoveInv
<1>2. /\ Len(ts) \in Nat \ {0} /\ k \in 1..Len(ts) /\ Kind(h) = "each"
      /\ \A i \in 1..Len(ts) : ts[i].op = "deleteid" /\ ts[i].a \in Ids
  BY <1>0, RemovesType DEF Removes
<1>3. pc[h] \in {"begin", "each", "done"}
  BY <1>0, <1>2 DEF StepInv, StepsOf
<1>4. Len(channel) \in Nat /\ (channel = <<>> <=> Len(channel) = 0)
  BY <1>0, EmptySeq DEF ChannelType
<1>5. ChannelType'
  <2>1. TypeOK'
    BY NextInv DEF IInv
  <2>2. QED BY <2>1 DEF TypeOK
<1>6. Len(channel') \in Nat /\ (channel' = <<>> <=> Len(channel') = 0)
  BY <1>5, EmptySeq DEF ChannelType
<1>7. \/ /\ RemovedFirst(h, k - 1)
         /\ Len(channel) <= 1
         /\ pc[h] = "begin" => channel = <<>>
         /\ pc[h] = "each" => reply[h].status # "OK"
         /\ \A i \in 1..Len(channel) : /\ channel[i].by = h /\ channel[i].op = "deleteid"
                                       /\ channel[i].a = ts[k].a
      \/ RemovedFirst(h, k) /\ channel = <<>> /\ pc[h] \in {"each", "done"}
  BY DEF RemoveInv
<1>8. \A m : queue' = queue /\ RemovedFirst(h, m) => Removed(m)
  BY DEF RemovedFirst
<1> HIDE DEF ts, k
<1>9. CASE Execute \/ RefuseAdd \/ LoseCommand
  <2> DEFINE cmd == channel[1]
  <2>1. PICK s \in {"OK", "ACK", "lost"} : Leaves(s)
    BY <1>0, <1>9, LeaveEffect
  <2>2. /\ Len(channel) \in Nat \ {0} /\ Head(channel) = cmd /\ IsSent(cmd)
        /\ Len(channel') = Len(channel) - 1
        /\ pc'[h] = pc[h] /\ target'[h] = k
        /\ IF h = cmd.by /\ reply[h].status = "none" /\ cmd.awaited
           THEN reply'[h].status = s ELSE reply'[h] = reply[h]
        /\ s = "OK" => Execute /\ ~Refuses(cmd)
        /\ s # "OK" => queue' = queue
    BY <2>1 DEF Leaves, k
  <2>3. /\ RemovedFirst(h, k - 1) /\ Len(channel) = 1
        /\ pc[h] # "begin" /\ (pc[h] = "each" => reply[h].status # "OK")
        /\ cmd.by = h /\ cmd.op = "deleteid" /\ cmd.a = ts[k].a
    BY <1>4, <1>7, <2>2
  <2>4. Len(channel') = 0 /\ channel' = <<>>
    BY <1>6, <2>2, <2>3
  <2>5. CASE s = "OK"
    <3>1. cmd.a \in Ids /\ Contains(queue, cmd.a)
      BY <1>2, <2>2, <2>3, <2>5 DEF Refuses
    <3>2. queue' \in Becomes(cmd, cmd.by)
      BY <2>2, <2>5 DEF Execute
    <3>3. queue' = RemoveFirst(queue, cmd.a)
      BY <1>0, <2>3, <3>2, BecomesCases
    <3> HIDE DEF cmd
    <3>4. \A song : Contains(queue', song) <=> Contains(queue, song) /\ song # cmd.a
      BY <1>0, <3>3, RemoveFirstEffect DEF QueueType
    <3>5. /\ \A i \in 1..(k - 1) : Contains(old, ts[i].a)
          /\ \A song \in Ids : Contains(queue, song) <=>
                Contains(old, song) /\ \A i \in 1..(k - 1) : ts[i].a # song
      BY <2>3 DEF RemovedFirst, ts
    <3>6. \A i \in 1..k : i \in 1..(k - 1) \/ i = k
      BY <1>2
    <3>7. k \in 1..k /\ \A i \in 1..(k - 1) : i \in 1..k
      BY <1>2
    <3>8. Removed(k)
      BY <2>3, <3>1, <3>4, <3>5, <3>6, <3>7
    <3> HIDE DEF Removed
    <3>9. After1
      BY <1>3, <2>2, <2>3, <2>4, <3>8
    <3>10. QED BY <3>9
  <2>6. CASE s # "OK"
    <3>1. Removed(k - 1)
      BY <1>8, <2>2, <2>3, <2>6
    <3>2. pc[h] = "each" => reply'[h].status # "OK"
      BY <2>2, <2>3, <2>6
    <3> HIDE DEF Removed, Mine
    <3>3. \A i \in 1..Len(channel') : Mine(i)
      BY <2>4
    <3>4. Before1
      BY <2>2, <2>3, <2>4, <3>1, <3>2, <3>3
    <3>5. QED BY <3>4
  <2>7. QED BY <2>5, <2>6
<1>10. CASE Advance \/ UNCHANGED vars
  <2>1. UNCHANGED <<queue, channel, pc, reply, target>>
    BY <1>10 DEF Advance, vars, mpdVars, localVars
  <2>2. target'[h] = k
    BY <2>1 DEF k
  <2>3. \A m : RemovedFirst(h, m) => Removed(m)
    BY <1>8, <2>1
  <2> HIDE DEF Removed
  <2>4. QED BY <1>7, <2>1, <2>2, <2>3
<1>11. CASE GiveUp(h)
  <2>1. UNCHANGED <<queue, pc, target>> /\ pc[h] # "begin" /\ target'[h] = k /\ reply'[h].status = "lost"
    BY <1>0, <1>11 DEF GiveUp, mpdVars, localVars, HandlerType, Failed, k
  <2>2. DOMAIN channel = 1..Len(channel) /\ Len(channel') = Len(channel)
    BY <1>0, <1>4, <1>11 DEF ChannelType, GiveUp
  <2>3. \A i \in 1..Len(channel) : /\ channel'[i].by = channel[i].by /\ channel'[i].op = channel[i].op
                                   /\ channel'[i].a = channel[i].a
    BY <1>0, <1>11, <2>2 DEF GiveUp, ChannelType, IsSent
  <2>4. \A m : RemovedFirst(h, m) => Removed(m)
    BY <1>8, <2>1
  <2> HIDE DEF Removed
  <2>5. QED BY <1>4, <1>6, <1>7, <2>1, <2>2, <2>3, <2>4
<1>12. CASE Handler(h)
  <2>1. queue' = queue
    BY <1>0, <1>12, HandlerSteps DEF handlerRest, mpdVars
  <2>2. \A m : RemovedFirst(h, m) => Removed(m)
    BY <1>8, <2>1
  <2> HIDE DEF Removed
  <2> DEFINE sends(i) == /\ Len(channel') = Len(channel) + 1
                         /\ channel'[Len(channel) + 1] = Sent(h, ts[i])
                         /\ pc'[h] = "each" /\ reply'[h].status = "none"
             ends == channel' = channel /\ pc'[h] = "done"
  <2>3. \/ pc[h] = "begin" /\ k = 1 /\ target'[h] = 1 /\ sends(1)
        \/ /\ Told(h, "each") /\ k + 1 \in 1..Len(ts) /\ target'[h] = k + 1 /\ sends(k + 1)
        \/ /\ pc[h] = "each" /\ target'[h] = k /\ ends
    BY <1>2, <1>12, EachSteps DEF ts, k, Told
  <2>4. ASSUME NEW i \in 1..Len(ts), sends(i), target'[h] = i, channel = <<>>, Removed(i - 1)
        PROVE  Before1
    <3>1. Len(channel') = 1 /\ channel'[1] = Sent(h, ts[i])
      BY <1>4, <2>4
    <3>2. channel'[1].by = h /\ channel'[1].op = "deleteid" /\ channel'[1].a = ts[i].a
      BY <1>2, <3>1, SentFields
    <3>3. \A j \in 1..Len(channel') : j = 1
      BY <3>1
    <3>4. QED BY <2>4, <3>1, <3>2, <3>3
  <2>5. CASE pc[h] = "begin" /\ k = 1 /\ target'[h] = 1 /\ sends(1)
    BY <1>2, <1>7, <2>2, <2>4, <2>5
  <2>6. CASE Told(h, "each") /\ k + 1 \in 1..Len(ts) /\ target'[h] = k + 1 /\ sends(k + 1)
    <3>1. RemovedFirst(h, k) /\ channel = <<>>
      BY <1>7, <2>6 DEF Told
    <3>2. (k + 1) - 1 = k
      BY <1>2
    <3>3. Removed((k + 1) - 1)
      BY <2>2, <3>1, <3>2
    <3> HIDE DEF Before1, sends
    <3>4. QED BY <2>4, <2>6, <3>1, <3>3
  <2>7. CASE pc[h] = "each" /\ target'[h] = k /\ ends
    <3>1. pc[h] = "each" /\ target'[h] = k /\ channel' = channel /\ pc'[h] = "done"
      BY <2>7
    <3>2. QED BY <1>7, <2>2, <3>1
  <2>8. QED
    <3> HIDE DEF sends, ends, Before1, After1
    <3>1. QED BY <2>3, <2>5, <2>6, <2>7
<1>13. ASSUME NEW g \in Handlers, Handler(g) \/ GiveUp(g) PROVE g = h
  BY <1>13, AloneIs
<1>14. QED BY <1>9, <1>10, <1>11, <1>12, <1>13 DEF Next

RemovalInv == IInv /\ \A h \in Handlers : GoneInv(h) /\ RemoveInv(h)

LEMMA InitRemoval == ASSUME Init PROVE RemovalInv
<1>1. IInv
  BY InitInv
<1>2. TypeOK /\ HandlerType
  BY <1>1 DEF IInv, TypeOK
<1> SUFFICES ASSUME NEW h \in Handlers, Removes(h) PROVE GoneInv(h) /\ RemoveInv(h)
  BY <1>1 DEF RemovalInv, GoneInv, RemoveInv
<1>3. target[h] = 1 /\ pc[h] = "begin" /\ result[h] = "none" /\ reply[h].status = "none"
  BY DEF Init, Removes, Kind, None
<1>4. channel = <<>> /\ Len(channel) = 0 /\ queue = old
  BY DEF Init
<1>5. GoneInv(h)
  BY <1>3 DEF GoneInv
<1>6. RemovedFirst(h, target[h] - 1)
  BY <1>3, <1>4 DEF RemovedFirst
<1>7. QED BY <1>3, <1>4, <1>5, <1>6 DEF RemoveInv

LEMMA NextRemoval == ASSUME RemovalInv, [Next]_vars PROVE RemovalInv'
BY NextInv, GoneStep, RemoveStep DEF RemovalInv

LEMMA RemovalOrder == ASSUME RemovalInv PROVE RemovesInOrder
<1> SUFFICES ASSUME NEW h \in Handlers, Kind(h) = "each", job[h].targets[1].op = "deleteid"
             PROVE  LET ts == job[h].targets
                        present(i) == Contains(queue, ts[i].a)
                        removed(i) == Contains(old, ts[i].a) /\ ~present(i)
                    IN  /\ result[h] = "ok" => ~\E i \in DOMAIN ts : present(i)
                        /\ Alone(h) => \A j \in DOMAIN ts :
                               removed(j) => \/ \A i \in 1..j : removed(i)
                                             \/ \E i \in 1..(j - 1) : ts[i].a = ts[j].a
  BY DEF RemovesInOrder
<1> DEFINE ts == job[h].targets
           present(i) == Contains(queue, ts[i].a)
           removed(i) == Contains(old, ts[i].a) /\ ~present(i)
<1>1. Removes(h) /\ HandlerType /\ GoneInv(h) /\ RemoveInv(h)
  BY DEF Removes, RemovalInv, IInv, TypeOK
<1>2. /\ Len(ts) \in Nat \ {0} /\ DOMAIN ts = 1..Len(ts) /\ target[h] \in 1..Len(ts)
      /\ \A i \in 1..Len(ts) : ts[i].op = "deleteid" /\ ts[i].a \in Ids
  BY <1>1, RemovesType
<1>3. ASSUME result[h] = "ok" PROVE ~\E i \in DOMAIN ts : present(i)
  BY <1>1, <1>2, <1>3 DEF GoneInv, Gone
<1>4. ASSUME Alone(h), NEW j \in DOMAIN ts, removed(j)
      PROVE  \/ \A i \in 1..j : removed(i)
             \/ \E i \in 1..(j - 1) : ts[i].a = ts[j].a
  <2>1. PICK k \in 0..Len(ts) : RemovedFirst(h, k)
    <3>1. RemovedFirst(h, target[h] - 1) \/ RemovedFirst(h, target[h])
      BY <1>1, <1>4 DEF RemoveInv
    <3>2. target[h] \in 0..Len(ts) /\ target[h] - 1 \in 0..Len(ts)
      BY <1>2
    <3> HIDE DEF ts
    <3>3. QED BY <3>1, <3>2
  <2>2. /\ \A i \in 1..k : Contains(old, ts[i].a)
        /\ \A song \in Ids : Contains(queue, song) <=>
              Contains(old, song) /\ \A i \in 1..k : ts[i].a # song
    BY <2>1 DEF RemovedFirst
  <2>3. PICK m \in 1..k : ts[m].a = ts[j].a
    BY <1>2, <1>4, <2>2
  <2>4. CASE j <= k
    <3>1. \A i \in 1..j : i \in 1..k /\ i \in 1..Len(ts)
      BY <1>2, <2>4
    <3>2. QED BY <1>2, <2>2, <3>1
  <2>5. CASE j > k
    <3>1. m \in 1..(j - 1)
      BY <1>2, <2>5
    <3>2. QED BY <2>3, <3>1
  <2>6. QED BY <1>2, <2>4, <2>5
<1>5. QED BY <1>3, <1>4

\* A request that removes songs removes them in its order, none after one that could
\* not be removed, and has removed all of them when it succeeds: of any number of
\* songs, next to any other requests, whatever is lost, refused or given up.
THEOREM RemovalInOrder == Spec => []RemovesInOrder
<1>1. Spec => []RemovalInv
  BY InitRemoval, NextRemoval, PTL DEF Spec
<1>2. QED BY <1>1, RemovalOrder, PTL

-----------------------------------------------------------------------------
(* The user's songs.                                                       *)

\* Without a move, no song goes further back.
LEMMA BelowKept ==
    ASSUME QueueType, NEW cmd, IsSent(cmd), ~Refuses(cmd), NEW q \in Becomes(cmd, cmd.by),
           cmd.op \notin {"move", "moveid", "shuffle"}, NEW n \in Nat, UsersBelow(n)
    PROVE  \A i \in 1..Len(q) : q[i].by = User => i <= n
<1>0. /\ queue \in Seq(Ids) /\ IsInjective(queue) /\ Len(queue) \in Nat /\ cmd.by \in Handlers
      /\ \A i \in 1..Len(queue) : queue[i].by = User => i <= n
  BY DEF QueueType, IsSent, UsersBelow
<1>1. CASE cmd.op = "add"
  <2> DEFINE t == Fresh(cmd.by, cmd.a)
  <2>1. cmd.a \in Nat
    BY <1>1 DEF IsSent
  <2>2. q = queue \o t
    BY <1>1, BecomesCases
  <2>3. t \in Seq(Ids) /\ Len(t) = cmd.a /\ \A i \in 1..cmd.a : t[i] = Song(cmd.by, appended[cmd.by] + i)
    BY <1>0, <2>1, FreshSongs
  <2>4. \A i \in 1..cmd.a : t[i].by # User
    BY <1>0, <2>3, SongFields
  <2> HIDE DEF t
  <2>5. /\ Len(q) = Len(queue) + cmd.a
        /\ \A i \in 1..Len(q) : q[i] = IF i <= Len(queue) THEN queue[i] ELSE t[i - Len(queue)]
    BY <1>0, <2>2, <2>3, ConcatProperties
  <2>6. \A i \in 1..Len(q) : \/ i \in 1..Len(queue) /\ q[i] = queue[i]
                             \/ i - Len(queue) \in 1..cmd.a /\ q[i] = t[i - Len(queue)]
    BY <1>0, <2>1, <2>5
  <2>7. QED BY <1>0, <2>4, <2>6
<1>2. ASSUME NEW a \in Nat, NEW e \in Nat, a <= e, e <= Len(queue), q = Cut(queue, a, e)
      PROVE  \A i \in 1..Len(q) : q[i].by = User => i <= n
  <2>1. /\ Len(q) = Len(queue) - (e - a)
        /\ \A i \in 1..Len(q) : q[i] = queue[IF i <= a THEN i ELSE i + (e - a)]
    <3> DEFINE r == Cut(queue, a, e)
    <3>1. queue \in Seq(Ids) /\ a <= e /\ e <= Len(queue)
      BY <1>0, <1>2
    <3>2. /\ r \in Seq(Ids) /\ Len(r) = Len(queue) - (e - a)
          /\ \A i \in 1..Len(r) : r[i] = queue[IF i <= a THEN i ELSE i + (e - a)]
      BY ONLY <3>1, a \in Nat, e \in Nat, CutEffect
    <3>3. q = r
      BY <1>2
    <3> HIDE DEF r
    <3>4. QED BY ONLY <3>2, <3>3
  <2> SUFFICES ASSUME NEW i \in 1..Len(q), q[i].by = User PROVE i <= n
    OBVIOUS
  <2> DEFINE j == IF i <= a THEN i ELSE i + (e - a)
  <2>2. j \in 1..Len(queue) /\ i <= j
    BY <1>0, <1>2, <2>1
  <2>3. j <= n
    BY <1>0, <2>1, <2>2
  <2>4. QED BY <2>2, <2>3
<1>3. CASE cmd.op = "delete"
  <2> DEFINE e == IF cmd.b <= Len(queue) THEN cmd.b ELSE Len(queue)
  <2>1. e \in Nat /\ cmd.a \in Nat /\ cmd.a <= e /\ e <= Len(queue)
    BY <1>3, DeleteRange
  <2>2. q = Cut(queue, cmd.a, e)
    BY <1>3, BecomesCases
  <2>3. QED BY <1>2, <2>1, <2>2
<1>4. CASE cmd.op = "deleteid"
  <2>1. q = RemoveFirst(queue, cmd.a)
    BY <1>4, BecomesCases
  <2>2. PICK p \in 1..Len(queue) : q = Cut(queue, p - 1, p)
    <3>1. Contains(queue, cmd.a)
      BY <1>4 DEF Refuses
    <3>2. QED BY <1>0, <2>1, <3>1, RemoveFirstIsCut
  <2>3. p - 1 \in Nat /\ p \in Nat /\ p - 1 <= p /\ p <= Len(queue)
    BY <1>0
  <2>4. QED BY <1>2, <2>2, <2>3
<1>5. CASE cmd.op = "clear"
  <2>1. q = <<>>
    BY <1>5, BecomesCases
  <2>2. QED BY <2>1
<1>6. CASE cmd.op \in {"status", "play", "playid"}
  <2>1. q = queue
    BY <1>6, BecomesCases
  <2>2. QED BY <1>0, <2>1
<1>7. QED BY <1>1, <1>3, <1>4, <1>5, <1>6 DEF IsSent, Ops, ById

\* Commands that add, or that cut out or move songs behind the user's, leave those
\* as they are.
LEMMA UsersKeptBy ==
    ASSUME QueueType, OldType, NEW cmd, IsSent(cmd), ~Refuses(cmd), queue' \in Becomes(cmd, cmd.by),
           cmd.op \in {"status", "add", "play", "delete", "move"},
           cmd.op \in {"delete", "move"} => UsersBelow(cmd.a)
    PROVE  UsersKept
<1>0. queue \in Seq(Ids) /\ IsInjective(queue) /\ Len(queue) \in Nat /\ cmd.by \in Handlers
  BY DEF QueueType, IsSent
<1>1. \A i \in 1..Len(old) : old[i].by = User
  <2>1. \A i \in 1..Len(old) : old[i] = Song(User, i)
    BY DEF OldType, Songs
  <2>2. QED BY <2>1, SongFields
<1> SUFFICES \A x, y : x.by = User /\ y.by = User =>
                 /\ Contains(queue', x) <=> Contains(queue, x)
                 /\ Before(queue', x, y) <=> Before(queue, x, y)
  BY <1>1 DEF UsersKept
<1>2. CASE cmd.op = "add"
  <2> DEFINE t == Fresh(cmd.by, cmd.a)
  <2>1. cmd.a \in Nat
    BY <1>2 DEF IsSent
  <2>2. queue' = queue \o t
    BY <1>2, BecomesCases
  <2>3. /\ t \in Seq(Ids) /\ IsInjective(t)
        /\ \A x : Contains(t, x) => x.by = cmd.by
        /\ \A x : Contains(queue, x) => ~Contains(t, x)
    BY <1>0, <2>1, FreshSongs
  <2>4. \A x : x.by = User => ~Contains(t, x)
    BY <1>0, <2>3
  <2> HIDE DEF t
  <2>5. /\ \A x : Contains(queue', x) <=> Contains(queue, x) \/ Contains(t, x)
        /\ \A x, y : ~Contains(t, x) /\ ~Contains(t, y) => (Before(queue', x, y) <=> Before(queue, x, y))
    BY <1>0, <2>2, <2>3, ConcatKeeps
  <2>6. QED BY <2>4, <2>5
<1>3. CASE cmd.op = "delete"
  <2> DEFINE e == IF cmd.b <= Len(queue) THEN cmd.b ELSE Len(queue)
  <2>1. e \in Nat /\ cmd.a \in Nat /\ cmd.a <= e /\ e <= Len(queue)
    BY <1>3, DeleteRange
  <2>2. queue' = Cut(queue, cmd.a, e)
    BY <1>3, BecomesCases
  <2> HIDE DEF e
  <2>3. /\ \A x : Contains(queue', x) <=> \E i \in 1..Len(queue) : (i <= cmd.a \/ i > e) /\ queue[i] = x
        /\ \A x, y : Before(queue', x, y) <=> Before(queue, x, y) /\ Contains(queue', x) /\ Contains(queue', y)
    BY <1>0, <2>1, <2>2, CutKeeps
  <2>4. \A i \in 1..Len(queue) : queue[i].by = User => i <= cmd.a
    BY <1>3 DEF UsersBelow
  <2>5. \A x : x.by = User => (Contains(queue', x) <=> Contains(queue, x))
    BY <2>3, <2>4 DEF Contains
  <2>6. QED BY <2>3, <2>5, ContainsBefore
<1>4. CASE cmd.op = "move"
  <2>1. /\ cmd.a \in Nat /\ cmd.b \in Nat /\ cmd.c \in Nat
        /\ cmd.c <= cmd.a /\ cmd.a <= cmd.b /\ cmd.b <= Len(queue)
    BY <1>4, MoveRange
  <2>2. queue' = Moved(queue, cmd.a, cmd.b, cmd.c)
    BY <1>4, <2>1, BecomesCases
  <2>3. /\ \A x : Contains(queue', x) <=> Contains(queue, x)
        /\ \A x, y : (\A i \in (cmd.a + 1)..cmd.b : queue[i] # x /\ queue[i] # y) =>
                         (Before(queue', x, y) <=> Before(queue, x, y))
    BY <1>0, <2>1, <2>2, MoveKeeps
  <2>4. \A i \in (cmd.a + 1)..cmd.b : queue[i].by # User
    <3>1. \A i \in (cmd.a + 1)..cmd.b : i \in 1..Len(queue) /\ ~(i <= cmd.a)
      BY <1>0, <2>1
    <3>2. \A i \in 1..Len(queue) : queue[i].by = User => i <= cmd.a
      BY <1>4 DEF UsersBelow
    <3>3. QED BY <3>1, <3>2
  <2>5. QED BY <2>3, <2>4
<1>5. CASE cmd.op \in {"status", "play"}
  <2>1. queue' = queue
    BY <1>5, BecomesCases
  <2>2. QED BY <2>1
<1>6. QED BY <1>2, <1>3, <1>4, <1>5

LEMMA RouteTargets ==
    ASSUME HandlerType, NEW h \in Handlers, Kind(h) = "each", NEW i \in 1..Len(job[h].targets)
    PROVE  LET op == job[h].targets[i].op IN
           /\ op \in ById \cup {"clear", "shuffle"}
           /\ op \in {"moveid", "shuffle"} => Moves(h)
<1> DEFINE ts == job[h].targets
<1>1. /\ Len(ts) \in Nat \ {0} /\ RouteCommand(ts[i])
      /\ Len(ts) > 1 => \A j \in 1..Len(ts) : ts[j].op = "deleteid"
  BY RequestType DEF IsRequest, Kind
<1>2. ts[i].op \in ById \cup {"clear", "shuffle"}
  BY <1>1 DEF RouteCommand
<1>3. ASSUME ts[i].op \in {"moveid", "shuffle"} PROVE Moves(h)
  <2>1. ts[i].op # "deleteid"
    BY <1>3
  <2>2. ~(Len(ts) > 1)
    BY <1>1, <2>1
  <2>3. \A m \in Nat \ {0} : \A j \in 1..m : ~(m > 1) => j = 1
    OBVIOUS
  <2> HIDE DEF ts
  <2>4. i = 1
    BY <1>1, <2>2, <2>3 DEF ts
  <2>5. QED BY <1>3, <2>4 DEF Moves, ts
<1>4. QED BY <1>2, <1>3

\* A step adds at most one command to the channel, which keeps those that are there.
LEMMA ChannelStep ==
    ASSUME IInv, [Next]_vars, ~\E s \in {"OK", "ACK", "lost"} : Leaves(s)
    PROVE  \A i \in 1..Len(channel') :
              \/ /\ i \in 1..Len(channel)
                 /\ channel'[i].by = channel[i].by /\ channel'[i].op = channel[i].op
                 /\ channel'[i].a = channel[i].a
              \/ /\ i = Len(channel) + 1
                 /\ \E h \in Handlers : Handler(h) /\ channel'[i].by = h /\ Expected(h, channel[i])'
<1>0. TypeOK /\ ChannelType /\ HandlerType /\ \A h \in Handlers : StepInv(h)
  BY DEF IInv, TypeOK
<1> DEFINE Same(i) == /\ i \in 1..Len(channel)
                      /\ channel'[i].by = channel[i].by /\ channel'[i].op = channel[i].op
                      /\ channel'[i].a = channel[i].a
           New(i) == /\ i = Len(channel) + 1
                     /\ \E h \in Handlers : Handler(h) /\ channel'[i].by = h /\ Expected(h, channel[i])'
<1>1. ~(Execute \/ RefuseAdd \/ LoseCommand)
  BY <1>0, LeaveEffect
<1>2. CASE Advance \/ UNCHANGED vars
  BY <1>2 DEF Advance, vars
<1>3. CASE \E h \in Handlers : GiveUp(h)
  <2>1. PICK h \in Handlers : GiveUp(h)
    BY <1>3
  <2>2. DOMAIN channel = 1..Len(channel) /\ Len(channel') = Len(channel)
    BY <1>0, <2>1 DEF ChannelType, GiveUp
  <2>3. \A i \in 1..Len(channel) : Same(i)
    BY <1>0, <2>1, <2>2 DEF GiveUp, ChannelType, IsSent
  <2>4. QED BY <2>2, <2>3
<1>4. CASE \E h \in Handlers : Handler(h)
  <2>1. PICK h \in Handlers : Handler(h)
    BY <1>4
  <2>2. Acts(h) /\ Sending(h)
    BY <1>0, <2>1, HandlerSteps, HandlerFlow
  <2>3. ASSUME NEW i \in 1..Len(channel') PROVE Same(i) \/ New(i)
    <3>1. Len(channel) \in Nat /\ Len(channel') \in {Len(channel), Len(channel) + 1}
      BY <2>2 DEF Acts
    <3>2. CASE i <= Len(channel)
      <4>1. i \in 1..Len(channel)
        BY <3>1, <3>2
      <4>2. QED BY <2>2, <4>1 DEF Acts
    <3>3. CASE i > Len(channel)
      <4>1. channel'[i].by = h /\ Expected(h, channel[i])'
        BY <2>2, <3>3 DEF Acts, Sending
      <4>2. i = Len(channel) + 1
        BY <3>1, <3>3
      <4>3. QED BY <2>1, <4>1, <4>2
    <3>4. QED BY <3>1, <3>2, <3>3
  <2>4. QED BY <2>3
<1>5. QED BY <1>1, <1>2, <1>3, <1>4 DEF Next

\* How long the queue was found to be, and which steps lead on from there.
LEMMA LenFlow ==
    ASSUME HandlerType, NEW h \in Handlers, StepInv(h), Handler(h)
    PROVE  /\ oldLen'[h] = IF Told(h, "len") THEN reply[h].len ELSE oldLen[h]
           /\ pc[h] = "begin" /\ Kind(h) \in {"after", "play", "only"} => pc'[h] \in {"len", "done"}
           /\ pc[h] \in {"undo", "move", "play"} => pc'[h] = "done" /\ channel' = channel
           /\ pc[h] = "drop" /\ ~Told(h, "drop") => pc'[h] = "done" /\ channel' = channel
           /\ pc[h] = "each" => pc'[h] \in {"each", "done"}
           /\ pc[h] # "done"
           /\ pc[h] = "len" => Told(h, "len") \/ pc'[h] = "done"
<1> DEFINE Goal == /\ oldLen'[h] = IF Told(h, "len") THEN reply[h].len ELSE oldLen[h]
                   /\ pc[h] = "begin" /\ Kind(h) \in {"after", "play", "only"} => pc'[h] \in {"len", "done"}
                   /\ pc[h] \in {"undo", "move", "play"} => pc'[h] = "done" /\ channel' = channel
                   /\ pc[h] = "drop" /\ ~Told(h, "drop") => pc'[h] = "done" /\ channel' = channel
                   /\ pc[h] = "each" => pc'[h] \in {"each", "done"}
                   /\ pc[h] # "done"
                   /\ pc[h] = "len" => Told(h, "len") \/ pc'[h] = "done"
<1>0. pc \in [Handlers -> Steps] /\ oldLen \in [Handlers -> Nat]
  BY DEF HandlerType
<1>s. \A step \in Steps : \A cmd : Send(h, step, cmd) => pc'[h] = step
  BY <1>0 DEF Send
<1>f. \A res : Finish(h, res) => pc'[h] = "done" /\ channel' = channel
  BY <1>0 DEF Finish
<1>d. DropOld(h) => pc'[h] \in {"drop", "play"}
  BY <1>s DEF DropOld, Steps
<1>1. CASE Begin(h)
  <2>1. pc[h] = "begin" /\ oldLen' = oldLen
    BY <1>1 DEF Begin, localVars
  <2>2. Kind(h) \in {"after", "play", "only"} => pc'[h] \in {"len", "done"}
    BY <1>1, <1>s, <1>f DEF Begin, Steps
  <2>3. QED BY <2>1, <2>2 DEF Told
<1>2. CASE GotLen(h)
  <2>1. Told(h, "len") /\ oldLen'[h] = reply[h].len
    BY <1>0, <1>2 DEF GotLen
  <2>2. QED BY <2>1 DEF Told
<1>3. CASE GotBefore(h)
  BY <1>3 DEF GotBefore, Told
<1>4. CASE Added(h)
  BY <1>4 DEF Added, Told
<1>5. CASE GotAfter(h)
  BY <1>5 DEF GotAfter, Told
<1>6. CASE AddFailed(h)
  BY <1>6 DEF AddFailed, Told, localVars
<1>7. CASE GotNewLen(h)
  BY <1>7 DEF GotNewLen, Told, localVars
<1>8. CASE EachDone(h)
  <2>1. pc[h] = "each" /\ oldLen' = oldLen
    BY <1>8 DEF EachDone, Told
  <2>2. pc'[h] \in {"each", "done"}
    BY <1>8, <1>s, <1>f DEF EachDone, Steps
  <2>3. QED BY <2>1, <2>2 DEF Told
<1>9. CASE Dropped(h)
  BY <1>9 DEF Dropped, Told, localVars
<1>10. CASE Done(h)
  BY <1>10, <1>f DEF Done, Told, localVars
<1>11. CASE Fails(h)
  <2>1. oldLen' = oldLen /\ pc'[h] = "done" /\ channel' = channel
    BY <1>11, <1>f DEF Fails, localVars
  <2>2. pc[h] \notin {"begin", "done"} /\ reply[h].status # "none"
    BY <1>11 DEF Fails, StepInv
  <2>3. ~Told(h, "len")
    BY <1>11 DEF Fails, Told
  <2>4. QED BY <2>1, <2>2, <2>3 DEF Told
<1>12. QED BY <1>1, <1>2, <1>3, <1>4, <1>5, <1>6, <1>7, <1>8, <1>9, <1>10, <1>11 DEF Handler

\* The commands of the routes that send one, and of delete_ids, are no other request's.
LEMMA RouteStep ==
    ASSUME IInv, [Next]_vars, \A h \in Handlers : RouteInv(h), NEW h \in Handlers
    PROVE  RouteInv(h)'
<1>0. HandlerType /\ \A g \in Handlers : StepInv(g)
  BY DEF IInv, TypeOK
<1>1. UNCHANGED <<job, old>>
  BY JobKept
<1> DEFINE Routed(c) == c.by = h /\ c.op \in ById \cup {"clear", "shuffle"} =>
                             Kind(h) = "each" /\ (c.op \in {"moveid", "shuffle"} => Moves(h))
<1>2. ASSUME NEW i \in 1..Len(channel') PROVE Routed(channel'[i])
  <2>1. CASE \E s \in {"OK", "ACK", "lost"} : Leaves(s)
    <3>1. i + 1 \in 1..Len(channel) /\ channel'[i] = channel[i + 1]
      BY <2>1 DEF Leaves
    <3>2. QED BY <3>1 DEF RouteInv
  <2>2. CASE /\ i \in 1..Len(channel)
             /\ channel'[i].by = channel[i].by /\ channel'[i].op = channel[i].op
    BY <2>2 DEF RouteInv
  <2>3. ASSUME Handler(h), Expected(h, channel[i])', channel'[i].op \in ById \cup {"clear", "shuffle"}
        PROVE  Kind(h) = "each" /\ (channel'[i].op \in {"moveid", "shuffle"} => Moves(h))
    <3>1. pc'[h] = "each" /\ channel'[i].op = job[h].targets[target'[h]].op
      BY <1>1, <2>3 DEF Expected, ById
    <3>2. Goes(h) /\ Works(h)
      BY <1>0, <2>3, HandlerSteps DEF IInv, TypeOK
    <3>3. Kind(h) = "each"
      BY <1>0, <3>1, <3>2, RequestType DEF Goes, StepsOf, Adding
    <3>4. target'[h] \in 1..Len(job[h].targets)
      BY <3>2 DEF Works
    <3>5. QED BY <1>0, <3>1, <3>3, <3>4, RouteTargets
  <2>4. QED BY <2>1, <2>2, <2>3, ChannelStep
<1>3. Kind(h)' = Kind(h) /\ Moves(h)' = Moves(h)
  BY <1>1 DEF Kind, Moves
<1>4. QED BY <1>2, <1>3 DEF RouteInv

\* MPD's queue and its history only change when a command is carried out.
LEMMA QueueKept ==
    ASSUME IInv, [Next]_vars, ~Leaves("OK")
    PROVE  /\ queue' = queue
           /\ \A h \in Handlers : fulfilled'[h] = fulfilled[h] /\ appended'[h] = appended[h]
<1>0. TypeOK /\ \A g \in Handlers : StepInv(g)
  BY DEF IInv
<1>1. CASE Execute \/ RefuseAdd \/ LoseCommand
  <2>1. PICK s \in {"OK", "ACK", "lost"} : Leaves(s)
    BY <1>0, <1>1, LeaveEffect
  <2>2. s # "OK"
    BY <2>1
  <2>3. QED BY <2>1, <2>2 DEF Leaves
<1>2. CASE Advance \/ UNCHANGED vars
  BY <1>2 DEF Advance, vars, mpdVars
<1>3. CASE \E g \in Handlers : GiveUp(g)
  BY <1>3 DEF GiveUp, mpdVars
<1>4. CASE \E g \in Handlers : Handler(g)
  <2>1. PICK g \in Handlers : Handler(g)
    BY <1>4
  <2>2. UNCHANGED handlerRest
    BY <1>0, <2>1, HandlerSteps DEF TypeOK
  <2>3. QED BY <2>2 DEF handlerRest, mpdVars
<1>5. QED BY <1>1, <1>2, <1>3, <1>4 DEF Next

PositionsInv == IInv /\ \A h \in Handlers : UserInv(h) /\ RouteInv(h)

BelowNext(n) == \A i \in 1..Len(queue') : queue'[i].by = User => i <= n

\* A position that h has noted stays behind the user's songs: commands of other requests
\* move none of them there.
LEMMA BelowStep ==
    ASSUME PositionsInv, [Next]_vars, ~Displaced, NEW h \in Handlers, Kind(h) \in {"after", "play"},
           Leaves("OK") => ~IsMove(h, 1), NEW n \in Nat, UsersBelow(n)
    PROVE  BelowNext(n)
<1>0. IInv /\ TypeOK /\ QueueType /\ HandlerType
  BY DEF PositionsInv, IInv, TypeOK
<1>1. CASE ~Leaves("OK")
  <2>1. queue' = queue
    BY <1>0, <1>1, QueueKept
  <2>2. QED BY <2>1 DEF UsersBelow, BelowNext
<1>2. CASE Leaves("OK")
  <2> DEFINE cmd == channel[1]
  <2>1. Len(channel) \in Nat \ {0} /\ Head(channel) = cmd /\ IsSent(cmd) /\ Execute /\ ~Refuses(cmd)
    BY <1>2 DEF Leaves
  <2>2. 1 \in 1..Len(channel) /\ cmd.by \in Handlers
    BY <2>1 DEF IsSent
  <2>3. queue' \in Becomes(cmd, cmd.by)
    BY <2>1 DEF Execute
  <2>4. cmd.op # "move"
    <3>1. SUFFICES ASSUME cmd.op = "move" PROVE FALSE
      OBVIOUS
    <3>2. IsMove(cmd.by, 1)
      BY <3>1 DEF IsMove
    <3>3. Kind(cmd.by) = "after"
      BY <2>2, <3>2 DEF PositionsInv, UserInv, MoveInv
    <3>4. cmd.by # h
      BY <1>2, <3>2
    <3>5. QED BY <2>2, <3>3, <3>4 DEF Displaced, Moves
  <2>5. cmd.op \notin {"moveid", "shuffle"}
    <3>1. SUFFICES ASSUME cmd.op \in {"moveid", "shuffle"} PROVE FALSE
      OBVIOUS
    <3>2. Kind(cmd.by) = "each" /\ Moves(cmd.by)
      BY <2>2, <3>1 DEF PositionsInv, RouteInv, ById
    <3>3. cmd.by # h
      BY <3>2
    <3>4. QED BY <2>2, <3>2, <3>3 DEF Displaced
  <2> HIDE DEF cmd
  <2>6. cmd.op \notin {"move", "moveid", "shuffle"}
    BY <2>4, <2>5
  <2>7. \A i \in 1..Len(queue') : queue'[i].by = User => i <= n
    BY ONLY <1>0, <2>1, <2>3, <2>6, BelowKept, UsersBelow(n), n \in Nat
  <2>8. QED BY <2>7 DEF BelowNext
<1>3. QED BY <1>1, <1>2

\* A request that is not moving its songs has no move in the channel.
LEMMA NoOwnMove ==
    ASSUME PositionsInv, ~Displaced, NEW h \in Handlers,
           Kind(h) # "after" \/ pc[h] \notin {"move", "done"}
    PROVE  Leaves("OK") => ~IsMove(h, 1)
<1>1. SUFFICES ASSUME Leaves("OK"), IsMove(h, 1) PROVE FALSE
  OBVIOUS
<1>2. 1 \in 1..Len(channel)
  BY <1>1 DEF Leaves
<1>3. QED BY <1>1, <1>2 DEF PositionsInv, UserInv, MoveInv

BehindNext(h) == Kind(h) \in {"after", "play"} =>
    /\ pc'[h] = "len" /\ reply'[h].status = "OK" => BelowNext(reply'[h].len)
    /\ pc'[h] \notin {"begin", "len", "move", "done"} => BelowNext(oldLen'[h])

LEMMA BehindStep ==
    ASSUME PositionsInv, [Next]_vars, ~Displaced, NEW h \in Handlers
    PROVE  BehindNext(h)
<1>0. IInv /\ TypeOK /\ QueueType /\ ChannelType /\ HandlerType /\ StepInv(h) /\ BehindUsers(h)
  BY DEF PositionsInv, IInv, TypeOK, UserInv
<1>1. SUFFICES ASSUME Kind(h) \in {"after", "play"}
               PROVE  /\ pc'[h] = "len" /\ reply'[h].status = "OK" => BelowNext(reply'[h].len)
                      /\ pc'[h] \notin {"begin", "len", "move", "done"} => BelowNext(oldLen'[h])
  BY DEF BehindNext
<1>2. Len(queue) \in Nat /\ UsersBelow(Len(queue)) /\ oldLen[h] \in Nat
  BY <1>0 DEF QueueType, UsersBelow, HandlerType
<1>3. reply[h].len \in Nat
  BY <1>0 DEF HandlerType, Replies
<1>4. CASE Handler(h)
  <2>1. Acts(h) /\ reply'[h].status = "none"
    BY <1>0, <1>4, HandlerSteps DEF Acts, None
  <2>2. ASSUME pc'[h] \notin {"begin", "len", "move", "done"} PROVE BelowNext(oldLen'[h])
    <3>1. pc[h] \notin {"begin", "move", "done"} /\ (pc[h] = "len" => Told(h, "len"))
      BY <1>0, <1>1, <1>4, <2>2, LenFlow
    <3>2. oldLen'[h] = IF Told(h, "len") THEN reply[h].len ELSE oldLen[h]
      BY <1>0, <1>4, LenFlow
    <3>3. UsersBelow(oldLen'[h]) /\ oldLen'[h] \in Nat
      BY <1>0, <1>1, <1>2, <1>3, <3>1, <3>2 DEF BehindUsers, Told
    <3>4. ~Leaves("OK")
      BY <2>1 DEF Leaves, Acts
    <3>5. QED BY <1>1, <3>3, <3>4, BelowStep
  <2>3. QED BY <2>1, <2>2
<1>5. CASE ~Handler(h)
  <2>1. pc'[h] = pc[h] /\ oldLen'[h] = oldLen[h]
    BY <1>0, <1>5, OwnKept
  <2>2. ASSUME pc[h] = "len", reply'[h].status = "OK" PROVE BelowNext(reply'[h].len)
    <3>1. \/ reply'[h].len = reply[h].len /\ reply[h].status = "OK"
          \/ reply'[h].len = Len(queue)
      <4>1. CASE \E s \in {"OK", "ACK", "lost"} : Leaves(s)
        BY <2>2, <4>1 DEF Leaves
      <4>2. CASE ~\E s \in {"OK", "ACK", "lost"} : Leaves(s)
        BY <1>0, <1>5, <2>2, <4>2, OwnKept
      <4>3. QED BY <4>1, <4>2
    <3>2. UsersBelow(reply'[h].len) /\ reply'[h].len \in Nat
      BY <1>0, <1>1, <1>2, <1>3, <2>2, <3>1 DEF BehindUsers
    <3>3. Leaves("OK") => ~IsMove(h, 1)
      BY <2>2, NoOwnMove
    <3>4. QED BY <1>1, <3>2, <3>3, BelowStep
  <2>3. ASSUME pc[h] \notin {"begin", "len", "move", "done"} PROVE BelowNext(oldLen[h])
    <3>1. UsersBelow(oldLen[h])
      BY <1>0, <1>1, <2>3 DEF BehindUsers
    <3>2. Leaves("OK") => ~IsMove(h, 1)
      BY <2>3, NoOwnMove
    <3>3. QED BY <1>1, <1>2, <3>1, <3>2, BelowStep
  <2>4. QED BY <2>1, <2>2, <2>3
<1>6. QED BY <1>4, <1>5

LEMMA FulfilledShort ==
    ASSUME HandlerType, NEW h \in Handlers, Fulfilled(h, target[h] - 1)
    PROVE  fulfilled[h] # job[h].targets
<1>1. job[h].targets \in Seq(Range(job[h].targets)) /\ target[h] \in 1..Len(job[h].targets)
  BY RequestType DEF IsRequest, HandlerType
<1>2. Len(SubSeq(job[h].targets, 1, target[h] - 1)) = target[h] - 1
  BY <1>1
<1>3. QED BY <1>1, <1>2 DEF Fulfilled

\* What is left in the channel when the oldest command goes, and what of it is h's.
LEMMA LeavesRest ==
    ASSUME IInv, NEW s \in {"OK", "ACK", "lost"}, Leaves(s), NEW h \in Handlers
    PROVE  /\ pc'[h] = pc[h] /\ oldLen'[h] = oldLen[h]
           /\ \A i \in 1..Len(channel') : /\ i + 1 \in 1..Len(channel) /\ i + 1 # 1
                                          /\ channel'[i] = channel[i + 1]
           /\ 1 \in 1..Len(channel)
           /\ fulfilled[h] = job[h].targets => fulfilled'[h] = fulfilled[h]
           /\ reply[h].status # "OK" /\ reply'[h].status = "OK" => Expected(h, channel[1]) /\ channel[1].by = h
<1>0. HandlerType /\ AwaitInv(h) /\ AddInv(h)
  BY DEF IInv, TypeOK
<1>1. /\ pc'[h] = pc[h] /\ oldLen'[h] = oldLen[h] /\ Len(channel) \in Nat \ {0}
      /\ \A i \in 1..Len(channel') : i + 1 \in 1..Len(channel) /\ channel'[i] = channel[i + 1]
      /\ Len(channel') = Len(channel) - 1
  BY DEF Leaves
<1>2. 1 \in 1..Len(channel) /\ \A i \in 1..Len(channel') : i + 1 # 1
  BY <1>1
<1>3. ASSUME fulfilled[h] = job[h].targets PROVE fulfilled'[h] = fulfilled[h]
  <2>1. ~Adds(h, 1)
    BY <1>0, <1>2, <1>3, FulfilledShort DEF AddInv
  <2>2. QED BY <2>1 DEF Leaves, Adds
<1>4. ASSUME reply[h].status # "OK", reply'[h].status = "OK"
      PROVE  Expected(h, channel[1]) /\ channel[1].by = h
  <2>1. Awaits(h, 1)
    BY <1>4 DEF Leaves, Awaits
  <2>2. QED BY <1>0, <1>2, <2>1 DEF AwaitInv, Awaits
<1>5. QED BY <1>1, <1>2, <1>3, <1>4

DeleteNext(h) == \A i \in 1..Len(channel') : channel'[i].by = h /\ channel'[i].op = "delete" =>
    /\ Kind(h) \in {"play", "only"}
    /\ pc'[h] \in {"undo", "drop", "done"} /\ reply'[h].status # "OK"
    /\ \/ Kind(h) = "play" /\ BelowNext(channel'[i].a)
       \/ pc'[h] \in {"drop", "done"} /\ fulfilled'[h] = job[h].targets
    /\ \A j \in 1..Len(channel') : channel'[j].by = h /\ channel'[j].op = "delete" => j = i

LEMMA DeleteLeaves ==
    ASSUME PositionsInv, [Next]_vars, ~Displaced, NEW h \in Handlers,
           NEW s \in {"OK", "ACK", "lost"}, Leaves(s)
    PROVE  DeleteNext(h)
<1>0. IInv /\ ChannelType /\ DeleteInv(h)
  BY DEF PositionsInv, UserInv, IInv, TypeOK
<1>1. /\ pc'[h] = pc[h] /\ 1 \in 1..Len(channel)
      /\ \A i \in 1..Len(channel') : i + 1 \in 1..Len(channel) /\ i + 1 # 1 /\ channel'[i] = channel[i + 1]
      /\ fulfilled[h] = job[h].targets => fulfilled'[h] = fulfilled[h]
      /\ reply[h].status # "OK" /\ reply'[h].status = "OK" => Expected(h, channel[1]) /\ channel[1].by = h
  BY <1>0, LeavesRest
<1>2. SUFFICES ASSUME NEW i \in 1..Len(channel'), channel'[i].by = h, channel'[i].op = "delete"
               PROVE  /\ Kind(h) \in {"play", "only"}
                      /\ pc'[h] \in {"undo", "drop", "done"} /\ reply'[h].status # "OK"
                      /\ \/ Kind(h) = "play" /\ BelowNext(channel'[i].a)
                         \/ pc'[h] \in {"drop", "done"} /\ fulfilled'[h] = job[h].targets
                      /\ \A j \in 1..Len(channel') :
                            channel'[j].by = h /\ channel'[j].op = "delete" => j = i
  BY DEF DeleteNext
<1>3. i + 1 \in 1..Len(channel) /\ i + 1 # 1 /\ channel'[i] = channel[i + 1] /\ Deletes(h, i + 1)
  BY <1>1, <1>2 DEF Deletes
<1>4. /\ Kind(h) \in {"play", "only"}
      /\ pc[h] \in {"undo", "drop", "done"} /\ reply[h].status # "OK"
      /\ \/ Kind(h) = "play" /\ UsersBelow(channel[i + 1].a)
         \/ pc[h] \in {"drop", "done"} /\ fulfilled[h] = job[h].targets
      /\ \A j \in 1..Len(channel) : Deletes(h, j) => j = i + 1
  BY <1>0, <1>3 DEF DeleteInv
<1>5. reply'[h].status # "OK"
  <2>1. ~Deletes(h, 1)
    BY <1>1, <1>3, <1>4
  <2>2. ~(Expected(h, channel[1]) /\ channel[1].by = h)
    BY <1>4, <2>1 DEF Expected, Deletes
  <2>3. QED BY <1>1, <1>4, <2>2
<1>6. ASSUME Kind(h) = "play", UsersBelow(channel[i + 1].a) PROVE BelowNext(channel[i + 1].a)
  <2>1. channel[i + 1].a \in Nat
    BY <1>0, <1>3 DEF ChannelType, IsSent, Deletes
  <2>2. Leaves("OK") => ~IsMove(h, 1)
    BY <1>6, NoOwnMove
  <2>3. QED BY <1>6, <2>1, <2>2, BelowStep
<1>7. \A j \in 1..Len(channel') : channel'[j].by = h /\ channel'[j].op = "delete" => j = i
  <2>1. SUFFICES ASSUME NEW j \in 1..Len(channel'), channel'[j].by = h, channel'[j].op = "delete"
                 PROVE  j = i
    OBVIOUS
  <2>2. j + 1 \in 1..Len(channel) /\ Deletes(h, j + 1)
    BY <1>1, <2>1 DEF Deletes
  <2>3. j + 1 = i + 1
    BY <1>4, <2>2
  <2>4. QED BY <2>3
<1>8. QED BY <1>1, <1>3, <1>4, <1>5, <1>6, <1>7

LEMMA DeleteActs ==
    ASSUME PositionsInv, [Next]_vars, ~Displaced, NEW h \in Handlers, Handler(h)
    PROVE  DeleteNext(h)
<1>0. IInv /\ TypeOK /\ ChannelType /\ HandlerType /\ StepInv(h) /\ DeleteInv(h) /\ UNCHANGED job
  BY JobKept DEF PositionsInv, UserInv, IInv, TypeOK
<1>1. Acts(h) /\ Goes(h) /\ Works(h) /\ reply'[h].status # "OK"
  BY <1>0, HandlerSteps DEF Acts, None
<1>2. ~\E s \in {"OK", "ACK", "lost"} : Leaves(s)
  BY <1>1 DEF Acts, Leaves
<1>3. queue' = queue /\ fulfilled'[h] = fulfilled[h]
  BY <1>0, <1>2, QueueKept
<1>4. CASE \E k \in 1..Len(channel) : Deletes(h, k)
  <2>1. pc[h] \in {"undo", "drop", "done"} /\ reply[h].status # "OK"
    BY <1>0, <1>4 DEF DeleteInv
  <2>2. channel' = channel /\ pc'[h] = "done"
    BY <1>0, <2>1, LenFlow DEF Told
  <2>3. \A n : UsersBelow(n) => BelowNext(n)
    BY <1>3 DEF UsersBelow, BelowNext
  <2>4. QED BY <1>0, <1>1, <1>3, <2>1, <2>2, <2>3 DEF DeleteInv, Deletes, DeleteNext
<1>5. CASE ~\E k \in 1..Len(channel) : Deletes(h, k)
  <2>1. SUFFICES ASSUME NEW i \in 1..Len(channel'), channel'[i].by = h, channel'[i].op = "delete"
                 PROVE  /\ Kind(h) \in {"play", "only"}
                        /\ pc'[h] \in {"undo", "drop", "done"} /\ reply'[h].status # "OK"
                        /\ \/ Kind(h) = "play" /\ BelowNext(channel'[i].a)
                           \/ pc'[h] \in {"drop", "done"} /\ fulfilled'[h] = job[h].targets
                        /\ \A j \in 1..Len(channel') :
                              channel'[j].by = h /\ channel'[j].op = "delete" => j = i
    BY DEF DeleteNext
  <2>2. \A k \in 1..Len(channel') : channel'[k].by = h /\ channel'[k].op = "delete" =>
            k = Len(channel) + 1 /\ Expected(h, channel[k])'
    BY <1>0, <1>2, <1>5, ChannelStep DEF Deletes
  <2>3. i = Len(channel) + 1 /\ Expected(h, channel[i])'
    BY <2>1, <2>2
  <2>4. pc'[h] # "each"
    <3>1. SUFFICES ASSUME pc'[h] = "each" PROVE FALSE
      OBVIOUS
    <3>2. Kind(h) = "each"
      BY <1>0, <1>1, <3>1, RequestType DEF Goes, StepsOf, Adding
    <3>3. channel'[i].op = job[h].targets[target'[h]].op
      BY <1>0, <2>3, <3>1 DEF Expected
    <3>4. target'[h] \in 1..Len(job[h].targets)
      BY <1>1 DEF Works
    <3>5. channel'[i].op \in ById \cup {"clear", "shuffle"}
      BY <1>0, <3>2, <3>3, <3>4, RouteTargets
    <3>6. QED BY <2>1, <3>5 DEF ById
  <2>5. pc'[h] \in {"undo", "drop"} /\ (pc'[h] = "undo" => channel'[i].a = oldLen'[h])
    BY <2>1, <2>3, <2>4 DEF Expected
  <2>6. Kind(h) \in {"play", "only"} /\ (pc'[h] = "undo" => Kind(h) = "play")
    BY <1>0, <1>1, <2>5, RequestType DEF Goes, StepsOf, Adding
  <2>7. pc'[h] = "undo" => BelowNext(channel'[i].a)
    BY <2>5, <2>6, BehindStep DEF BehindNext
  <2>8. pc'[h] = "drop" => fulfilled'[h] = job[h].targets
    <3>1. AddInv(h)' /\ job' = job
      BY <1>0, NextInv DEF IInv
    <3>2. QED BY <2>6, <3>1 DEF AddInv, Kind, Adding
  <2>9. QED BY <1>1, <2>2, <2>3, <2>5, <2>6, <2>7, <2>8
<1>6. QED BY <1>4, <1>5

LEMMA DeleteStep ==
    ASSUME PositionsInv, [Next]_vars, ~Displaced, NEW h \in Handlers
    PROVE  DeleteNext(h)
<1>0. IInv /\ DeleteInv(h)
  BY DEF PositionsInv, UserInv
<1>1. CASE ~Handler(h) /\ ~\E s \in {"OK", "ACK", "lost"} : Leaves(s)
  <2>1. /\ pc'[h] = pc[h] /\ (reply[h].status # "OK" => reply'[h].status # "OK")
        /\ queue' = queue /\ fulfilled'[h] = fulfilled[h]
    BY <1>0, <1>1, OwnKept, QueueKept
  <2>2. \A i \in 1..Len(channel') : channel'[i].by = h /\ channel'[i].op = "delete" =>
            i \in 1..Len(channel) /\ Deletes(h, i) /\ channel'[i].a = channel[i].a
    BY <1>0, <1>1, ChannelStep DEF Deletes
  <2>3. \A n : UsersBelow(n) => BelowNext(n)
    BY <2>1 DEF UsersBelow, BelowNext
  <2>4. QED BY <1>0, <2>1, <2>2, <2>3 DEF DeleteInv, DeleteNext
<1>2. QED BY <1>1, DeleteLeaves, DeleteActs

MoveNext(h) == \A i \in 1..Len(channel') : channel'[i].by = h /\ channel'[i].op = "move" =>
    /\ Kind(h) = "after" /\ pc'[h] \in {"move", "done"}
    /\ BelowNext(channel'[i].a)
    /\ \A j \in 1..Len(channel') : channel'[j].by = h /\ channel'[j].op = "move" => j = i

LEMMA MoveLeaves ==
    ASSUME PositionsInv, [Next]_vars, ~Displaced, NEW h \in Handlers,
           NEW s \in {"OK", "ACK", "lost"}, Leaves(s)
    PROVE  MoveNext(h)
<1>0. IInv /\ ChannelType /\ MoveInv(h)
  BY DEF PositionsInv, UserInv, IInv, TypeOK
<1>1. /\ pc'[h] = pc[h] /\ 1 \in 1..Len(channel)
      /\ \A i \in 1..Len(channel') : i + 1 \in 1..Len(channel) /\ i + 1 # 1 /\ channel'[i] = channel[i + 1]
  BY <1>0, LeavesRest
<1>2. SUFFICES ASSUME NEW i \in 1..Len(channel'), channel'[i].by = h, channel'[i].op = "move"
               PROVE  /\ Kind(h) = "after" /\ pc'[h] \in {"move", "done"}
                      /\ BelowNext(channel'[i].a)
                      /\ \A j \in 1..Len(channel') :
                            channel'[j].by = h /\ channel'[j].op = "move" => j = i
  BY DEF MoveNext
<1>3. i + 1 \in 1..Len(channel) /\ i + 1 # 1 /\ channel'[i] = channel[i + 1] /\ IsMove(h, i + 1)
  BY <1>1, <1>2 DEF IsMove
<1>4. /\ Kind(h) = "after" /\ pc[h] \in {"move", "done"}
      /\ UsersBelow(channel[i + 1].a)
      /\ \A j \in 1..Len(channel) : IsMove(h, j) => j = i + 1
  BY <1>0, <1>3 DEF MoveInv
<1>5. BelowNext(channel[i + 1].a)
  <2>1. channel[i + 1].a \in Nat
    BY <1>0, <1>3 DEF ChannelType, IsSent, IsMove
  <2>2. ~IsMove(h, 1)
    BY <1>1, <1>3, <1>4
  <2>3. QED BY <1>4, <2>1, <2>2, BelowStep
<1>6. \A j \in 1..Len(channel') : channel'[j].by = h /\ channel'[j].op = "move" => j = i
  <2>1. SUFFICES ASSUME NEW j \in 1..Len(channel'), channel'[j].by = h, channel'[j].op = "move"
                 PROVE  j = i
    OBVIOUS
  <2>2. j + 1 \in 1..Len(channel) /\ IsMove(h, j + 1)
    BY <1>1, <2>1 DEF IsMove
  <2>3. j + 1 = i + 1
    BY <1>4, <2>2
  <2>4. QED BY <2>3
<1>7. QED BY <1>1, <1>3, <1>4, <1>5, <1>6

LEMMA MoveActs ==
    ASSUME PositionsInv, [Next]_vars, ~Displaced, NEW h \in Handlers, Handler(h)
    PROVE  MoveNext(h)
<1>0. IInv /\ TypeOK /\ ChannelType /\ HandlerType /\ StepInv(h) /\ MoveInv(h) /\ BehindUsers(h) /\ UNCHANGED job
  BY JobKept DEF PositionsInv, UserInv, IInv, TypeOK
<1>1. Acts(h) /\ Goes(h) /\ Works(h) /\ Flow(h)
  BY <1>0, HandlerSteps, HandlerFlow
<1>2. ~\E s \in {"OK", "ACK", "lost"} : Leaves(s)
  BY <1>1 DEF Acts, Leaves
<1>3. \A n : UsersBelow(n) => BelowNext(n)
  BY <1>0, <1>2, QueueKept DEF UsersBelow, BelowNext
<1>4. CASE \E k \in 1..Len(channel) : IsMove(h, k)
  <2>1. pc[h] \in {"move", "done"}
    BY <1>0, <1>4 DEF MoveInv
  <2>2. channel' = channel /\ pc'[h] = "done"
    BY <1>0, <2>1, LenFlow
  <2>3. QED BY <1>0, <1>3, <2>2 DEF MoveInv, IsMove, MoveNext
<1>5. CASE ~\E k \in 1..Len(channel) : IsMove(h, k)
  <2>1. SUFFICES ASSUME NEW i \in 1..Len(channel'), channel'[i].by = h, channel'[i].op = "move"
                 PROVE  /\ Kind(h) = "after" /\ pc'[h] \in {"move", "done"}
                        /\ BelowNext(channel'[i].a)
                        /\ \A j \in 1..Len(channel') :
                              channel'[j].by = h /\ channel'[j].op = "move" => j = i
    BY DEF MoveNext
  <2>2. \A k \in 1..Len(channel') : channel'[k].by = h /\ channel'[k].op = "move" =>
            k = Len(channel) + 1 /\ Expected(h, channel[k])'
    BY <1>0, <1>2, <1>5, ChannelStep DEF IsMove
  <2>3. i = Len(channel) + 1 /\ Expected(h, channel[i])'
    BY <2>1, <2>2
  <2>4. pc'[h] # "each"
    <3>1. SUFFICES ASSUME pc'[h] = "each" PROVE FALSE
      OBVIOUS
    <3>2. Kind(h) = "each"
      BY <1>0, <1>1, <3>1, RequestType DEF Goes, StepsOf, Adding
    <3>3. channel'[i].op = job[h].targets[target'[h]].op
      BY <1>0, <2>3, <3>1 DEF Expected
    <3>4. target'[h] \in 1..Len(job[h].targets)
      BY <1>1 DEF Works
    <3>5. channel'[i].op \in ById \cup {"clear", "shuffle"}
      BY <1>0, <3>2, <3>3, <3>4, RouteTargets
    <3>6. QED BY <2>1, <3>5 DEF ById
  <2>5. pc'[h] = "move" /\ channel'[i].a = oldLen'[h]
    BY <2>1, <2>3, <2>4 DEF Expected
  <2>6. Kind(h) = "after"
    BY <1>0, <1>1, <2>5, RequestType DEF Goes, StepsOf, Adding
  <2>7. pc[h] = "newlen"
    BY <1>0, <1>1, <2>5, <2>6 DEF Flow, StepInv, StepsOf
  <2>8. oldLen'[h] = oldLen[h]
    BY <1>0, <2>7, LenFlow DEF Told
  <2>9. BelowNext(channel'[i].a)
    BY <1>0, <1>3, <2>5, <2>6, <2>7, <2>8 DEF BehindUsers
  <2>10. QED BY <2>2, <2>3, <2>5, <2>6, <2>9
<1>6. QED BY <1>4, <1>5

LEMMA MoveStep ==
    ASSUME PositionsInv, [Next]_vars, ~Displaced, NEW h \in Handlers
    PROVE  MoveNext(h)
<1>0. IInv /\ MoveInv(h)
  BY DEF PositionsInv, UserInv
<1>1. CASE ~Handler(h) /\ ~\E s \in {"OK", "ACK", "lost"} : Leaves(s)
  <2>1. pc'[h] = pc[h] /\ queue' = queue
    BY <1>0, <1>1, OwnKept, QueueKept
  <2>2. \A i \in 1..Len(channel') : channel'[i].by = h /\ channel'[i].op = "move" =>
            i \in 1..Len(channel) /\ IsMove(h, i) /\ channel'[i].a = channel[i].a
    BY <1>0, <1>1, ChannelStep DEF IsMove
  <2>3. \A n : UsersBelow(n) => BelowNext(n)
    BY <2>1 DEF UsersBelow, BelowNext
  <2>4. QED BY <1>0, <2>1, <2>2, <2>3 DEF MoveInv, MoveNext
<1>2. QED BY <1>1, MoveLeaves, MoveActs

LEMMA InitPositions == ASSUME Init PROVE PositionsInv
<1>1. IInv
  BY InitInv
<1>2. channel = <<>> /\ \A h \in Handlers : pc[h] \in {"begin", "done"}
  BY DEF Init
<1>3. ~\E i \in 1..Len(channel) : TRUE
  BY <1>2
<1>4. ASSUME NEW h \in Handlers PROVE UserInv(h) /\ RouteInv(h)
  BY <1>2, <1>3 DEF UserInv, RouteInv, BehindUsers, DeleteInv, MoveInv
<1>5. QED BY <1>1, <1>4 DEF PositionsInv

LEMMA NextPositions == ASSUME PositionsInv, [Next]_vars PROVE PositionsInv'
<1>0. IInv /\ UNCHANGED <<job, old>>
  BY JobKept DEF PositionsInv
<1>1. IInv'
  BY <1>0, NextInv
<1>2. ASSUME NEW h \in Handlers PROVE RouteInv(h)'
  BY <1>0, RouteStep DEF PositionsInv
<1>3. ASSUME NEW h \in Handlers PROVE UserInv(h)'
  <2>1. /\ Kind(h)' = Kind(h) /\ Displaced' = Displaced
    BY <1>0 DEF Kind, Displaced, Moves
  <2>2. SUFFICES ASSUME ~Displaced PROVE BehindUsers(h)' /\ DeleteInv(h)' /\ MoveInv(h)'
    BY <2>1 DEF UserInv
  <2>3. BehindUsers(h)'
    BY <2>1, <2>2, BehindStep DEF BehindNext, BehindUsers, BelowNext, UsersBelow
  <2>4. DeleteInv(h)'
    BY <1>0, <2>1, <2>2, DeleteStep DEF DeleteNext, DeleteInv, Deletes, BelowNext, UsersBelow
  <2>5. MoveInv(h)'
    BY <2>1, <2>2, MoveStep DEF MoveNext, MoveInv, IsMove, BelowNext, UsersBelow
  <2>6. QED BY <2>3, <2>4, <2>5
<1>4. QED BY <1>1, <1>2, <1>3 DEF PositionsInv

Intact == \/ UsersKept
          \/ Displaced
          \/ LET cmd == Head(channel) IN
             \/ Kind(cmd.by) = "each"
             \/ cmd.op = "delete" /\ fulfilled[cmd.by] = job[cmd.by].targets

LEMMA IntactStep == ASSUME PositionsInv, [Next]_vars PROVE Intact
<1>0. IInv /\ TypeOK /\ QueueType /\ OldType /\ HandlerType
  BY DEF PositionsInv, IInv, TypeOK
<1>1. CASE ~Leaves("OK")
  <2>1. queue' = queue
    BY <1>0, <1>1, QueueKept
  <2>2. QED BY <2>1 DEF UsersKept, Intact
<1>2. CASE Leaves("OK")
  <2> DEFINE cmd == channel[1]
  <2>1. Len(channel) \in Nat \ {0} /\ Head(channel) = cmd /\ IsSent(cmd) /\ Execute /\ ~Refuses(cmd)
    BY <1>2 DEF Leaves
  <2>2. 1 \in 1..Len(channel) /\ cmd.by \in Handlers /\ cmd.op \in Ops
    BY <2>1 DEF IsSent
  <2>3. queue' \in Becomes(cmd, cmd.by)
    BY <2>1 DEF Execute
  <2>4. SUFFICES ASSUME ~Displaced, Kind(cmd.by) # "each",
                        ~(cmd.op = "delete" /\ fulfilled[cmd.by] = job[cmd.by].targets)
                 PROVE  UsersKept
    BY <2>1 DEF Intact
  <2>5. cmd.op \in {"status", "add", "play", "delete", "move"}
    <3>1. cmd.op \notin ById \cup {"clear", "shuffle"}
      BY <2>2, <2>4 DEF PositionsInv, RouteInv
    <3>2. QED BY <2>2, <3>1 DEF Ops
  <2>6. cmd.op = "move" => UsersBelow(cmd.a)
    BY <2>2, <2>4 DEF PositionsInv, UserInv, MoveInv, IsMove
  <2>7. cmd.op = "delete" => UsersBelow(cmd.a)
    BY <2>2, <2>4 DEF PositionsInv, UserInv, DeleteInv, Deletes
  <2> HIDE DEF cmd
  <2>8. QED BY <1>0, <2>1, <2>3, <2>5, <2>6, <2>7, UsersKeptBy
<1>3. QED BY <1>1, <1>2

\* Until the new songs are there and replace it, no request changes the songs of the
\* user's queue or their order, unless it is asked to or Displaced.
THEOREM OldQueueStays == Spec => OldQueueIntact
<1>1. Init => PositionsInv
  BY InitPositions
<1>2. PositionsInv /\ [Next]_vars => PositionsInv'
  BY NextPositions
<1>3. PositionsInv /\ [Next]_vars => Intact
  BY IntactStep
<1>4. [Intact]_vars => [\/ UsersKept
                        \/ Displaced
                        \/ LET cmd == Head(channel) IN
                           \/ Kind(cmd.by) = "each"
                           \/ cmd.op = "delete" /\ fulfilled[cmd.by] = job[cmd.by].targets]_vars
  BY DEF Intact
<1>5. QED BY <1>1, <1>2, <1>3, <1>4, PTL DEF Spec, OldQueueIntact

-----------------------------------------------------------------------------
(* A request of its own that replaces the queue or adds to it.             *)

LEMMA SongsEffect ==
    ASSUME NEW who \in Handlers \cup {User}, NEW n \in Nat
    PROVE  /\ Songs(who, n) \in Seq(Ids) /\ Len(Songs(who, n)) = n
           /\ \A i \in 1..n : Songs(who, n)[i] = Song(who, i)
<1>1. \A i \in 1..n : Song(who, i) \in Ids
  BY DEF Song, Ids
<1>2. QED BY <1>1 DEF Songs

LEMMA OldSongs == ASSUME OldType PROVE old \in Seq(Ids) /\ Len(old) \in Nat
<1>1. Len(old) \in Nat /\ old = Songs(User, Len(old))
  BY DEF OldType
<1>2. \A n \in Nat : Songs(User, n) \in Seq(Ids)
  BY SongsEffect
<1>3. QED BY <1>1, <1>2

\* The old queue with n songs of h behind it
LEMMA BehindOld ==
    ASSUME OldType, NEW h \in Handlers, NEW n \in Nat
    PROVE  LET q == old \o Songs(h, n) IN
           /\ q \in Seq(Ids) /\ Len(q) = Len(old) + n
           /\ \A i \in 1..Len(old) : i \in 1..Len(q) /\ q[i] = old[i]
           /\ \A i \in 1..n : Len(old) + i \in 1..Len(q) /\ q[Len(old) + i] = Song(h, i)
<1>1. old \in Seq(Ids) /\ Len(old) \in Nat
  BY OldSongs
<1>2. /\ Songs(h, n) \in Seq(Ids) /\ Len(Songs(h, n)) = n
      /\ \A i \in 1..n : Songs(h, n)[i] = Song(h, i)
  BY SongsEffect
<1> DEFINE t == Songs(h, n)
<1> HIDE DEF t
<1>3. /\ old \o t \in Seq(Ids) /\ Len(old \o t) = Len(old) + Len(t)
      /\ \A i \in 1..Len(old) : (old \o t)[i] = old[i]
      /\ \A i \in 1..Len(t) : (old \o t)[Len(old) + i] = t[i]
  BY <1>1, <1>2 DEF t
<1>4. \A i \in 1..Len(old) : i \in 1..(Len(old) + n)
  BY <1>1
<1>5. \A i \in 1..n : Len(old) + i \in 1..(Len(old) + n)
  BY <1>1
<1>6. QED BY <1>2, <1>3, <1>4, <1>5 DEF t

LEMMA MoreSongs ==
    ASSUME QueueType, OldType, NEW h \in Handlers, NEW a \in Nat, queue = old \o Songs(h, appended[h])
    PROVE  queue \o Fresh(h, a) = old \o Songs(h, appended[h] + a)
<1> DEFINE n == appended[h]
           f == Fresh(h, a)
           r == old \o Songs(h, n + a)
<1>1. old \in Seq(Ids) /\ Len(old) \in Nat /\ n \in Nat /\ n + a \in Nat
  BY OldSongs DEF QueueType
<1>2. f \in Seq(Ids) /\ Len(f) = a /\ \A i \in 1..a : f[i] = Song(h, n + i)
  BY FreshSongs
<1>3. /\ queue \in Seq(Ids) /\ Len(queue) = Len(old) + n
      /\ \A i \in 1..Len(old) : queue[i] = old[i]
      /\ \A i \in 1..n : queue[Len(old) + i] = Song(h, i)
  BY <1>1, BehindOld
<1>4. /\ r \in Seq(Ids) /\ Len(r) = Len(old) + (n + a)
      /\ \A i \in 1..Len(old) : r[i] = old[i]
      /\ \A i \in 1..(n + a) : r[Len(old) + i] = Song(h, i)
  BY <1>1, BehindOld
<1> HIDE DEF n, f, r
<1>5. /\ queue \o f \in Seq(Ids) /\ Len(queue \o f) = Len(queue) + a
      /\ \A i \in 1..Len(queue) : (queue \o f)[i] = queue[i]
      /\ \A i \in 1..a : (queue \o f)[Len(queue) + i] = f[i]
  <2>1. queue \in Seq(Ids) /\ f \in Seq(Ids) /\ Len(f) = a
    BY <1>2, <1>3
  <2>2. QED BY ONLY <2>1, a \in Nat
<1>6. Len(queue \o f) = Len(r)
  BY <1>1, <1>3, <1>4, <1>5
<1>7. ASSUME NEW i \in 1..Len(r) PROVE (queue \o f)[i] = r[i]
  <2>1. CASE i \in 1..Len(old)
    BY <1>1, <1>3, <1>4, <1>5, <2>1
  <2>2. CASE i \in (Len(old) + 1)..(Len(old) + n)
    <3> DEFINE k == i - Len(old)
    <3>1. k \in 1..n /\ k \in 1..(n + a) /\ Len(old) + k = i /\ i \in 1..Len(queue)
      BY <1>1, <1>3, <2>2
    <3>2. QED BY <1>3, <1>4, <1>5, <3>1
  <2>3. CASE i \in (Len(old) + n + 1)..(Len(old) + (n + a))
    <3> DEFINE k == i - (Len(old) + n)
    <3>1. k \in 1..a /\ n + k \in 1..(n + a) /\ Len(old) + (n + k) = i /\ Len(queue) + k = i
      BY <1>1, <1>3, <2>3
    <3>2. (queue \o f)[i] = f[k] /\ f[k] = Song(h, n + k)
      BY <1>2, <1>5, <3>1
    <3>3. r[i] = Song(h, n + k)
      BY <1>4, <3>1
    <3>4. QED BY <3>2, <3>3
  <2>4. i \in 1..(Len(old) + (n + a))
    BY <1>4
  <2>5. \/ i \in 1..Len(old)
        \/ i \in (Len(old) + 1)..(Len(old) + n)
        \/ i \in (Len(old) + n + 1)..(Len(old) + (n + a))
    BY ONLY <1>1, <2>4, a \in Nat
  <2>6. QED BY <2>1, <2>2, <2>3, <2>5
<1>8. queue \o f = r
  BY <1>4, <1>5, <1>6, <1>7
<1>9. QED BY <1>8 DEF n, f, r

LEMMA OldCut ==
    ASSUME OldType, NEW h \in Handlers, NEW n \in Nat
    PROVE  Cut(old \o Songs(h, n), 0, Len(old)) = Songs(h, n)
<1> DEFINE q == old \o Songs(h, n)
           r == Cut(q, 0, Len(old))
           t == Songs(h, n)
<1>1. old \in Seq(Ids) /\ Len(old) \in Nat
  BY OldSongs
<1>2. q \in Seq(Ids) /\ Len(q) = Len(old) + n /\ \A i \in 1..n : q[Len(old) + i] = Song(h, i)
  BY BehindOld
<1>3. t \in Seq(Ids) /\ Len(t) = n /\ \A i \in 1..n : t[i] = Song(h, i)
  BY SongsEffect
<1>4. 0 <= Len(old) /\ Len(old) <= Len(q)
  BY <1>1, <1>2
<1> HIDE DEF q, t
<1>5. /\ r \in Seq(Ids) /\ Len(r) = Len(q) - (Len(old) - 0)
      /\ \A i \in 1..Len(r) : r[i] = q[IF i <= 0 THEN i ELSE i + (Len(old) - 0)]
  BY ONLY <1>1, <1>2, <1>4, CutEffect
<1> HIDE DEF r
<1>6. Len(r) = n
  BY <1>1, <1>2, <1>5
<1>7. ASSUME NEW i \in 1..n PROVE r[i] = t[i]
  <2>1. ~(i <= 0) /\ i + (Len(old) - 0) = Len(old) + i
    BY <1>1
  <2>2. r[i] = q[Len(old) + i]
    BY <1>5, <1>6, <2>1
  <2>3. QED BY <1>2, <1>3, <2>2
<1>8. r = t
  BY <1>3, <1>5, <1>6, <1>7
<1>9. QED BY <1>8 DEF q, r, t

\* The command of a request on its way is the only one, and when it is carried out the
\* request is told so.
LEMMA TrackTold ==
    ASSUME IInv, [Next]_vars, NEW h \in Handlers, OnTrack(h), NEW s \in {"OK", "ACK", "lost"}, Leaves(s)
    PROVE  LET cmd == channel[1] IN
           /\ pc[h] \notin {"begin", "undo", "done"} /\ reply[h].status = "none"
           /\ Len(channel) = 1 /\ cmd.by = h /\ Expected(h, cmd) /\ IsSent(cmd)
           /\ pc[h] = "move" => cmd.b = Len(old) + appended[h]
           /\ channel' = <<>> /\ reply'[h].status = s
           /\ s = "OK" => reply'[h].len = Len(queue) /\ reply'[h].pos = Position(queue, playing)
           /\ UNCHANGED <<job, pc, result, oldLen, before, added, at, target, old, advances>>
           /\ s = "OK" => queue' \in Becomes(cmd, h) /\ playing' = PlayingAfter(cmd, queue') /\ ~Refuses(cmd)
           /\ s # "OK" => queue' = queue
           /\ appended'[h] = IF s = "OK" /\ cmd.op = "add" THEN appended[h] + cmd.a ELSE appended[h]
<1>0. TrackChannel(h) /\ pc[h] \notin {"undo", "done"} /\ reply[h].status \in {"none", "OK"}
  BY DEF OnTrack
<1>1. Len(channel) \in Nat \ {0} /\ channel # <<>> /\ IsSent(channel[1]) /\ Len(channel') = Len(channel) - 1
  BY DEF Leaves
<1>2. /\ pc[h] # "begin" /\ reply[h].status = "none"
      /\ Len(channel) = 1 /\ Awaits(h, 1) /\ Expected(h, channel[1])
      /\ pc[h] = "move" => channel[1].b = Len(old) + appended[h]
  BY <1>0, <1>1 DEF TrackChannel
<1>3. channel' = <<>>
  <2>1. ChannelType'
    BY NextInv DEF IInv, TypeOK
  <2>2. channel' \in Seq(Range(channel')) /\ Len(channel') = 0
    BY <1>1, <1>2, <2>1 DEF ChannelType
  <2>3. QED BY <2>2
<1>4. channel[1].by = h /\ channel[1].awaited
  BY <1>2 DEF Awaits
<1>5. /\ reply'[h].status = s
      /\ s = "OK" => reply'[h].len = Len(queue) /\ reply'[h].pos = Position(queue, playing)
      /\ appended'[h] = IF s = "OK" /\ channel[1].op = "add" THEN appended[h] + channel[1].a ELSE appended[h]
  BY <1>2, <1>4 DEF Leaves
<1>6. s = "OK" => /\ queue' \in Becomes(channel[1], h) /\ playing' = PlayingAfter(channel[1], queue')
                  /\ ~Refuses(channel[1])
  <2>1. SUFFICES ASSUME s = "OK"
                 PROVE  /\ queue' \in Becomes(channel[1], h) /\ playing' = PlayingAfter(channel[1], queue')
                        /\ ~Refuses(channel[1])
    OBVIOUS
  <2>2. Execute /\ ~Refuses(channel[1]) /\ Head(channel) = channel[1]
    BY <2>1 DEF Leaves
  <2>3. QED BY <1>4, <2>2 DEF Execute
<1>7. /\ UNCHANGED <<job, pc, result, oldLen, before, added, at, target, old, advances>>
      /\ s # "OK" => queue' = queue
  BY DEF Leaves
<1>8. QED BY <1>0, <1>1, <1>2, <1>3, <1>4, <1>5, <1>6, <1>7

\* The current song plays on unless it goes or another one is chosen.
LEMMA PlaysOn ==
    ASSUME NEW cmd, NEW q, cmd.op \notin {"play", "playid"}, playing = NoSong \/ Contains(q, playing)
    PROVE  PlayingAfter(cmd, q) = playing
BY DEF PlayingAfter

LEMMA TrackStatus ==
    ASSUME IInv, [Next]_vars, NEW h \in Handlers, Kind(h) \in {"after", "play", "only"}, OnTrack(h),
           Leaves("OK"), pc[h] \in {"len", "before", "after", "newlen"}
    PROVE  OnTrack(h)'
<1>0. QueueType /\ OldType /\ HandlerType
  BY DEF IInv, TypeOK
<1>1. /\ reply[h].status = "none" /\ channel' = <<>> /\ reply'[h].status = "OK"
      /\ channel[1].op = "status" /\ channel[1].by = h
      /\ reply'[h].len = Len(queue) /\ reply'[h].pos = Position(queue, playing)
      /\ UNCHANGED <<job, pc, result, oldLen, before, added, at, target, old, advances>>
      /\ queue' \in Becomes(channel[1], h) /\ playing' = PlayingAfter(channel[1], queue')
      /\ appended'[h] = appended[h]
  BY TrackTold DEF Expected
<1>2. queue' = queue
  BY <1>0, <1>1, BecomesCases
<1>3. playing' = playing
  BY <1>0, <1>1, <1>2, PlaysOn DEF QueueType
<1>4. queue = old \o Songs(h, appended[h])
  BY DEF OnTrack, TrackQueue, Told
<1>5. appended[h] \in Nat /\ Len(old) \in Nat /\ Len(queue) = Len(old) + appended[h]
  BY <1>0, <1>4, OldSongs, BehindOld DEF QueueType
<1>6. pc[h] = "len" => queue = old
  <2>1. SUFFICES ASSUME pc[h] = "len" PROVE queue = old
    OBVIOUS
  <2>2. appended[h] = 0
    BY <2>1 DEF OnTrack, TrackLengths
  <2>3. Songs(h, 0) = <<>>
    BY SongsEffect
  <2>4. QED BY <1>4, <2>2, <2>3, OldSongs, <1>0
<1>7. TrackChannel(h)'
  BY <1>1 DEF TrackChannel
<1>8. TrackQueue(h)'
  BY <1>1, <1>2, <1>4 DEF TrackQueue, Told
<1>9. TrackLengths(h)'
  <2>1. TrackLengths(h) /\ Kind(h)' = Kind(h)
    BY <1>1 DEF OnTrack, Kind
  <2>2. pc[h] = "len" => reply'[h].len = Len(old)
    BY <1>1, <1>6
  <2>3. reply'[h].len = Len(old) + appended[h]
    BY <1>1, <1>5
  <2>4. QED BY <1>1, <2>1, <2>2, <2>3 DEF TrackLengths, Told
<1>10. advances' = 0 => TrackPlaying(h)'
  <2>1. SUFFICES ASSUME advances' = 0 PROVE TrackPlaying(h)'
    OBVIOUS
  <2>2. TrackPlaying(h)
    BY <1>1, <2>1 DEF OnTrack
  <2>3. pc[h] = "len" => reply'[h].pos = Position(old, playing)
    BY <1>1, <1>6
  <2>4. QED BY <1>1, <1>3, <2>2, <2>3 DEF TrackPlaying, Told
<1>11. QED BY <1>1, <1>7, <1>8, <1>9, <1>10 DEF OnTrack

LEMMA TrackAdd ==
    ASSUME IInv, [Next]_vars, NEW h \in Handlers, Kind(h) \in {"after", "play", "only"}, OnTrack(h),
           Leaves("OK"), pc[h] = "add"
    PROVE  OnTrack(h)'
<1> DEFINE a == job[h].targets[target[h]]
<1>0. QueueType /\ OldType /\ HandlerType
  BY DEF IInv, TypeOK
<1>1. /\ reply[h].status = "none" /\ channel' = <<>> /\ reply'[h].status = "OK"
      /\ channel[1].op = "add" /\ channel[1].a = a /\ channel[1].by = h /\ IsSent(channel[1])
      /\ UNCHANGED <<job, pc, result, oldLen, before, added, at, target, old, advances>>
      /\ queue' \in Becomes(channel[1], h) /\ playing' = PlayingAfter(channel[1], queue')
      /\ appended'[h] = appended[h] + a
  BY TrackTold DEF Expected
<1>2. a \in Nat
  BY <1>1 DEF IsSent
<1>3. queue' = queue \o Fresh(h, a)
  BY <1>0, <1>1, BecomesCases
<1> HIDE DEF a
<1>4. queue = old \o Songs(h, appended[h])
  BY DEF OnTrack, TrackQueue, Told
<1>5. queue' = old \o Songs(h, appended'[h])
  BY <1>0, <1>1, <1>2, <1>3, <1>4, MoreSongs
<1>6. playing' = playing
  <2>1. Contains(queue, playing) => Contains(queue', playing)
    BY <1>0, <1>2, <1>3, FreshSongs, ConcatKeeps DEF QueueType
  <2>2. QED BY <1>0, <1>1, <2>1, PlaysOn DEF QueueType
<1>7. TrackChannel(h)'
  BY <1>1 DEF TrackChannel
<1>8. TrackQueue(h)'
  BY <1>1, <1>5 DEF TrackQueue, Told
<1>9. TrackLengths(h)'
  <2>1. TrackLengths(h) /\ Kind(h)' = Kind(h)
    BY <1>1 DEF OnTrack, Kind
  <2>2. Kind(h) = "play" => appended'[h] = added[h] + a
    BY <1>1, <2>1 DEF TrackLengths
  <2>3. QED BY <1>1, <2>1, <2>2 DEF TrackLengths, Told, a
<1>10. advances' = 0 => TrackPlaying(h)'
  <2>1. SUFFICES ASSUME advances' = 0 PROVE TrackPlaying(h)'
    OBVIOUS
  <2>2. TrackPlaying(h)
    BY <1>1, <2>1 DEF OnTrack
  <2>3. QED BY <1>1, <1>6, <2>2 DEF TrackPlaying, Told
<1>11. QED BY <1>1, <1>7, <1>8, <1>9, <1>10 DEF OnTrack

LEMMA TrackDrop ==
    ASSUME IInv, [Next]_vars, NEW h \in Handlers, Kind(h) \in {"after", "play", "only"}, OnTrack(h),
           Leaves("OK"), pc[h] = "drop"
    PROVE  OnTrack(h)'
<1>0. QueueType /\ OldType /\ HandlerType
  BY DEF IInv, TypeOK
<1>1. /\ reply[h].status = "none" /\ channel' = <<>> /\ reply'[h].status = "OK"
      /\ channel[1].op = "delete" /\ channel[1].a = 0 /\ channel[1].b = oldLen[h] /\ channel[1].by = h
      /\ UNCHANGED <<job, pc, result, oldLen, before, added, at, target, old, advances>>
      /\ queue' \in Becomes(channel[1], h) /\ appended'[h] = appended[h]
  BY TrackTold DEF Expected
<1>2. queue = old \o Songs(h, appended[h]) /\ oldLen[h] = Len(old)
  BY <1>1 DEF OnTrack, TrackQueue, TrackLengths, Told
<1>3. appended[h] \in Nat /\ Len(old) \in Nat /\ Len(queue) = Len(old) + appended[h]
  BY <1>0, <1>2, OldSongs, BehindOld DEF QueueType
<1>4. queue' = Cut(queue, 0, Len(old))
  <2>1. channel[1].b <= Len(queue) /\ channel[1].b = Len(old)
    BY <1>1, <1>2, <1>3
  <2>2. QED BY <1>0, <1>1, <2>1, BecomesCases
<1>5. queue' = Songs(h, appended'[h])
  BY <1>0, <1>1, <1>2, <1>3, <1>4, OldCut
<1>6. TrackChannel(h)'
  BY <1>1 DEF TrackChannel
<1>7. TrackQueue(h)'
  BY <1>1, <1>5 DEF TrackQueue, Told
<1>8. TrackLengths(h)'
  <2>1. TrackLengths(h)
    BY DEF OnTrack
  <2>2. QED BY <1>1, <2>1 DEF TrackLengths, Told
<1>9. TrackPlaying(h)'
  BY <1>1 DEF TrackPlaying, Told
<1>10. QED BY <1>1, <1>6, <1>7, <1>8, <1>9 DEF OnTrack

LEMMA TrackPlay ==
    ASSUME IInv, [Next]_vars, NEW h \in Handlers, Kind(h) \in {"after", "play", "only"}, OnTrack(h),
           Leaves("OK"), pc[h] = "play"
    PROVE  OnTrack(h)'
<1>0. QueueType /\ OldType /\ HandlerType
  BY DEF IInv, TypeOK
<1>1. /\ reply[h].status = "none" /\ channel' = <<>> /\ reply'[h].status = "OK"
      /\ channel[1].op = "play" /\ channel[1].by = h
      /\ UNCHANGED <<job, pc, result, oldLen, before, added, at, target, old, advances>>
      /\ queue' \in Becomes(channel[1], h) /\ playing' = PlayingAfter(channel[1], queue')
      /\ appended'[h] = appended[h]
  BY TrackTold DEF Expected
<1>2. queue' = queue
  BY <1>0, <1>1, BecomesCases
<1>3. queue = Songs(h, appended[h]) /\ appended[h] > 0 /\ appended[h] \in Nat
  BY <1>0 DEF OnTrack, TrackQueue, TrackLengths, QueueType
<1>4. playing' = Song(h, 1)
  <2>1. 1 \in 1..appended[h]
    BY <1>3
  <2>2. Songs(h, appended[h])[1] = Song(h, 1)
    BY <1>3, <2>1, SongsEffect
  <2>3. QED BY <1>1, <1>2, <1>3, <2>2 DEF PlayingAfter
<1>5. TrackChannel(h)'
  BY <1>1 DEF TrackChannel
<1>6. TrackQueue(h)'
  BY <1>1, <1>2, <1>3 DEF TrackQueue, Told
<1>7. TrackLengths(h)'
  <2>1. TrackLengths(h)
    BY DEF OnTrack
  <2>2. QED BY <1>1, <2>1 DEF TrackLengths, Told
<1>8. TrackPlaying(h)'
  BY <1>1, <1>4 DEF TrackPlaying, Told
<1>9. QED BY <1>1, <1>5, <1>6, <1>7, <1>8 DEF OnTrack

LEMMA TrackMove ==
    ASSUME IInv, [Next]_vars, NEW h \in Handlers, Kind(h) \in {"after", "play", "only"}, OnTrack(h),
           Leaves("OK"), pc[h] = "move"
    PROVE  OnTrack(h)'
<1>1. /\ reply[h].status = "none" /\ channel' = <<>> /\ reply'[h].status = "OK"
      /\ channel[1].op = "move"
      /\ UNCHANGED <<job, pc, result, oldLen, before, added, at, target, old, advances>>
      /\ appended'[h] = appended[h]
  BY TrackTold DEF Expected
<1>2. TrackChannel(h)'
  BY <1>1 DEF TrackChannel
<1>3. TrackQueue(h)'
  BY <1>1 DEF TrackQueue, Told
<1>4. TrackLengths(h)'
  <2>1. TrackLengths(h)
    BY DEF OnTrack
  <2>2. QED BY <1>1, <2>1 DEF TrackLengths, Told
<1>5. TrackPlaying(h)'
  BY <1>1 DEF TrackPlaying, Told
<1>6. QED BY <1>1, <1>2, <1>3, <1>4, <1>5 DEF OnTrack

LEMMA TrackLost ==
    ASSUME IInv, [Next]_vars, NEW h \in Handlers, OnTrack(h), NEW s \in {"ACK", "lost"}, Leaves(s)
    PROVE  OffTrack(h)'
<1>0. QueueType /\ OldType /\ StepInv(h)
  BY DEF IInv, TypeOK
<1>1. /\ pc[h] \notin {"begin", "undo", "done"} /\ reply[h].status = "none"
      /\ channel' = <<>> /\ reply'[h].status = s /\ queue' = queue
      /\ UNCHANGED <<job, pc, result, oldLen, before, added, at, target, old, advances>>
  <2>1. s \in {"OK", "ACK", "lost"} /\ s # "OK"
    OBVIOUS
  <2>2. QED BY <2>1, TrackTold
<1>2. appended[h] \in Nat /\ Len(old) \in Nat /\ Len(channel') = 0
  BY <1>0, <1>1, OldSongs DEF QueueType
<1>3. result'[h] # "ok"
  BY <1>0, <1>1 DEF StepInv
<1>4. CASE pc[h] = "play"
  <2>1. queue = Songs(h, appended[h]) /\ appended[h] > 0
    BY <1>4 DEF OnTrack, TrackQueue, TrackLengths
  <2>2. queue # <<>>
    BY <1>2, <2>1, SongsEffect
  <2>3. QED BY <1>1, <1>2, <1>3, <1>4, <2>2 DEF OffTrack, Off
<1>5. CASE pc[h] # "play"
  <2>1. queue = old \o Songs(h, appended[h])
    BY <1>1, <1>5 DEF OnTrack, TrackQueue, Told
  <2>2. Len(queue) >= Len(old)
    BY <1>0, <1>2, <2>1, BehindOld
  <2>3. pc[h] = "add" => oldLen[h] = Len(old)
    BY DEF OnTrack, TrackLengths
  <2>4. QED BY <1>1, <1>2, <1>3, <2>2, <2>3 DEF OffTrack, Off
<1>6. QED BY <1>4, <1>5

LEMMA TrackLeaves ==
    ASSUME IInv, [Next]_vars, NEW h \in Handlers, Kind(h) \in {"after", "play", "only"}, OnTrack(h),
           NEW s \in {"OK", "ACK", "lost"}, Leaves(s)
    PROVE  OnTrack(h)' \/ OffTrack(h)'
<1>1. CASE s # "OK"
  BY <1>1, TrackLost
<1>2. CASE s = "OK"
  <2>1. pc[h] \in {"len", "before", "after", "newlen", "add", "drop", "play", "move"}
    <3>1. pc[h] \notin {"begin", "undo", "done"} /\ StepInv(h)
      BY TrackTold DEF IInv
    <3>2. QED BY <3>1 DEF StepInv, StepsOf
  <2>2. QED BY <1>2, <2>1, TrackStatus, TrackAdd, TrackDrop, TrackPlay, TrackMove
<1>3. QED BY <1>1, <1>2

\* A step of a request sends one command, unless it is the last.
LEMMA SendsOn ==
    ASSUME ChannelType, HandlerType, NEW h \in Handlers, Handler(h)
    PROVE  \/ pc'[h] = "done" /\ channel' = channel
           \/ Len(channel') = Len(channel) + 1 /\ result' = result
<1> DEFINE Goal == \/ pc'[h] = "done" /\ channel' = channel
                   \/ Len(channel') = Len(channel) + 1 /\ result' = result
<1>0. pc \in [Handlers -> Steps] /\ channel \in Seq(Range(channel))
  BY DEF HandlerType, ChannelType
<1>s. \A step : \A cmd : Send(h, step, cmd) => Goal
  <2>1. SUFFICES ASSUME NEW step, NEW cmd, Send(h, step, cmd) PROVE Goal
    OBVIOUS
  <2>2. channel' = Append(channel, Sent(h, cmd)) /\ result' = result
    BY <2>1 DEF Send, Sent
  <2>3. Len(channel') = Len(channel) + 1
    BY <1>0, <2>2
  <2>4. QED BY <2>2, <2>3
<1>f. \A res : Finish(h, res) => Goal
  BY <1>0 DEF Finish
<1> SUFFICES Goal
  OBVIOUS
<1> HIDE DEF Goal
<1>d. DropOld(h) => Goal
  BY <1>s DEF DropOld
<1>a. \A i : SendAdd(h, i) => Goal
  BY <1>s DEF SendAdd
<1>1. CASE Begin(h)
  BY <1>1, <1>s, <1>f, <1>a DEF Begin
<1>2. CASE GotLen(h)
  BY <1>2, <1>s, <1>a DEF GotLen
<1>3. CASE GotBefore(h)
  BY <1>3, <1>a DEF GotBefore
<1>4. CASE Added(h)
  BY <1>4, <1>s, <1>f, <1>a DEF Added
<1>5. CASE GotAfter(h)
  BY <1>5, <1>s, <1>f, <1>d DEF GotAfter
<1>6. CASE AddFailed(h)
  BY <1>6, <1>s, <1>f DEF AddFailed
<1>7. CASE GotNewLen(h)
  BY <1>7, <1>s, <1>f, <1>d DEF GotNewLen
<1>8. CASE EachDone(h)
  BY <1>8, <1>s, <1>f DEF EachDone
<1>9. CASE Dropped(h)
  BY <1>9, <1>s DEF Dropped
<1>10. CASE Done(h)
  BY <1>10, <1>f DEF Done
<1>11. CASE Fails(h)
  BY <1>11, <1>f DEF Fails
<1>12. QED BY <1>1, <1>2, <1>3, <1>4, <1>5, <1>6, <1>7, <1>8, <1>9, <1>10, <1>11 DEF Handler

\* What any step of a request on its way does
LEMMA TrackActs ==
    ASSUME IInv, NEW h \in Handlers, OnTrack(h), Handler(h)
    PROVE  /\ channel = <<>> /\ (pc[h] = "begin" \/ reply[h].status = "OK")
           /\ UNCHANGED <<queue, playing, appended, fulfilled, job, old, advances>>
           /\ Kind(h)' = Kind(h) /\ reply'[h].status = "none" /\ pc'[h] # "begin"
           /\ \/ pc'[h] = "done" /\ channel' = <<>>
              \/ Len(channel') = 1 /\ Awaits(h, 1)' /\ Expected(h, channel[1])' /\ pc'[h] # "done"
<1>0. ChannelType /\ HandlerType /\ StepInv(h) /\ AwaitInv(h)
  BY DEF IInv, TypeOK
<1>1. pc[h] \notin {"undo", "done"} /\ reply[h].status \in {"none", "OK"} /\ TrackChannel(h)
  BY DEF OnTrack
<1>2. channel = <<>> /\ (pc[h] = "begin" \/ reply[h].status = "OK")
  <2>1. ~(Len(channel) = 1 /\ Awaits(h, 1))
    <3>1. Len(channel) = 1 => 1 \in 1..Len(channel)
      OBVIOUS
    <3>2. QED BY <1>0, <3>1, NoneAwaited
  <2>2. QED BY <1>1, <2>1 DEF TrackChannel
<1>3. Acts(h) /\ Goes(h) /\ UNCHANGED handlerRest
  BY <1>0, HandlerSteps
<1>4. /\ UNCHANGED <<queue, playing, appended, fulfilled, job, old, advances>>
      /\ reply'[h].status = "none" /\ pc'[h] # "begin"
  BY <1>3 DEF handlerRest, mpdVars, bounds, Acts, Goes, None
<1>5. ASSUME Len(channel') = Len(channel) + 1, result' = result
      PROVE  Len(channel') = 1 /\ Awaits(h, 1)' /\ Expected(h, channel[1])' /\ pc'[h] # "done"
  <2>1. Len(channel) = 0 /\ Len(channel') = 1 /\ 1 \in 1..Len(channel') /\ 1 > Len(channel)
    BY <1>2, <1>5
  <2>2. Awaits(h, 1)'
    BY <1>3, <2>1 DEF Acts, Awaits
  <2>3. Expected(h, channel[1])'
    BY <1>0, <2>1, HandlerFlow DEF Sending
  <2>4. pc'[h] # "done"
    BY <2>3 DEF Expected
  <2>5. QED BY <2>1, <2>2, <2>3, <2>4
<1>6. QED BY <1>0, <1>2, <1>4, <1>5, SendsOn DEF Kind

\* It goes on like this,
LEMMA TrackGoes ==
    ASSUME IInv, NEW h \in Handlers, OnTrack(h), Handler(h), pc'[h] \notin {"undo", "done"},
           pc'[h] = "move" => channel'[1].b = Len(old) + appended[h],
           TrackQueue(h)', TrackLengths(h)', advances = 0 => TrackPlaying(h)'
    PROVE  OnTrack(h)'
<1>1. /\ UNCHANGED <<appended, old, advances>> /\ reply'[h].status = "none" /\ pc'[h] # "begin"
      /\ Len(channel') = 1 /\ Awaits(h, 1)' /\ Expected(h, channel[1])'
  BY TrackActs
<1>2. TrackChannel(h)'
  BY <1>1 DEF TrackChannel
<1>3. QED BY <1>1, <1>2 DEF OnTrack

\* or ends with an error, before anything has gone.
LEMMA TrackStops ==
    ASSUME IInv, NEW h \in Handlers, OnTrack(h), Handler(h), pc'[h] = "done", result'[h] = "error",
           pc[h] \notin {"drop", "play", "move"}
    PROVE  OffTrack(h)'
<1>0. QueueType /\ OldType
  BY DEF IInv, TypeOK
<1>1. UNCHANGED <<queue, old>> /\ Len(channel') = 0
  BY TrackActs
<1>2. queue = old \o Songs(h, appended[h]) /\ appended[h] \in Nat /\ Len(old) \in Nat
  BY <1>0, OldSongs DEF OnTrack, TrackQueue, Told, QueueType
<1>3. Len(queue) >= Len(old)
  BY <1>0, <1>2, BehindOld
<1>4. QED BY <1>1, <1>3 DEF OffTrack, Off

\* Where a step of a request on its way may lead
TrackNext(h) == OnTrack(h)' \/ OffTrack(h)' \/ Won(h)' \/ (Kind(h) = "after" /\ pc'[h] = "done")

LEMMA BeginTracks ==
    ASSUME IInv, NEW h \in Handlers, Kind(h) \in {"after", "play", "only"}, OnTrack(h), Begin(h)
    PROVE  TrackNext(h)
<1>0. Handler(h) /\ HandlerType
  BY DEF Handler, IInv, TypeOK
<1>1. /\ pc[h] = "begin" /\ UNCHANGED <<localVars, queue, playing, appended, job, old, advances>>
      /\ reply'[h].status = "none"
  BY <1>0, TrackActs DEF Begin
<1>2. CASE pc'[h] = "len"
  <2>1. TrackQueue(h)'
    BY <1>1, <1>2 DEF OnTrack, TrackQueue, Told
  <2>2. TrackLengths(h)'
    BY <1>1, <1>2 DEF OnTrack, TrackLengths, Told, localVars
  <2>3. advances = 0 => TrackPlaying(h)'
    BY <1>1, <1>2 DEF OnTrack, TrackPlaying, Told
  <2>4. QED BY <1>0, <1>2, <2>1, <2>2, <2>3, TrackGoes DEF TrackNext
<1>3. CASE Finish(h, "error")
  <2>1. pc'[h] = "done" /\ result'[h] = "error"
    BY <1>0, <1>3 DEF Finish, HandlerType
  <2>2. QED BY <1>0, <1>1, <2>1, TrackStops DEF TrackNext
<1>4. QED
  <2>1. Send(h, "len", StatusCmd) => pc'[h] = "len"
    BY <1>0 DEF Send, HandlerType
  <2>2. QED BY <1>2, <1>3, <2>1 DEF Begin

LEMMA GotLenTracks ==
    ASSUME IInv, NEW h \in Handlers, Kind(h) \in {"after", "play", "only"}, OnTrack(h), GotLen(h)
    PROVE  TrackNext(h)
<1>0. Handler(h) /\ HandlerType
  BY DEF Handler, IInv, TypeOK
<1>1. /\ Told(h, "len") /\ UNCHANGED <<before, added, target, queue, playing, appended, job, old, advances>>
      /\ oldLen'[h] = reply[h].len /\ at'[h] = reply[h].pos + 1
      /\ pc'[h] = IF Kind(h) = "play" THEN "before" ELSE "add"
      /\ reply'[h].status = "none" /\ Kind(h)' = Kind(h)
  <2>1. pc'[h] = IF Kind(h) = "play" THEN "before" ELSE "add"
    BY <1>0 DEF GotLen, SendAdd, Send, HandlerType
  <2>2. oldLen'[h] = reply[h].len /\ at'[h] = reply[h].pos + 1
    BY <1>0 DEF GotLen, HandlerType
  <2>3. QED BY <1>0, <2>1, <2>2, TrackActs DEF GotLen
<1>2. TrackQueue(h)'
  BY <1>1 DEF OnTrack, TrackQueue, Told
<1>3. TrackLengths(h)'
  <2>1. oldLen'[h] = Len(old) /\ appended[h] = 0 /\ added[h] = 0
    BY <1>1 DEF OnTrack, TrackLengths, Told
  <2>2. QED BY <1>1, <2>1 DEF TrackLengths, Told
<1>4. advances = 0 => TrackPlaying(h)'
  BY <1>1 DEF OnTrack, TrackPlaying, Told
<1>5. QED BY <1>0, <1>1, <1>2, <1>3, <1>4, TrackGoes DEF TrackNext

LEMMA GotBeforeTracks ==
    ASSUME IInv, NEW h \in Handlers, Kind(h) \in {"after", "play", "only"}, OnTrack(h), GotBefore(h)
    PROVE  TrackNext(h)
<1>0. Handler(h) /\ HandlerType
  BY DEF Handler, IInv, TypeOK
<1>1. /\ Told(h, "before") /\ UNCHANGED <<oldLen, added, at, target, queue, playing, appended, job, old, advances>>
      /\ before'[h] = reply[h].len /\ pc'[h] = "add" /\ reply'[h].status = "none" /\ Kind(h)' = Kind(h)
  <2>1. before'[h] = reply[h].len /\ pc'[h] = "add"
    BY <1>0 DEF GotBefore, SendAdd, Send, HandlerType
  <2>2. QED BY <1>0, <2>1, TrackActs DEF GotBefore
<1>2. TrackQueue(h)'
  BY <1>1 DEF OnTrack, TrackQueue, Told
<1>3. TrackLengths(h)'
  BY <1>1 DEF OnTrack, TrackLengths, Told
<1>4. advances = 0 => TrackPlaying(h)'
  BY <1>1 DEF OnTrack, TrackPlaying, Told
<1>5. QED BY <1>0, <1>1, <1>2, <1>3, <1>4, TrackGoes DEF TrackNext

LEMMA AddedTracks ==
    ASSUME IInv, NEW h \in Handlers, Kind(h) \in {"after", "play", "only"}, OnTrack(h), Added(h)
    PROVE  TrackNext(h)
<1>0. Handler(h) /\ HandlerType
  BY DEF Handler, IInv, TypeOK
<1>1. /\ Told(h, "add") /\ UNCHANGED <<oldLen, before, added, at, queue, playing, appended, job, old, advances>>
      /\ reply'[h].status = "none" /\ Kind(h)' = Kind(h)
  BY <1>0, TrackActs DEF Added
<1>2. IF Kind(h) = "play" THEN pc'[h] = "after" /\ target'[h] = target[h] ELSE pc'[h] \in {"add", "newlen"}
  BY <1>0 DEF Added, SendAdd, Send, HandlerType
<1>3. TrackQueue(h)'
  BY <1>1, <1>2 DEF OnTrack, TrackQueue, Told
<1>4. TrackLengths(h)'
  <2>1. CASE Kind(h) = "play"
    BY <1>1, <1>2, <2>1 DEF OnTrack, TrackLengths, Told
  <2>2. CASE Kind(h) # "play"
    BY <1>1, <1>2, <2>2 DEF OnTrack, TrackLengths, Told
  <2>3. QED BY <2>1, <2>2
<1>5. advances = 0 => TrackPlaying(h)'
  BY <1>1, <1>2 DEF OnTrack, TrackPlaying, Told
<1>6. pc'[h] \notin {"undo", "done", "move"}
  BY <1>2
<1>7. QED BY <1>0, <1>3, <1>4, <1>5, <1>6, TrackGoes DEF TrackNext

LEMMA DropOldTracks ==
    ASSUME IInv, NEW h \in Handlers, OnTrack(h), Handler(h), DropOld(h),
           pc[h] \notin {"begin", "len", "drop", "play", "move"}, appended[h] > 0, UNCHANGED oldLen
    PROVE  TrackNext(h)
<1>0. HandlerType /\ OldType /\ QueueType
  BY DEF IInv, TypeOK
<1>1. /\ UNCHANGED <<queue, playing, appended, job, old, advances>> /\ reply'[h].status = "none"
      /\ queue = old \o Songs(h, appended[h]) /\ oldLen[h] = Len(old)
  BY TrackActs DEF OnTrack, TrackQueue, TrackLengths, Told
<1>2. pc'[h] = IF Len(old) > 0 THEN "drop" ELSE "play"
  BY <1>0, <1>1 DEF DropOld, Send, HandlerType
<1>3. pc'[h] = "play" => queue = Songs(h, appended[h])
  <2>1. SUFFICES ASSUME pc'[h] = "play" PROVE queue = Songs(h, appended[h])
    OBVIOUS
  <2>2. old \in Seq(Ids) /\ Len(old) \in Nat /\ ~(Len(old) > 0) /\ appended[h] \in Nat
    BY <1>0, <1>2, <2>1, OldSongs DEF QueueType
  <2>3. old = <<>> /\ Songs(h, appended[h]) \in Seq(Ids)
    BY <2>2, SongsEffect
  <2>4. QED BY <1>1, <2>3
<1>4. TrackQueue(h)'
  BY <1>1, <1>2, <1>3 DEF TrackQueue, Told
<1>5. TrackLengths(h)'
  BY <1>1, <1>2 DEF TrackLengths, Told
<1>6. TrackPlaying(h)'
  BY <1>1, <1>2 DEF TrackPlaying, Told
<1>7. QED BY <1>2, <1>4, <1>5, <1>6, TrackGoes DEF TrackNext

LEMMA GotAfterTracks ==
    ASSUME IInv, NEW h \in Handlers, Kind(h) \in {"after", "play", "only"}, OnTrack(h), GotAfter(h)
    PROVE  TrackNext(h)
<1>0. Handler(h) /\ HandlerType /\ OldType /\ QueueType /\ StepInv(h)
  BY DEF Handler, IInv, TypeOK
<1>1. /\ Told(h, "after") /\ UNCHANGED <<oldLen, before, at, queue, playing, appended, job, old, advances>>
      /\ reply'[h].status = "none" /\ Kind(h)' = Kind(h)
  BY <1>0, TrackActs DEF GotAfter
<1>2. Kind(h) = "play"
  BY <1>0, <1>1 DEF Told, StepInv, StepsOf
<1> DEFINE total == added[h] + Minus(reply[h].len, before[h])
<1>3. total = appended[h]
  <2>1. /\ reply[h].len = Len(old) + appended[h] /\ before[h] = Len(old) + added[h]
        /\ appended[h] = added[h] + job[h].targets[target[h]]
    BY <1>1, <1>2 DEF OnTrack, TrackLengths, Told
  <2>2. Len(old) \in Nat /\ added[h] \in Nat
    BY <1>0, OldSongs DEF HandlerType
  <2>3. job[h].targets[target[h]] \in Nat
    <3>1. job[h].targets \in Seq(Nat)
      BY <1>0, <1>2, RequestType DEF Adding
    <3>2. target[h] \in 1..Len(job[h].targets)
      BY <1>0 DEF HandlerType
    <3>3. QED BY ONLY <3>1, <3>2
  <2>4. QED BY ONLY <2>1, <2>2, <2>3 DEF Minus
<1>4. added'[h] = total /\ appended[h] \in Nat
  BY <1>0 DEF GotAfter, HandlerType, QueueType
<1> HIDE DEF total
<1>5. CASE Send(h, "before", StatusCmd)
  <2>1. pc'[h] = "before"
    BY <1>0, <1>5 DEF Send, HandlerType
  <2>2. TrackQueue(h)'
    BY <1>1, <2>1 DEF OnTrack, TrackQueue, Told
  <2>3. TrackLengths(h)'
    BY <1>1, <1>3, <1>4, <2>1 DEF OnTrack, TrackLengths, Told
  <2>4. advances = 0 => TrackPlaying(h)'
    BY <1>1, <2>1 DEF OnTrack, TrackPlaying, Told
  <2>5. QED BY <1>0, <2>1, <2>2, <2>3, <2>4, TrackGoes DEF TrackNext
<1>6. CASE Finish(h, "error")
  <2>1. pc'[h] = "done" /\ result'[h] = "error"
    BY <1>0, <1>6 DEF Finish, HandlerType
  <2>2. QED BY <1>0, <1>1, <2>1, TrackStops DEF TrackNext, Told
<1>7. CASE DropOld(h) /\ total # 0
  <2>1. appended[h] > 0
    BY <1>3, <1>4, <1>7
  <2>2. QED BY <1>0, <1>1, <1>7, <2>1, DropOldTracks DEF Told
<1>8. QED BY <1>5, <1>6, <1>7 DEF GotAfter, total

LEMMA GotNewLenTracks ==
    ASSUME IInv, NEW h \in Handlers, Kind(h) \in {"after", "play", "only"}, OnTrack(h), GotNewLen(h)
    PROVE  TrackNext(h)
<1>0. Handler(h) /\ HandlerType /\ OldType /\ QueueType /\ StepInv(h) /\ ChannelType
  BY DEF Handler, IInv, TypeOK
<1>1. /\ Told(h, "newlen") /\ UNCHANGED <<localVars, queue, playing, appended, job, old, advances>>
      /\ reply'[h].status = "none" /\ Kind(h)' = Kind(h) /\ channel = <<>>
  BY <1>0, TrackActs DEF GotNewLen
<1>2. reply[h].len = Len(old) + appended[h] /\ oldLen[h] = Len(old)
  BY <1>1 DEF OnTrack, TrackLengths, Told
<1>3. Kind(h) # "play" /\ appended[h] \in Nat /\ Len(old) \in Nat
  BY <1>0, <1>1, OldSongs DEF Told, StepInv, StepsOf, QueueType
<1>4. reply[h].len <= oldLen[h] <=> appended[h] = 0
  BY <1>2, <1>3
<1>5. CASE Finish(h, "error")
  <2>1. pc'[h] = "done" /\ result'[h] = "error"
    BY <1>0, <1>5 DEF Finish, HandlerType
  <2>2. QED BY <1>0, <1>1, <2>1, TrackStops DEF TrackNext, Told
<1>6. CASE DropOld(h) /\ appended[h] # 0
  <2>1. appended[h] > 0 /\ oldLen' = oldLen
    BY <1>1, <1>3, <1>6 DEF localVars
  <2>2. QED BY <1>0, <1>1, <1>6, <2>1, DropOldTracks DEF Told
<1>7. CASE Send(h, "move", MoveCmd(oldLen[h], reply[h].len, at[h])) /\ appended[h] # 0
  <2>1. pc'[h] = "move" /\ channel' = Append(channel, Sent(h, MoveCmd(oldLen[h], reply[h].len, at[h])))
    BY <1>0, <1>7 DEF Send, HandlerType, Sent
  <2>2. channel'[1] = Sent(h, MoveCmd(oldLen[h], reply[h].len, at[h]))
    BY <1>1, <2>1
  <2>3. channel'[1].b = Len(old) + appended[h]
    BY <1>2, <2>2, SentFields, CommandFields
  <2>4. TrackQueue(h)'
    BY <1>1, <2>1 DEF OnTrack, TrackQueue, Told
  <2>5. TrackLengths(h)'
    BY <1>1, <1>2, <1>3, <1>7, <2>1 DEF TrackLengths, Told, localVars
  <2>6. advances = 0 => TrackPlaying(h)'
    BY <1>1, <2>1 DEF OnTrack, TrackPlaying, Told, localVars
  <2>7. QED BY <1>0, <2>1, <2>3, <2>4, <2>5, <2>6, TrackGoes DEF TrackNext
<1>8. CASE Finish(h, "ok") /\ Kind(h) # "only"
  <2>1. pc'[h] = "done"
    BY <1>0, <1>8 DEF Finish, HandlerType
  <2>2. QED BY <1>3, <1>8, <2>1 DEF TrackNext
<1>9. QED BY <1>4, <1>5, <1>6, <1>7, <1>8 DEF GotNewLen

LEMMA DroppedTracks ==
    ASSUME IInv, NEW h \in Handlers, Kind(h) \in {"after", "play", "only"}, OnTrack(h), Dropped(h)
    PROVE  TrackNext(h)
<1>0. Handler(h) /\ HandlerType
  BY DEF Handler, IInv, TypeOK
<1>1. /\ Told(h, "drop") /\ UNCHANGED <<localVars, queue, playing, appended, job, old, advances>>
      /\ reply'[h].status = "none"
  BY <1>0, TrackActs DEF Dropped
<1>2. pc'[h] = "play"
  BY <1>0 DEF Dropped, Send, HandlerType
<1>3. TrackQueue(h)'
  BY <1>1, <1>2 DEF OnTrack, TrackQueue, Told
<1>4. TrackLengths(h)'
  BY <1>1, <1>2 DEF OnTrack, TrackLengths, Told, localVars
<1>5. TrackPlaying(h)'
  BY <1>1, <1>2 DEF TrackPlaying, Told
<1>6. QED BY <1>0, <1>2, <1>3, <1>4, <1>5, TrackGoes DEF TrackNext

LEMMA DoneTracks ==
    ASSUME IInv, NEW h \in Handlers, Kind(h) \in {"after", "play", "only"}, OnTrack(h), Done(h)
    PROVE  TrackNext(h)
<1>0. Handler(h) /\ HandlerType /\ StepInv(h) /\ AddInv(h)
  BY DEF Handler, IInv, TypeOK
<1>1. /\ UNCHANGED <<queue, playing, appended, fulfilled, job, old, advances>> /\ pc'[h] = "done"
      /\ channel' = <<>>
  BY <1>0, TrackActs DEF Done, Finish, HandlerType
<1>2. CASE Told(h, "move")
  <2>1. Kind(h) = "after"
    BY <1>0, <1>2 DEF Told, StepInv, StepsOf
  <2>2. QED BY <1>1, <2>1 DEF TrackNext
<1>3. CASE Told(h, "play")
  <2>1. queue = Songs(h, appended[h]) /\ appended[h] > 0
    BY <1>3 DEF OnTrack, TrackQueue, TrackLengths, Told
  <2>2. advances = 0 => playing = Song(h, 1)
    BY <1>3 DEF OnTrack, TrackPlaying
  <2>3. fulfilled[h] = job[h].targets
    BY <1>0, <1>3 DEF AddInv, Told, Adding
  <2>4. QED BY <1>1, <2>1, <2>2, <2>3 DEF Won, TrackNext
<1>4. QED BY <1>2, <1>3 DEF Done

LEMMA OnTrackActs ==
    ASSUME IInv, NEW h \in Handlers, Kind(h) \in {"after", "play", "only"}, OnTrack(h), Handler(h)
    PROVE  TrackNext(h)
<1>1. StepInv(h) /\ pc[h] \notin {"undo", "done"} /\ reply[h].status \in {"none", "OK"}
  BY DEF IInv, OnTrack
<1>2. ~AddFailed(h) /\ ~Fails(h)
  BY <1>1 DEF AddFailed, Fails
<1>3. ~EachDone(h)
  BY <1>1 DEF EachDone, Told, StepInv, StepsOf
<1>4. QED BY <1>2, <1>3, BeginTracks, GotLenTracks, GotBeforeTracks, AddedTracks, GotAfterTracks,
             GotNewLenTracks, DroppedTracks, DoneTracks DEF Handler

\* Giving up leaves the channel's commands there.
LEMMA GivesUp ==
    ASSUME IInv, NEW h \in Handlers, GiveUp(h)
    PROVE  /\ UNCHANGED <<queue, playing, appended, fulfilled, job, pc, result, oldLen, old, advances>>
           /\ pc[h] \notin {"begin", "done"} /\ reply[h].status \in {"none", "OK"}
           /\ reply'[h].status = "lost" /\ Len(channel') = Len(channel)
           /\ \A i \in 1..Len(channel) : /\ channel'[i].by = channel[i].by /\ channel'[i].op = channel[i].op
                                         /\ channel'[i].a = channel[i].a /\ channel'[i].b = channel[i].b
<1>0. ChannelType /\ HandlerType
  BY DEF IInv, TypeOK
<1>1. DOMAIN channel = 1..Len(channel) /\ Len(channel') = Len(channel)
  BY <1>0 DEF ChannelType, GiveUp
<1>2. \A i \in 1..Len(channel) : /\ channel'[i].by = channel[i].by /\ channel'[i].op = channel[i].op
                                 /\ channel'[i].a = channel[i].a /\ channel'[i].b = channel[i].b
  BY <1>0, <1>1 DEF GiveUp, ChannelType, IsSent
<1>3. reply'[h] = Failed("lost") /\ Failed("lost").status = "lost"
  BY <1>0 DEF GiveUp, HandlerType, Failed
<1>4. UNCHANGED <<queue, playing, appended, fulfilled, job, pc, result, oldLen, old, advances>>
  BY DEF GiveUp, mpdVars, localVars
<1>5. QED BY <1>1, <1>2, <1>3, <1>4 DEF GiveUp

LEMMA OnTrackGivesUp ==
    ASSUME IInv, NEW h \in Handlers, Kind(h) \in {"play", "only"}, OnTrack(h), GiveUp(h)
    PROVE  OffTrack(h)'
<1>0. QueueType /\ OldType /\ StepInv(h)
  BY DEF IInv, TypeOK
<1>1. /\ UNCHANGED <<queue, pc, result, oldLen, old>>
      /\ pc[h] \notin {"begin", "done"} /\ reply[h].status \in {"none", "OK"}
      /\ reply'[h].status = "lost" /\ Len(channel') = Len(channel)
      /\ \A i \in 1..Len(channel) : /\ channel'[i].op = channel[i].op
                                    /\ channel'[i].a = channel[i].a /\ channel'[i].b = channel[i].b
  BY GivesUp
<1>2. pc[h] \in {"len", "before", "add", "after", "newlen", "drop", "play"}
  BY <1>0, <1>1 DEF OnTrack, StepInv, StepsOf
<1>3. /\ result[h] # "ok" /\ (pc[h] # "len" => oldLen[h] = Len(old))
      /\ appended[h] \in Nat /\ Len(old) \in Nat
  BY <1>0, <1>1, <1>2, OldSongs DEF StepInv, OnTrack, TrackLengths, QueueType
<1>4. reply[h].status = "OK" => channel = <<>> /\ Len(channel) = 0
  BY DEF OnTrack, TrackChannel
<1>5. reply[h].status = "none" => Len(channel) = 1 /\ Expected(h, channel[1])
  BY <1>1 DEF OnTrack, TrackChannel
<1>6. CASE pc[h] = "play" \/ Told(h, "drop")
  <2>1. queue = Songs(h, appended[h]) /\ appended[h] > 0
    BY <1>6 DEF OnTrack, TrackQueue, TrackLengths, Told
  <2>2. queue # <<>>
    BY <1>3, <2>1, SongsEffect
  <2>3. \A i \in 1..Len(channel) : channel[i].op = "play"
    BY <1>1, <1>4, <1>5, <1>6 DEF Expected, Told
  <2>4. pc[h] # "add"
    BY <1>6 DEF Told
  <2>5. QED BY <1>1, <1>3, <2>2, <2>3, <2>4 DEF OffTrack, Off
<1>7. CASE pc[h] # "play" /\ ~Told(h, "drop")
  <2>1. queue = old \o Songs(h, appended[h])
    BY <1>2, <1>7 DEF OnTrack, TrackQueue, Told
  <2>2. Len(queue) = Len(old) + appended[h]
    BY <1>0, <1>3, <2>1, BehindOld
  <2>3. CASE pc[h] = "drop"
    <3>1. Len(channel) = 1 /\ channel[1].op = "delete" /\ channel[1].a = 0 /\ channel[1].b = Len(old)
      BY <1>1, <1>3, <1>5, <1>7, <2>3 DEF Expected, Told
    <3>2. Len(queue) > Len(old)
      BY <1>3, <2>2, <2>3 DEF OnTrack, TrackLengths
    <3>3. 1 \in 1..Len(channel)
      BY <3>1
    <3>4. QED BY <1>1, <1>3, <2>3, <3>1, <3>2, <3>3 DEF OffTrack, Off
  <2>4. CASE pc[h] # "drop"
    <3>1. \A i \in 1..Len(channel) : channel[i].op \in {"status", "add"}
      BY <1>1, <1>2, <1>4, <1>5, <1>7, <2>4 DEF Expected
    <3>2. Len(queue) >= Len(old)
      BY <1>3, <2>2
    <3>3. QED BY <1>1, <1>3, <3>1, <3>2 DEF OffTrack, Off
  <2>5. QED BY <2>3, <2>4
<1>8. QED BY <1>6, <1>7

\* The safe endings (OffTrack)
LEMMA OffTrackLeaves ==
    ASSUME IInv, NEW h \in Handlers, OffTrack(h), NEW s \in {"OK", "ACK", "lost"}, Leaves(s)
    PROVE  OffTrack(h)'
<1> DEFINE cmd == channel[1]
<1>0. QueueType /\ OldType
  BY DEF IInv, TypeOK
<1>1. /\ Len(channel) \in Nat \ {0} /\ Len(channel') = Len(channel) - 1 /\ IsSent(cmd)
      /\ \A i \in 1..Len(channel') : i + 1 \in 1..Len(channel) /\ channel'[i] = channel[i + 1]
      /\ UNCHANGED <<pc, result, oldLen, old>>
      /\ s # "OK" => queue' = queue
  BY DEF Leaves
<1>2. pc'[h] \in {"undo", "done"} \/ reply'[h].status \in {"ACK", "lost"}
  BY <1>1 DEF OffTrack, Off, Leaves
<1>3. s = "OK" => queue' \in Becomes(cmd, cmd.by) /\ ~Refuses(cmd)
  BY DEF Leaves, Execute
<1>4. 1 \in 1..Len(channel) /\ Len(queue) \in Nat /\ Len(old) \in Nat /\ queue \in Seq(Ids) /\ cmd.by \in Handlers
  BY <1>0, <1>1, OldSongs DEF QueueType, IsSent
<1> HIDE DEF cmd
<1>5. CASE /\ Len(queue) >= Len(old)
           /\ pc[h] = "add" => oldLen[h] = Len(old)
           /\ \A i \in 1..Len(channel) :
                 \/ channel[i].op \in {"status", "add"}
                 \/ channel[i].op = "delete" /\ channel[i].a >= Len(old)
  <2>1. cmd.op \in {"status", "add"} \/ (cmd.op = "delete" /\ cmd.a >= Len(old))
    BY <1>4, <1>5 DEF cmd
  <2>2. Len(queue') >= Len(old)
    <3>1. CASE s # "OK" \/ cmd.op = "status"
      <4>1. queue' = queue
        BY <1>0, <1>1, <1>3, <3>1, BecomesCases
      <4>2. QED BY <1>5, <4>1
    <3>2. CASE s = "OK" /\ cmd.op = "add"
      <4>1. cmd.a \in Nat
        BY <1>1, <3>2 DEF IsSent
      <4>2. queue' = queue \o Fresh(cmd.by, cmd.a)
        BY <1>0, <1>3, <3>2, BecomesCases
      <4>3. Fresh(cmd.by, cmd.a) \in Seq(Ids)
        BY <1>0, <1>4, <4>1, FreshSongs
      <4>4. \A q \in Seq(Ids) : Len(queue \o q) = Len(queue) + Len(q) /\ Len(q) \in Nat
        BY <1>4
      <4>5. QED BY <1>4, <1>5, <4>2, <4>3, <4>4
    <3>3. CASE s = "OK" /\ cmd.op = "delete" /\ cmd.a >= Len(old)
      <4> DEFINE e == IF cmd.b <= Len(queue) THEN cmd.b ELSE Len(queue)
      <4>1. e \in Nat /\ cmd.a \in Nat /\ cmd.a <= e /\ e <= Len(queue)
        BY <1>0, <1>1, <1>3, <3>3, DeleteRange
      <4>2. queue' = Cut(queue, cmd.a, e)
        BY <1>0, <1>3, <3>3, BecomesCases
      <4> HIDE DEF e
      <4>3. Len(queue') = Len(queue) - (e - cmd.a)
        BY <1>4, <4>1, <4>2, CutEffect
      <4>4. QED BY <1>4, <3>3, <4>1, <4>3
    <3>4. QED BY <2>1, <3>1, <3>2, <3>3
  <2>3. QED BY <1>1, <1>2, <1>5, <2>2 DEF OffTrack, Off
<1>6. CASE /\ Len(queue) > Len(old) /\ pc[h] # "add" /\ Len(channel) = 1
           /\ channel[1].op = "delete" /\ channel[1].a = 0 /\ channel[1].b = Len(old)
  <2>1. Len(channel') = 0
    BY <1>1, <1>6
  <2>2. queue' # <<>>
    <3>1. CASE s # "OK"
      BY <1>1, <1>4, <1>6, <3>1
    <3>2. CASE s = "OK"
      <4>1. cmd.op = "delete" /\ cmd.a = 0 /\ cmd.b = Len(old) /\ cmd.b <= Len(queue)
        BY <1>4, <1>6 DEF cmd
      <4>2. queue' = Cut(queue, 0, Len(old))
        BY <1>0, <1>3, <3>2, <4>1, BecomesCases
      <4>3. 0 \in Nat /\ 0 <= Len(old) /\ Len(old) <= Len(queue)
        BY <1>4, <1>6
      <4>4. Len(Cut(queue, 0, Len(old))) = Len(queue) - (Len(old) - 0)
        BY ONLY <1>4, <4>3, CutEffect
      <4>5. QED BY <1>4, <1>6, <4>2, <4>4
    <3>3. QED BY <3>1, <3>2
  <2>3. QED BY <1>1, <1>2, <1>6, <2>1, <2>2 DEF OffTrack, Off
<1>7. CASE /\ queue # <<>> /\ pc[h] # "add"
           /\ \A i \in 1..Len(channel) : channel[i].op = "play"
  <2>1. queue' = queue
    <3>1. cmd.op = "play"
      BY <1>4, <1>7 DEF cmd
    <3>2. QED BY <1>0, <1>1, <1>3, <3>1, BecomesCases
  <2>2. QED BY <1>1, <1>2, <1>7, <2>1 DEF OffTrack, Off
<1>8. QED BY <1>5, <1>6, <1>7 DEF OffTrack, Off

LEMMA OffTrackActs ==
    ASSUME IInv, [Next]_vars, NEW h \in Handlers, Kind(h) \in {"play", "only"}, OffTrack(h), Handler(h)
    PROVE  OffTrack(h)'
<1>0. ChannelType /\ HandlerType /\ StepInv(h) /\ OldType
  BY DEF IInv, TypeOK
<1>1. Acts(h) /\ UNCHANGED handlerRest
  BY <1>0, HandlerSteps
<1>2. UNCHANGED <<queue, old>> /\ ~\E s \in {"OK", "ACK", "lost"} : Leaves(s)
  BY <1>1 DEF Acts, Leaves, handlerRest, mpdVars
<1>3. CASE pc[h] = "add"
  <2>1. /\ pc'[h] \in {"undo", "done"} /\ result'[h] # "ok" /\ oldLen'[h] = Len(old)
        /\ Len(queue) >= Len(old)
        /\ \A i \in 1..Len(channel) :
              \/ channel[i].op \in {"status", "add"}
              \/ channel[i].op = "delete" /\ channel[i].a >= Len(old)
    <3>1. reply[h].status \in {"ACK", "lost"}
      BY <1>3 DEF OffTrack, Off
    <3>2. ~Told(h, "add") /\ ~Told(h, "len")
      BY <3>1 DEF Told
    <3>3. Flow(h) /\ oldLen'[h] = oldLen[h]
      BY <1>0, <3>2, HandlerFlow, LenFlow
    <3>4. QED BY <1>3, <3>2, <3>3 DEF Flow, OffTrack
  <2>2. ASSUME NEW i \in 1..Len(channel')
        PROVE  \/ channel'[i].op \in {"status", "add"}
               \/ channel'[i].op = "delete" /\ channel'[i].a >= Len(old)
    <3>1. CASE /\ i \in 1..Len(channel)
               /\ channel'[i].op = channel[i].op /\ channel'[i].a = channel[i].a
      BY <2>1, <3>1
    <3>2. CASE Expected(h, channel[i])'
      <4>1. channel'[i].op = "delete" /\ channel'[i].a = oldLen'[h]
        BY <2>1, <3>2 DEF Expected
      <4>2. Len(old) \in Nat
        BY <1>0, OldSongs
      <4>3. QED BY <2>1, <4>1, <4>2
    <3>3. i > Len(channel) => Expected(h, channel[i])'
      BY <1>0, HandlerFlow DEF Sending
    <3>4. i \in 1..Len(channel) => channel'[i] = channel[i]
      BY <1>1 DEF Acts
    <3>5. QED
      <4>1. Len(channel) \in Nat /\ (i \in 1..Len(channel) \/ i > Len(channel))
        BY <1>1 DEF Acts
      <4>2. QED BY <3>1, <3>2, <3>3, <3>4, <4>1
  <2>3. QED BY <1>2, <2>1, <2>2 DEF OffTrack, Off
<1>4. CASE pc[h] # "add"
  <2>1. Fails(h)
    <3>1. pc[h] \notin {"begin", "done"}
      <4>1. pc[h] # "done"
        BY <1>0, LenFlow
      <4>2. QED BY <1>0, <4>1 DEF OffTrack, Off, StepInv
    <3>2. pc[h] = "undo" \/ reply[h].status \in {"ACK", "lost"}
      BY <3>1 DEF OffTrack, Off
    <3>3. QED BY <1>4, <3>1, <3>2 DEF Handler, Begin, GotLen, GotBefore, Added, GotAfter, AddFailed,
                                     GotNewLen, EachDone, Dropped, Done, Told
  <2>2. channel' = channel /\ pc'[h] = "done" /\ result'[h] = "error"
    BY <1>0, <2>1 DEF Fails, Finish, HandlerType
  <2>3. QED BY <1>2, <1>4, <2>2 DEF OffTrack, Off
<1>5. QED BY <1>3, <1>4

LEMMA OffTrackGivesUp ==
    ASSUME IInv, NEW h \in Handlers, OffTrack(h), GiveUp(h)
    PROVE  OffTrack(h)'
<1>1. /\ UNCHANGED <<queue, pc, result, oldLen, old>>
      /\ reply'[h].status = "lost" /\ Len(channel') = Len(channel)
      /\ \A i \in 1..Len(channel) : /\ channel'[i].op = channel[i].op
                                    /\ channel'[i].a = channel[i].a /\ channel'[i].b = channel[i].b
  BY GivesUp
<1>2. Len(channel) = 1 => 1 \in 1..Len(channel)
  OBVIOUS
<1>3. QED BY <1>1, <1>2 DEF OffTrack, Off

LEMMA WonStays ==
    ASSUME IInv, NEW h \in Handlers, Won(h)
    PROVE  ~Handler(h) /\ ~GiveUp(h) /\ \A s \in {"OK", "ACK", "lost"} : ~Leaves(s)
<1>1. HandlerType /\ StepInv(h) /\ pc[h] = "done" /\ Len(channel) = 0
  BY DEF IInv, TypeOK, Won
<1>2. ~Handler(h)
  BY <1>1, LenFlow
<1>3. QED BY <1>1, <1>2 DEF GiveUp, Leaves

\* A request that has failed gets no further.
LEMMA OffStays ==
    ASSUME IInv, [Next]_vars, NEW h \in Handlers, Kind(h) = "after", Off(h)
    PROVE  Off(h)'
<1>0. HandlerType /\ StepInv(h)
  BY DEF IInv, TypeOK
<1>1. CASE Handler(h)
  <2>1. pc[h] # "done" /\ pc[h] # "undo" /\ pc[h] # "begin"
    BY <1>0, <1>1, LenFlow DEF StepInv, StepsOf, Off
  <2>2. reply[h].status \in {"ACK", "lost"}
    BY <2>1 DEF Off
  <2>3. AddFailed(h) \/ Fails(h)
    BY <1>1, <2>1, <2>2 DEF Handler, Begin, GotLen, GotBefore, Added, GotAfter, GotNewLen, EachDone,
                            Dropped, Done, Told
  <2>4. pc'[h] \in {"undo", "done"}
    BY <1>0, <2>3 DEF AddFailed, Fails, Send, Finish, HandlerType
  <2>5. QED BY <2>4 DEF Off
<1>2. CASE ~Handler(h)
  <2>1. CASE \E s \in {"OK", "ACK", "lost"} : Leaves(s)
    BY <2>1 DEF Leaves, Off
  <2>2. CASE ~\E s \in {"OK", "ACK", "lost"} : Leaves(s)
    BY <1>2, <2>2, OwnKept DEF Off
  <2>3. QED BY <2>1, <2>2
<1>3. QED BY <1>1, <1>2

LEMMA StandsStill ==
    ASSUME IInv, NEW h \in Handlers, Advance \/ UNCHANGED vars
    PROVE  /\ OnTrack(h) => OnTrack(h)'
           /\ OffTrack(h) => OffTrack(h)'
           /\ Won(h) => Won(h)'
<1>1. /\ UNCHANGED <<queue, appended, fulfilled, channel, job, pc, reply, result, old, oldLen, before,
                     added, at, target>>
      /\ advances' = 0 => advances = 0 /\ playing' = playing
  <2>1. CASE Advance
    <3>1. advances \in Nat /\ advances' = advances + 1
      BY <2>1 DEF Advance, IInv, TypeOK, BoundsType
    <3>2. QED BY <2>1, <3>1 DEF Advance, localVars
  <2>2. CASE UNCHANGED vars
    BY <2>2 DEF vars, mpdVars, localVars, bounds
  <2>3. QED BY <2>1, <2>2
<1>2. OnTrack(h) => OnTrack(h)'
  <2>1. TrackChannel(h)' = TrackChannel(h)
    BY <1>1 DEF TrackChannel, Awaits, Expected
  <2>2. TrackQueue(h)' = TrackQueue(h)
    BY <1>1 DEF TrackQueue, Told
  <2>3. TrackLengths(h)' = TrackLengths(h)
    BY <1>1 DEF TrackLengths, Told, Kind
  <2>4. advances' = 0 => TrackPlaying(h)' = TrackPlaying(h)
    BY <1>1 DEF TrackPlaying, Told
  <2>5. QED BY <1>1, <2>1, <2>2, <2>3, <2>4 DEF OnTrack
<1>3. OffTrack(h) => OffTrack(h)'
  BY <1>1 DEF OffTrack, Off
<1>4. Won(h) => Won(h)'
  BY <1>1 DEF Won
<1>5. QED BY <1>2, <1>3, <1>4

LEMMA TrackStep ==
    ASSUME IInv, [Next]_vars, NEW h \in Handlers, TrackInv(h)
    PROVE  TrackInv(h)'
<1>0. TypeOK /\ UNCHANGED job
  BY JobKept DEF IInv
<1>1. Alone(h)' = Alone(h) /\ Kind(h)' = Kind(h)
  BY <1>0 DEF Alone, Kind
<1>2. SUFFICES ASSUME Alone(h)
               PROVE  /\ Kind(h) \in {"play", "only"} => OnTrack(h)' \/ OffTrack(h)' \/ Won(h)'
                      /\ Kind(h) = "after" => OnTrack(h)' \/ Off(h)'
  BY <1>1 DEF TrackInv, Off
<1>3. \/ \E s \in {"OK", "ACK", "lost"} : Leaves(s)
      \/ Handler(h) \/ GiveUp(h) \/ Advance \/ UNCHANGED vars
  <2>1. CASE Execute \/ RefuseAdd \/ LoseCommand
    BY <1>0, <2>1, LeaveEffect
  <2>2. CASE \E g \in Handlers : Handler(g) \/ GiveUp(g)
    BY <1>2, <2>2, AloneIs
  <2>3. QED BY <2>1, <2>2 DEF Next
<1>4. ASSUME Kind(h) \in {"play", "only"} PROVE OnTrack(h)' \/ OffTrack(h)' \/ Won(h)'
  <2>1. OnTrack(h) \/ OffTrack(h) \/ Won(h)
    BY <1>2, <1>4 DEF TrackInv
  <2>2. CASE OnTrack(h)
    <3>1. Handler(h) => OnTrack(h)' \/ OffTrack(h)' \/ Won(h)'
      BY <1>4, <2>2, OnTrackActs DEF TrackNext
    <3>2. QED BY <1>3, <1>4, <2>2, <3>1, TrackLeaves, OnTrackGivesUp, StandsStill
  <2>3. CASE OffTrack(h)
    BY <1>3, <1>4, <2>3, OffTrackLeaves, OffTrackActs, OffTrackGivesUp, StandsStill
  <2>4. CASE Won(h)
    BY <1>3, <2>4, WonStays, StandsStill
  <2>5. QED BY <2>1, <2>2, <2>3, <2>4
<1>5. ASSUME Kind(h) = "after" PROVE OnTrack(h)' \/ Off(h)'
  <2>1. OnTrack(h) \/ Off(h)
    BY <1>2, <1>5 DEF TrackInv, Off
  <2>2. CASE OnTrack(h)
    <3>1. Handler(h) => OnTrack(h)' \/ Off(h)'
      BY <1>5, <2>2, OnTrackActs DEF TrackNext, OffTrack, Won, Off
    <3>2. GiveUp(h) => Off(h)'
      BY GivesUp DEF Off
    <3>3. (\E s \in {"OK", "ACK", "lost"} : Leaves(s)) => OnTrack(h)' \/ Off(h)'
      BY <1>5, <2>2, TrackLeaves DEF OffTrack, Off
    <3>4. QED BY <1>3, <2>2, <3>1, <3>2, <3>3, StandsStill
  <2>3. QED BY <1>5, <2>1, <2>2, OffStays
<1>6. QED BY <1>4, <1>5

LEMMA InitTrack == ASSUME Init, NEW h \in Handlers PROVE TrackInv(h)
<1>0. TypeOK /\ QueueType /\ OldType
  BY InitInv DEF IInv, TypeOK
<1>1. /\ queue = old /\ channel = <<>> /\ reply[h] = None /\ appended[h] = 0 /\ added[h] = 0
      /\ pc[h] = IF Kind(h) = "none" THEN "done" ELSE "begin"
  BY DEF Init, Kind
<1>2. SUFFICES ASSUME pc[h] = "begin" PROVE OnTrack(h)
  BY <1>1 DEF TrackInv
<1>3. reply[h].status = "none"
  BY <1>1 DEF None
<1>4. TrackChannel(h)
  BY <1>1, <1>2, <1>3 DEF TrackChannel
<1>5. queue = old \o Songs(h, appended[h])
  <2>1. Songs(h, 0) = <<>> /\ old \in Seq(Ids)
    BY <1>0, SongsEffect, OldSongs
  <2>2. QED BY <1>1, <2>1
<1>6. TrackQueue(h)
  BY <1>2, <1>5 DEF TrackQueue, Told
<1>7. TrackLengths(h)
  BY <1>1, <1>2, <1>3 DEF TrackLengths, Told
<1>8. TrackPlaying(h)
  BY <1>0, <1>1, <1>2, <1>3 DEF TrackPlaying, Told, QueueType
<1>9. QED BY <1>2, <1>3, <1>4, <1>6, <1>7, <1>8 DEF OnTrack

TracksInv == IInv /\ \A h \in Handlers : TrackInv(h)

LEMMA NextTracks == ASSUME TracksInv, [Next]_vars PROVE TracksInv'
BY NextInv, TrackStep DEF TracksInv

LEMMA Replaces == ASSUME TracksInv PROVE ReplacesExactly
<1>0. QueueType /\ OldType /\ IInv
  BY DEF TracksInv, IInv, TypeOK
<1>1. SUFFICES ASSUME NEW h \in Handlers, Alone(h), Kind(h) \in {"play", "only"}
               PROVE  /\ NeverEmpty
                      /\ result[h] = "ok" => /\ queue = Songs(h, appended[h])
                                             /\ fulfilled[h] = job[h].targets
                      /\ (result[h] = "ok" /\ advances = 0) => playing = Song(h, 1)
  BY DEF ReplacesExactly
<1>2. appended[h] \in Nat /\ Len(old) \in Nat /\ old \in Seq(Ids) /\ queue \in Seq(Ids) /\ StepInv(h)
  BY <1>0, OldSongs DEF QueueType, IInv
<1>3. appended[h] > 0 => Songs(h, appended[h]) # <<>>
  BY <1>2, SongsEffect
<1>4. CASE OnTrack(h)
  <2>1. result[h] # "ok"
    BY <1>2, <1>4 DEF OnTrack, StepInv
  <2>2. NeverEmpty
    <3>1. CASE pc[h] = "play" \/ Told(h, "drop")
      BY <1>3, <1>4, <3>1 DEF OnTrack, TrackQueue, TrackLengths, Told, NeverEmpty
    <3>2. CASE ~(pc[h] = "play" \/ Told(h, "drop"))
      <4>1. ~Told(h, "move")
        BY <1>1, <1>2 DEF Told, StepInv, StepsOf
      <4>2. queue = old \o Songs(h, appended[h])
        BY <1>4, <3>2, <4>1 DEF OnTrack, TrackQueue
      <4>3. Len(queue) = Len(old) + appended[h]
        BY <1>0, <1>2, <4>2, BehindOld
      <4>4. QED BY <1>2, <4>3 DEF NeverEmpty
    <3>3. QED BY <3>1, <3>2
  <2>3. QED BY <2>1, <2>2
<1>5. CASE OffTrack(h)
  <2>1. Len(queue) >= Len(old) \/ Len(queue) > Len(old) \/ queue # <<>>
    BY <1>5 DEF OffTrack, Off
  <2>2. NeverEmpty
    BY <1>2, <2>1 DEF NeverEmpty
  <2>3. QED BY <1>5, <2>2 DEF OffTrack, Off
<1>6. CASE Won(h)
  BY <1>3, <1>6 DEF Won, NeverEmpty
<1>7. QED BY <1>1, <1>4, <1>5, <1>6 DEF TracksInv, TrackInv

\* Alone, a request that replaces the queue never leaves it empty, and when it succeeds
\* exactly its songs are in it, from the first of which MPD plays.
THEOREM Replacing == Spec => []ReplacesExactly
<1>1. Init => TracksInv
  BY InitInv, InitTrack DEF TracksInv
<1>2. TracksInv /\ [Next]_vars => TracksInv'
  BY NextTracks
<1>3. TracksInv => ReplacesExactly
  BY Replaces
<1>4. QED BY <1>1, <1>2, <1>3, PTL DEF Spec

LEMMA OldIsOnce == ASSUME OldType PROVE IsInjective(old)
<1>1. Len(old) \in Nat /\ old = Songs(User, Len(old))
  BY DEF OldType
<1>2. \A i \in 1..Len(old) : old[i] = Song(User, i)
  BY <1>1, SongsEffect
<1>3. QED BY <1>2, SongFields DEF IsInjective

\* Where the songs of a request are when MPD has moved them
LEMMA MovedNext ==
    ASSUME TracksInv, [Next]_vars, advances = 0, NEW h \in Handlers, Alone(h),
           pc[h] = "move", reply[h].status = "none", reply'[h].status = "OK",
           NEW i \in 1..appended[h]
    PROVE  Position(queue', Song(h, i)) = Position(queue', playing') + i
<1>0. QueueType /\ OldType /\ IInv /\ StepInv(h) /\ HandlerType
  BY DEF TracksInv, IInv, TypeOK
<1>1. Kind(h) = "after"
  BY <1>0, RequestType DEF StepInv, StepsOf, Adding
<1>2. OnTrack(h)
  BY <1>1 DEF TracksInv, TrackInv, Off
<1>3. Leaves("OK")
  <2>1. ~Handler(h)
    BY <1>0, HandlerSteps DEF Acts, None, IInv, TypeOK
  <2>2. PICK s \in {"OK", "ACK", "lost"} : Leaves(s)
    BY <1>0, <2>1, OwnKept
  <2>3. reply'[h].status = s
    BY <1>0, <1>2, <2>2, TrackTold
  <2>4. QED BY <2>2, <2>3
<1> DEFINE cmd == channel[1]
           L == Len(old)
           n == appended[h]
           p == Position(old, playing)
<1>4. /\ cmd.op = "move" /\ cmd.a = oldLen[h] /\ cmd.c = at[h] /\ cmd.b = L + n /\ IsSent(cmd)
      /\ queue' \in Becomes(cmd, h) /\ playing' = PlayingAfter(cmd, queue')
  BY <1>0, <1>2, <1>3, TrackTold DEF Expected
<1>5. oldLen[h] = L /\ at[h] = p + 1 /\ (playing = NoSong \/ Contains(old, playing))
      /\ queue = old \o Songs(h, n)
  BY <1>2 DEF OnTrack, TrackLengths, TrackPlaying, TrackQueue, Told
<1>6. L \in Nat /\ n \in Nat /\ old \in Seq(Ids) /\ IsInjective(old) /\ IsInjective(queue) /\ queue \in Seq(Ids)
  BY <1>0, OldSongs, OldIsOnce DEF QueueType
<1>7. /\ Len(queue) = L + n
      /\ \A k \in 1..L : k \in 1..Len(queue) /\ queue[k] = old[k]
      /\ \A k \in 1..n : L + k \in 1..Len(queue) /\ queue[L + k] = Song(h, k)
  BY <1>0, <1>5, <1>6, BehindOld
<1> DEFINE c == p + 1
           e == L + n
<1>8. /\ c \in Nat /\ c <= L /\ L <= e /\ e <= Len(queue) /\ e \in Nat
      /\ cmd.a = L /\ cmd.b = e /\ cmd.c = c
  <2>1. c = cmd.c /\ cmd.c \in Nat /\ cmd.c < cmd.a /\ cmd.a = L
    BY <1>4, <1>5 DEF IsSent
  <2>2. QED BY <1>4, <1>6, <1>7, <2>1
<1>9. queue' = Moved(queue, L, e, c)
  BY <1>0, <1>4, <1>8, BecomesCases
<1>p. p \in Nat \cup {-1} /\ p = c - 1
  BY <1>6, PositionType
<1> HIDE DEF cmd, L, n, p, c, e
<1> DEFINE r == Moved(queue, L, e, c)
<1>r. /\ r \in Seq(Ids) /\ Len(r) = Len(queue)
      /\ \A k \in 1..Len(queue) : r[k] = queue[IF k <= c \/ k > e THEN k
                                              ELSE IF k <= c + (e - L) THEN k + (L - c)
                                              ELSE k - (e - L)]
  BY ONLY <1>6, <1>8, MoveEffect
<1> HIDE DEF r
<1>10. /\ queue' \in Seq(Ids) /\ Len(queue') = Len(queue)
       /\ \A k \in 1..Len(queue) : queue'[k] = queue[IF k <= c \/ k > e THEN k
                                                     ELSE IF k <= c + (e - L) THEN k + (L - c)
                                                     ELSE k - (e - L)]
  BY <1>9, <1>r DEF r
<1>11. IsInjective(queue') /\ \A x : Contains(queue', x) <=> Contains(queue, x)
  BY ONLY <1>6, <1>8, <1>9, MoveKeeps
<1>12. Position(queue', Song(h, i)) = p + i
  <2>1. i \in 1..n
    BY DEF n
  <2>2. /\ c + i \in 1..Len(queue) /\ ~(c + i <= c \/ c + i > e) /\ c + i <= c + (e - L)
        /\ c + i + (L - c) = L + i
    BY <1>6, <1>7, <1>8, <2>1 DEF e
  <2>3. queue'[c + i] = queue[L + i]
    BY <1>10, <2>2
  <2>4. queue'[c + i] = Song(h, i)
    BY <1>7, <2>1, <2>3
  <2>5. c + i \in 1..Len(queue')
    BY <1>10, <2>2
  <2>6. \A k \in 1..Len(queue') : Position(queue', queue'[k]) = k - 1
    BY <1>10, <1>11, PositionIs
  <2>7. Position(queue', queue'[c + i]) = (c + i) - 1
    BY <2>5, <2>6
  <2>8. (c + i) - 1 = p + i
    BY <1>6, <1>8, <1>p, <2>1
  <2>9. QED BY <2>4, <2>7, <2>8
<1>13. playing' = playing
  <2>1. Contains(old, playing) => Contains(queue, playing)
    BY <1>7 DEF Contains, L
  <2>2. playing = NoSong \/ Contains(queue', playing)
    BY <1>5, <1>11, <2>1
  <2>3. QED BY <1>4, <2>2, PlaysOn
<1>14. Position(queue', playing) = p
  <2>1. CASE Contains(old, playing)
    <3>1. p \in Nat /\ old[p + 1] = playing
      BY <1>6, <2>1, PositionType DEF p
    <3>2. c \in 1..L /\ c <= c /\ p = c - 1
      BY <1>8, <3>1 DEF c
    <3>3. queue'[c] = playing /\ c \in 1..Len(queue')
      BY <1>7, <1>10, <3>1, <3>2 DEF c
    <3>4. QED BY <1>10, <1>11, <3>2, <3>3, PositionIs
  <2>2. CASE ~Contains(old, playing)
    <3>1. playing = NoSong
      BY <1>5, <2>2
    <3>2. ~Contains(queue', playing)
      BY <1>10, <3>1, NoSongHasNoId DEF Contains
    <3>3. p = -1
      BY <1>6, <2>2, PositionType DEF p
    <3>4. QED BY <1>10, <1>11, <3>2, <3>3, PositionType
  <2>3. QED BY <2>1, <2>2
<1>15. QED BY <1>12, <1>13, <1>14

Placed ==
    \A h \in Handlers :
        (/\ advances = 0 /\ Alone(h)
         /\ pc[h] = "move" /\ reply[h].status = "none" /\ reply'[h].status = "OK")
        => \A i \in 1..appended[h] :
              Position(queue', Song(h, i)) = Position(queue', playing') + i

\* Alone, a request to add songs after the current one has MPD move all of them there.
THEOREM AddedAfterCurrent == Spec => PlacedNext
<1>1. Init => TracksInv
  BY InitInv, InitTrack DEF TracksInv
<1>2. TracksInv /\ [Next]_vars => TracksInv'
  BY NextTracks
<1>3. TracksInv /\ [Next]_vars => Placed
  BY MovedNext DEF Placed
<1>4. QED BY <1>1, <1>2, <1>3, PTL DEF Spec, PlacedNext, Placed
=============================================================================
