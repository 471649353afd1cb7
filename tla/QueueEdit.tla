----------------------------- MODULE QueueEdit -----------------------------
(***************************************************************************)
(* The edits of MPD's queue: add, add_and_play, add_after_current, remove, *)
(* clear, move_ and shuffle (crates/mpd-api/src/routes/queue.rs), play and *)
(* play_only (routes/playback.rs).  Each is a sequence of commands, every  *)
(* one of which waits for its turn on the command connection; other        *)
(* requests, the player and failures come in between.                      *)
(*                                                                         *)
(* The channel is first in, first out (CommandChannel!InOrder) and a       *)
(* request whose caller has given up may still be carried out (the         *)
(* outcome "unknown" of RequestReply).                                     *)
(***************************************************************************)
EXTENDS Integers, SequencesExt, Orders

CONSTANTS Handlers,
          Workloads,     \* what the handlers are asked for, a request each
          MaxOld,        \* bound on the queue the user starts with
          MaxFailures,   \* bound on failing commands
          MaxAdvances    \* bound on songs that end by themselves

User == "user"
ASSUME UserAssumption == User \notin Handlers

\* Who added a song, and as the how-manieth.  Ids stay with their songs, which here
\* are their own ids.
Ids == [by : Handlers \cup {User}, n : Nat \ {0}]

\* A request is [kind, targets].  Of a request that adds, a target is the number of
\* songs that match it; "each" sends its targets, which are commands, one by one;
\* and "none" is no request.
Adding == {"end", "after", "play", "only"}

ById == {"deleteid", "moveid", "playid"}

RouteCommand(cmd) ==
    /\ cmd.op \in ById \cup {"clear", "shuffle"}
    /\ cmd.op \in ById => cmd.a \in Ids
    /\ cmd.op = "moveid" => cmd.b \in Nat

IsRequest(r) ==
    /\ r.kind \in Adding \cup {"each", "none"}
    /\ r.targets # <<>> /\ r.targets \in Seq(Range(r.targets))
    /\ r.kind \in Adding => r.targets \in Seq(Nat)
    /\ r.kind = "only" => Len(r.targets) = 1
    /\ r.kind = "each" =>
           /\ \A i \in 1..Len(r.targets) : RouteCommand(r.targets[i])
           /\ Len(r.targets) > 1 => \A i \in 1..Len(r.targets) : r.targets[i].op = "deleteid"

ASSUME WorkloadsAssumption == \A w \in Workloads : \A h \in Handlers : IsRequest(w[h])
ASSUME BoundsAssumption == MaxOld \in Nat /\ MaxFailures \in Nat /\ MaxAdvances \in Nat

VARIABLES
    queue,     \* MPD's queue
    playing,   \* the current song, or NoSong
    channel,   \* commands sent and not yet carried out
    job, pc,   \* what h has been asked for, and the command it waits for
    reply,     \* the answer to that command
    result,    \* what h has answered
    oldLen, before, added, at, target,   \* h's local variables
    appended,  \* songs added for h so far (history)
    fulfilled, \* the targets they match (history)
    old,       \* the user's songs at the start (history)
    failures, advances

mpdVars   == <<queue, playing, appended, fulfilled>>
localVars == <<oldLen, before, added, at, target>>
bounds    == <<failures, advances>>
vars == <<mpdVars, channel, job, pc, reply, result, localVars, old, bounds>>

Song(who, n) == [by |-> who, n |-> n]
NoSong == Song("nobody", 0)
Songs(who, n) == [i \in 1..n |-> Song(who, i)]

None == [status |-> "none", len |-> 0, pos |-> -1]
Failed(s) == [status |-> s, len |-> 0, pos |-> -1]

Steps == {"begin", "each", "len", "before", "add", "after", "newlen", "undo", "drop",
          "move", "play", "done"}
Ops == {"status", "add", "delete", "move", "play", "clear", "shuffle"} \cup ById

\* The range of a delete is not reversed, that of a move not empty, and it moves back.
IsSent(cmd) ==
    /\ DOMAIN cmd = {"op", "a", "b", "c", "by", "awaited"}
    /\ cmd.by \in Handlers /\ cmd.awaited \in BOOLEAN /\ cmd.op \in Ops
    /\ cmd.op = "add" => cmd.a \in Nat
    /\ cmd.op = "delete" => cmd.a \in Nat /\ cmd.b \in Nat /\ cmd.a <= cmd.b
    /\ cmd.op = "move" => /\ cmd.a \in Nat /\ cmd.b \in Nat /\ cmd.c \in Nat
                          /\ cmd.c < cmd.a /\ cmd.a < cmd.b
    /\ cmd.op \in ById => cmd.a \in Ids
    /\ cmd.op = "moveid" => cmd.b \in Nat

QueueType ==
    /\ queue \in Seq(Ids) /\ IsInjective(queue)
    /\ \A i \in 1..Len(queue) :
          queue[i].n <= IF queue[i].by = User THEN Len(old) ELSE appended[queue[i].by]
    /\ playing = NoSong \/ Contains(queue, playing)
    /\ appended \in [Handlers -> Nat] /\ fulfilled \in [Handlers -> Seq(Nat)]

OldType == Len(old) \in 0..MaxOld /\ old = Songs(User, Len(old))

ChannelType == channel \in Seq(Range(channel)) /\ \A i \in 1..Len(channel) : IsSent(channel[i])

Replies == [status : {"none", "OK", "ACK", "lost"}, len : Nat, pos : Nat \cup {-1}]

HandlerType ==
    /\ job \in Workloads /\ pc \in [Handlers -> Steps]
    /\ reply \in [Handlers -> Replies] /\ result \in [Handlers -> {"none", "ok", "error"}]
    /\ oldLen \in [Handlers -> Nat] /\ before \in [Handlers -> Nat]
    /\ added \in [Handlers -> Nat] /\ at \in [Handlers -> Nat]
    /\ target \in [Handlers -> Nat] /\ \A h \in Handlers : target[h] \in 1..Len(job[h].targets)

BoundsType == failures \in 0..MaxFailures /\ advances \in 0..MaxAdvances

TypeOK == QueueType /\ OldType /\ ChannelType /\ HandlerType /\ BoundsType

Init ==
    /\ \E n \in 0..MaxOld :
          /\ old = Songs(User, n) /\ queue = Songs(User, n)
          /\ playing \in {NoSong} \cup {Song(User, i) : i \in 1..n}
    /\ channel = <<>>
    /\ job \in Workloads
    /\ pc = [h \in Handlers |-> IF job[h].kind = "none" THEN "done" ELSE "begin"]
    /\ reply = [h \in Handlers |-> None]
    /\ result = [h \in Handlers |-> "none"]
    /\ oldLen = [h \in Handlers |-> 0] /\ before = [h \in Handlers |-> 0]
    /\ added = [h \in Handlers |-> 0] /\ at = [h \in Handlers |-> 0]
    /\ target = [h \in Handlers |-> 1]
    /\ appended = [h \in Handlers |-> 0] /\ fulfilled = [h \in Handlers |-> <<>>]
    /\ failures = 0 /\ advances = 0

-----------------------------------------------------------------------------
(* MPD's commands.  Positions count from 0; ranges exclude their end.      *)

Slice(s, from, to) == SubSeq(s, from + 1, to)

StatusCmd       == [op |-> "status", a |-> 0, b |-> 0, c |-> 0]
AddCmd(n)       == [op |-> "add", a |-> n, b |-> 0, c |-> 0]
DeleteCmd(s, e) == [op |-> "delete", a |-> s, b |-> e, c |-> 0]
MoveCmd(s, e, p) == [op |-> "move", a |-> s, b |-> e, c |-> p]
PlayCmd         == [op |-> "play", a |-> 0, b |-> 0, c |-> 0]

DeleteIdCmd(song)  == [op |-> "deleteid", a |-> song, b |-> 0, c |-> 0]
MoveIdCmd(song, to) == [op |-> "moveid", a |-> song, b |-> to, c |-> 0]
PlayIdCmd(song)    == [op |-> "playid", a |-> song, b |-> 0, c |-> 0]
ClearCmd           == [op |-> "clear", a |-> 0, b |-> 0, c |-> 0]
ShuffleCmd         == [op |-> "shuffle", a |-> 0, b |-> 0, c |-> 0]

Refuses(cmd) ==
    LET n == Len(queue) IN
    CASE cmd.op = "delete" -> cmd.a > n
      [] cmd.op = "move"   -> \/ cmd.a >= n \/ cmd.b > n
                              \/ cmd.c > n - (cmd.b - cmd.a)
      [] cmd.op = "play"   -> n = 0
      [] cmd.op \in {"deleteid", "playid"} -> ~Contains(queue, cmd.a)
      [] cmd.op = "moveid" -> ~Contains(queue, cmd.a) \/ cmd.b >= n
      [] OTHER             -> FALSE

Without(song) == RemoveFirst(queue, song)
Fresh(h, n) == [i \in 1..n |-> Song(h, appended[h] + i)]

Orderings == {q \in [1..Len(queue) -> Range(queue)] : IsInjective(q)}

\* What the queue may become.
Becomes(cmd, h) ==
    LET n == Len(queue)
        end == IF cmd.b <= n THEN cmd.b ELSE n
        rest == Slice(queue, 0, cmd.a) \o Slice(queue, end, n)
    IN  CASE cmd.op = "add"    -> {queue \o Fresh(h, cmd.a)}
          [] cmd.op = "delete" -> {rest}
          [] cmd.op = "move"   -> {Slice(rest, 0, cmd.c) \o Slice(queue, cmd.a, cmd.b)
                                       \o Slice(rest, cmd.c, Len(rest))}
          [] cmd.op = "deleteid" -> {Without(cmd.a)}
          [] cmd.op = "moveid"   -> {InsertAt(Without(cmd.a), cmd.b + 1, cmd.a)}
          [] cmd.op = "clear"    -> {<<>>}
          [] cmd.op = "shuffle"  -> Orderings
          [] OTHER               -> {queue}

Position(q, song) == IF Contains(q, song) THEN SelectInSeq(q, LAMBDA x : x = song) - 1 ELSE -1

\* When the current song is deleted the next one that is left plays, if any.
PlayingAfter(cmd, q) ==
    LET from == IF cmd.op = "delete" THEN cmd.a ELSE Position(queue, playing) IN
    IF cmd.op = "play" THEN q[1]
    ELSE IF cmd.op = "playid" THEN cmd.a
    ELSE IF playing = NoSong \/ Contains(q, playing) THEN playing
    ELSE IF from < Len(q) THEN q[from + 1] ELSE NoSong

Answer(h, r) ==
    /\ reply' = IF reply[h].status = "none" /\ Head(channel).awaited
                THEN [reply EXCEPT ![h] = r] ELSE reply
    /\ channel' = Tail(channel)

\* MPD carries out the oldest command.
Execute ==
    /\ channel # <<>>
    /\ LET cmd == Head(channel)
           h == cmd.by
       IN  IF Refuses(cmd)
           THEN Answer(h, Failed("ACK")) /\ UNCHANGED mpdVars
           ELSE /\ queue' \in Becomes(cmd, h)
                /\ playing' = PlayingAfter(cmd, queue')
                /\ IF cmd.op = "add"
                   THEN /\ appended' = [appended EXCEPT ![h] = @ + cmd.a]
                        /\ fulfilled' = [fulfilled EXCEPT ![h] = Append(@, cmd.a)]
                   ELSE UNCHANGED <<appended, fulfilled>>
                /\ Answer(h, [status |-> "OK", len |-> Len(queue),
                              pos |-> Position(queue, playing)])
    /\ UNCHANGED <<job, pc, result, localVars, old, bounds>>

\* MPD cannot add a target (it is gone from the database, the queue is full).
RefuseAdd ==
    /\ channel # <<>> /\ Head(channel).op = "add"
    /\ failures < MaxFailures
    /\ failures' = failures + 1
    /\ Answer(Head(channel).by, Failed("ACK"))
    /\ UNCHANGED <<mpdVars, job, pc, result, localVars, old, advances>>

\* The connection is lost with the command in flight, before it is carried out.
LoseCommand ==
    /\ channel # <<>>
    /\ failures < MaxFailures
    /\ failures' = failures + 1
    /\ Answer(Head(channel).by, Failed("lost"))
    /\ UNCHANGED <<mpdVars, job, pc, result, localVars, old, advances>>

\* h gives up on its command, which stays in the channel; or the connection is
\* lost between the command and its answer.
GiveUp(h) ==
    /\ pc[h] \notin {"begin", "done"}
    /\ reply[h].status \in {"none", "OK"}
    /\ failures < MaxFailures
    /\ failures' = failures + 1
    /\ reply' = [reply EXCEPT ![h] = Failed("lost")]
    /\ channel' = [i \in DOMAIN channel |->
                      IF channel[i].by = h THEN [channel[i] EXCEPT !.awaited = FALSE]
                      ELSE channel[i]]
    /\ UNCHANGED <<mpdVars, job, pc, result, localVars, old, advances>>

\* A song ends and the next one plays.
Advance ==
    /\ playing # NoSong
    /\ advances < MaxAdvances
    /\ advances' = advances + 1
    /\ LET p == Position(queue, playing) IN
       playing' = IF p + 1 < Len(queue) THEN queue[p + 2] ELSE NoSong
    /\ UNCHANGED <<queue, appended, fulfilled, channel, job, pc, reply, result, localVars, old, failures>>

-----------------------------------------------------------------------------
(* The handlers.  A step takes the answer to one command and sends the     *)
(* next; `?` on a failed one ends the request with an error.               *)

Send(h, step, cmd) ==
    /\ pc' = [pc EXCEPT ![h] = step]
    /\ channel' = Append(channel, [op |-> cmd.op, a |-> cmd.a, b |-> cmd.b, c |-> cmd.c,
                                   by |-> h, awaited |-> TRUE])
    /\ reply' = [reply EXCEPT ![h] = None]
    /\ UNCHANGED result

Finish(h, res) ==
    /\ pc' = [pc EXCEPT ![h] = "done"]
    /\ result' = [result EXCEPT ![h] = res]
    /\ reply' = [reply EXCEPT ![h] = None]
    /\ UNCHANGED channel

Told(h, step) == pc[h] = step /\ reply[h].status = "OK"
Kind(h) == job[h].kind
SendAdd(h, i) == Send(h, "add", AddCmd(job[h].targets[i]))
Minus(x, y) == IF x > y THEN x - y ELSE 0
handlerRest == <<mpdVars, job, old, bounds>>

\* The targets are validated, the song to be played is looked up: reads, and the
\* request may end here.
Begin(h) ==
    /\ pc[h] = "begin"
    /\ \/ CASE Kind(h) = "end"  -> SendAdd(h, 1)
            [] Kind(h) = "each" -> Send(h, "each", job[h].targets[1])
            [] OTHER            -> Send(h, "len", StatusCmd)
       \/ Kind(h) \in {"after", "play", "only"} /\ Finish(h, "error")
    /\ UNCHANGED <<localVars, handlerRest>>

\* Mutant: the songs go in front of the current one.
GotLenAtCurrent(h) ==
    /\ Told(h, "len")
    /\ oldLen' = [oldLen EXCEPT ![h] = reply[h].len]
    /\ at' = [at EXCEPT ![h] = IF reply[h].pos >= 0 THEN reply[h].pos ELSE 0]
    /\ IF Kind(h) = "play" THEN Send(h, "before", StatusCmd) ELSE SendAdd(h, 1)
    /\ UNCHANGED <<before, added, target, handlerRest>>

GotLen(h) ==
    /\ Told(h, "len")
    /\ oldLen' = [oldLen EXCEPT ![h] = reply[h].len]
    /\ at' = [at EXCEPT ![h] = reply[h].pos + 1]
    /\ IF Kind(h) = "play" THEN Send(h, "before", StatusCmd) ELSE SendAdd(h, 1)
    /\ UNCHANGED <<before, added, target, handlerRest>>

\* add_and_play, in its loop over the targets
GotBefore(h) ==
    /\ Told(h, "before")
    /\ before' = [before EXCEPT ![h] = reply[h].len]
    /\ SendAdd(h, target[h])
    /\ UNCHANGED <<oldLen, added, at, target, handlerRest>>

MoreTargets(h) == target[h] < Len(job[h].targets)

Added(h) ==
    /\ Told(h, "add")
    /\ IF Kind(h) = "play" THEN Send(h, "after", StatusCmd) /\ UNCHANGED target
       ELSE IF MoreTargets(h)
       THEN target' = [target EXCEPT ![h] = @ + 1] /\ SendAdd(h, target[h] + 1)
       ELSE /\ IF Kind(h) = "end" THEN Finish(h, "ok") ELSE Send(h, "newlen", StatusCmd)
            /\ UNCHANGED target
    /\ UNCHANGED <<oldLen, before, added, at, handlerRest>>

\* The old prefix goes, then the new songs play; without one they just play.
DropOld(h) ==
    IF oldLen[h] > 0 THEN Send(h, "drop", DeleteCmd(0, oldLen[h])) ELSE Send(h, "play", PlayCmd)

\* Mutant: the loop over the targets goes on after the last one.
GotAfterTooFar(h) ==
    /\ Told(h, "after")
    /\ LET total == added[h] + Minus(reply[h].len, before[h]) IN
          /\ added' = [added EXCEPT ![h] = total]
          /\ IF MoreTargets(h) THEN Send(h, "before", StatusCmd)
             ELSE IF total = 0 THEN Finish(h, "error")
             ELSE DropOld(h)
    /\ target' = [target EXCEPT ![h] = @ + 1]
    /\ UNCHANGED <<oldLen, before, at, handlerRest>>

GotAfter(h) ==
    /\ Told(h, "after")
    /\ LET total == added[h] + Minus(reply[h].len, before[h]) IN
          /\ added' = [added EXCEPT ![h] = total]
          /\ IF MoreTargets(h) THEN Send(h, "before", StatusCmd)
             ELSE IF total = 0 THEN Finish(h, "error")
             ELSE DropOld(h)
    /\ target' = IF MoreTargets(h) THEN [target EXCEPT ![h] = @ + 1] ELSE target
    /\ UNCHANGED <<oldLen, before, at, handlerRest>>

\* Mutant: a failed request clears what is not its own away.
UndoFromTop(h) ==
    /\ pc[h] = "add" /\ reply[h].status \in {"ACK", "lost"}
    /\ IF Kind(h) = "play" /\ added[h] > 0
       THEN Send(h, "undo", DeleteCmd(0, added[h]))
       ELSE Finish(h, "error")
    /\ UNCHANGED <<localVars, handlerRest>>

\* Compensation of add_and_play; the other requests leave what they have added.
AddFailed(h) ==
    /\ pc[h] = "add" /\ reply[h].status \in {"ACK", "lost"}
    /\ IF Kind(h) = "play" /\ added[h] > 0
       THEN Send(h, "undo", DeleteCmd(oldLen[h], oldLen[h] + added[h]))
       ELSE Finish(h, "error")
    /\ UNCHANGED <<localVars, handlerRest>>

\* Mutant: play_only trusts that the song has been added.
GotNewLenUnchecked(h) ==
    /\ Told(h, "newlen")
    /\ IF Kind(h) = "only" THEN DropOld(h)
       ELSE IF reply[h].len <= oldLen[h] THEN Finish(h, "error")
       ELSE IF at[h] < oldLen[h]
       THEN Send(h, "move", MoveCmd(oldLen[h], reply[h].len, at[h]))
       ELSE Finish(h, "ok")
    /\ UNCHANGED <<localVars, handlerRest>>

\* add_after_current and play_only
GotNewLen(h) ==
    /\ Told(h, "newlen")
    /\ IF reply[h].len <= oldLen[h] THEN Finish(h, "error")
       ELSE IF Kind(h) = "only" THEN DropOld(h)
       ELSE IF at[h] < oldLen[h]
       THEN Send(h, "move", MoveCmd(oldLen[h], reply[h].len, at[h]))
       ELSE Finish(h, "ok")
    /\ UNCHANGED <<localVars, handlerRest>>

\* Mutant: a command that fails does not keep the next ones from being sent.
EachDoneOrFailed(h) ==
    /\ pc[h] = "each" /\ reply[h].status # "none"
    /\ IF MoreTargets(h)
       THEN target' = [target EXCEPT ![h] = @ + 1] /\ Send(h, "each", job[h].targets[target[h] + 1])
       ELSE Finish(h, "ok") /\ UNCHANGED target
    /\ UNCHANGED <<oldLen, before, added, at, handlerRest>>

\* The loop of delete_ids; the other routes send one command.
EachDone(h) ==
    /\ Told(h, "each")
    /\ IF MoreTargets(h)
       THEN target' = [target EXCEPT ![h] = @ + 1] /\ Send(h, "each", job[h].targets[target[h] + 1])
       ELSE Finish(h, "ok") /\ UNCHANGED target
    /\ UNCHANGED <<oldLen, before, added, at, handlerRest>>

Dropped(h) ==
    /\ Told(h, "drop")
    /\ Send(h, "play", PlayCmd)
    /\ UNCHANGED <<localVars, handlerRest>>

Done(h) ==
    /\ Told(h, "play") \/ Told(h, "move")
    /\ Finish(h, "ok")
    /\ UNCHANGED <<localVars, handlerRest>>

\* The result of the compensation is ignored; any other failure is returned.
Fails(h) ==
    /\ \/ pc[h] = "undo" /\ reply[h].status # "none"
       \/ pc[h] # "add" /\ reply[h].status \in {"ACK", "lost"}
    /\ Finish(h, "error")
    /\ UNCHANGED <<localVars, handlerRest>>

Handler(h) == \/ Begin(h) \/ GotLen(h) \/ GotBefore(h) \/ Added(h) \/ GotAfter(h)
              \/ AddFailed(h) \/ GotNewLen(h) \/ EachDone(h) \/ Dropped(h) \/ Done(h) \/ Fails(h)

Next == \/ Execute \/ RefuseAdd \/ LoseCommand \/ Advance
        \/ \E h \in Handlers : Handler(h) \/ GiveUp(h)

Spec == Init /\ [][Next]_vars

-----------------------------------------------------------------------------
(* The mock server the tests use in MPD's place (crates/mpd-mock), of whose *)
(* commands by position the comments say that they mirror MPD's.  It takes *)
(* an id for a position (deleteid, moveid), which MPD does not.            *)

Mirrored == {"add", "delete", "move", "clear", "play"}
Clamped(x, n) == IF x <= n THEN x ELSE n

\* Mutant: the end of the range is included.
RemoveRangeInclusive(q, start, end) ==
    IF start < Clamped(end + 1, Len(q))
    THEN Slice(q, 0, start) \o Slice(q, Clamped(end + 1, Len(q)), Len(q)) ELSE q

\* remove_range
RemoveRange(q, start, end) ==
    IF start < Clamped(end, Len(q))
    THEN Slice(q, 0, start) \o Slice(q, Clamped(end, Len(q)), Len(q)) ELSE q

MockRefuses(cmd) ==
    LET n == Len(queue)
        count == Minus(cmd.b, cmd.a)
    IN  cmd.op = "move" /\ ((count > 0 /\ cmd.c > Minus(n, count)) \/ cmd.a >= n \/ cmd.b > n)

\* drain and splice
MockMove(q, start, end, pos) ==
    LET drained == RemoveRange(q, start, end)
    IN  IF start < end
        THEN Slice(drained, 0, pos) \o Slice(q, start, end) \o Slice(drained, pos, Len(drained))
        ELSE q

MockQueue(cmd, h) ==
    CASE cmd.op = "add"    -> queue \o Fresh(h, cmd.a)
      [] cmd.op = "delete" -> RemoveRange(queue, cmd.a, cmd.b)
      [] cmd.op = "move"   -> MockMove(queue, cmd.a, cmd.b, cmd.c)
      [] cmd.op = "clear"  -> <<>>
      [] OTHER             -> queue

-----------------------------------------------------------------------------
(* Properties.                                                             *)

Alone(h) == \A g \in Handlers \ {h} : Kind(g) = "none"

\* The user's songs are those they were, in their order.
UsersKept ==
    \A i, j \in 1..Len(old) :
        /\ Contains(queue', old[i]) <=> Contains(queue, old[i])
        /\ Before(queue', old[i], old[j]) <=> Before(queue, old[i], old[j])

\* A request that may put songs in front of others, next to one that has noted where
\* its own songs are.
Moves(h) == \/ Kind(h) = "after"
            \/ Kind(h) = "each" /\ job[h].targets[1].op \in {"moveid", "shuffle"}
Displaced == \E g, h \in Handlers : g # h /\ Moves(g) /\ Kind(h) \in {"after", "play"}

\* "Appending first means a failure mid-add only requires deleting the songs this
\* request appended, leaving the caller's old queue intact" (queue.rs:40-42): until
\* all the new songs are there and replace it, whatever fails, is refused, is
\* answered late or is carried out after its request was given up, the user's
\* songs stay, and stay in order, unless another request is there to change them or
\* to move songs while positions are in use.
OldQueueIntact ==
    [][\/ UsersKept
       \/ Displaced
       \/ LET cmd == Head(channel) IN
          \/ Kind(cmd.by) = "each"
          \/ cmd.op = "delete" /\ fulfilled[cmd.by] = job[cmd.by].targets]_vars

\* A replacing request that succeeds leaves exactly its songs, in the order of its
\* targets, with the first of them playing until it ends; and "a failure mid-flight
\* leaves the caller's queue intact (plus the appended song), never an empty queue"
\* (playback.rs:33-37).
NeverEmpty == old # <<>> => queue # <<>>
ReplacesExactly ==
    \A h \in Handlers :
        (Alone(h) /\ Kind(h) \in {"play", "only"}) =>
            /\ NeverEmpty
            /\ result[h] = "ok" => /\ queue = Songs(h, appended[h])
                                   /\ fulfilled[h] = job[h].targets
            /\ (result[h] = "ok" /\ advances = 0) => playing = Song(h, 1)

\* "Append targets and move them right after the currently playing song so they
\* play before the rest of the queue" (queue.rs:83-85): whatever has failed on the
\* way, as long as the player has not gone on to another song since the status
\* the position was computed from.
PlacedNext ==
    [][\A h \in Handlers :
          (/\ advances = 0 /\ Alone(h)
           /\ pc[h] = "move" /\ reply[h].status = "none" /\ reply'[h].status = "OK")
          => \A i \in 1..appended[h] :
                Position(queue', Song(h, i)) = Position(queue', playing') + i]_vars

\* A request to remove songs takes them in its order and none after one that could
\* not be removed (client.rs:384, `?` in the loop), and when it succeeds all of them
\* are gone, whatever other requests have done to their positions meanwhile.
RemovesInOrder ==
    \A h \in Handlers :
        LET ts == job[h].targets
            present(i) == Contains(queue, ts[i].a)
            removed(i) == Contains(old, ts[i].a) /\ ~present(i)
        IN  (Kind(h) = "each" /\ ts[1].op = "deleteid") =>
                /\ result[h] = "ok" => ~\E i \in DOMAIN ts : present(i)
                /\ Alone(h) => \A j \in DOMAIN ts :
                       removed(j) => \/ \A i \in 1..j : removed(i)
                                     \/ \E i \in 1..(j - 1) : ts[i].a = ts[j].a

\* What the mock makes of a command by position is what MPD makes of it, and one
\* that MPD refuses changes nothing there either: so the tests of these requests
\* speak of MPD ("Mirrors MPD's playlist::DeleteRange", mpd-mock/src/lib.rs:778).
MockMirrorsMpd ==
    channel # <<>> /\ Head(channel).op \in Mirrored =>
        LET cmd == Head(channel) IN
        IF Refuses(cmd) THEN MockRefuses(cmd) \/ MockQueue(cmd, cmd.by) = queue
        ELSE ~MockRefuses(cmd) /\ MockQueue(cmd, cmd.by) \in Becomes(cmd, cmd.by)
=============================================================================
