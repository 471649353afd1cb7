---------------------------- MODULE StatusStream ----------------------------
(***************************************************************************)
(* How a change of MPD's state reaches the browsers: the idle connection   *)
(* (idle_session, handle_change), the snapshot a (re)connected command     *)
(* session primes, the refresh a mutating HTTP route pushes, the watch and *)
(* broadcast channels, and the WebSocket handler (ws.rs).                  *)
(*                                                                         *)
(* MPD's player state is a version; a snapshot is the pair of versions its *)
(* `status` and `currentsong` were read at, two commands one after the     *)
(* other on the serialized command connection.  Every task that fetches    *)
(* one is a Fetcher.                                                       *)
(***************************************************************************)
EXTENDS Integers, Sequences

CONSTANTS Handlers,      \* HTTP handlers of the mutating routes
          Subscribers,   \* WebSockets
          OthersAct,     \* whether MPD's state also changes on its own account
          Holding,       \* what MPD may do with a change made while the idle connection
                         \* is busy: hold it back for the next `idle` (TRUE) or drop it
          Capacity,      \* of the broadcast channel (128 in the code)
          MaxChanges,    \* bound on the changes of MPD's state
          MaxFaults,     \* bound on connection losses and on reads that time out or
                         \* that MPD refuses
          MaxLines       \* bound on the `changed:` lines of one batch

ASSUME OthersActAssumption == OthersAct \in BOOLEAN
ASSUME HoldingAssumption == Holding \subseteq BOOLEAN /\ Holding # {}
ASSUME BoundsAssumption ==
    /\ Capacity \in Nat \ {0} /\ MaxLines \in Nat \ {0}
    /\ MaxChanges \in Nat /\ MaxFaults \in Nat

Publishers == Handlers \cup {"idle", "session"}
Fetchers == Publishers \cup Subscribers

ASSUME FetchersAssumption ==
    /\ Handlers \cap Subscribers = {}
    /\ {"idle", "session"} \cap (Handlers \cup Subscribers) = {}

VARIABLES
    player,     \* version of MPD's player state
    idle,       \* the idle connection: "down", "armed" (awaiting idle), "batch"
                \* (its reply is being read) or "cut" (lost, not yet noticed)
    lines,      \* `changed:` lines of the batch still to be handled
    flagged,    \* whether MPD holds a change back for the next `idle`
    pc,         \* pc[f]: "off", reading "status" or "song", or "ready"
    snap,       \* snap[f]: what fetcher f has read
    watch,      \* the watch channel: what MpdClient::snapshot returns
    live,       \* live[s]: whether WebSocket s has had its first message
    shown,      \* shown[s]: the last snapshot sent to s
    inbox,      \* inbox[s]: unread snapshots of s's broadcast receiver
    faults,     \* such faults so far (bounds the model)
    uncached,   \* whether MPD's state is one that nobody will read for the cache
                \* (history)
    news,       \* MPD's state, as far as the browsers are concerned: "shown" by the last
                \* snapshot broadcast, "coming", or "lost" to one of them (history)
    floor       \* floor[s]: MPD's version when s connected (history)

idleVars  == <<idle, lines, flagged>>
fetchVars == <<pc, snap>>
subVars   == <<live, shown, inbox>>
vars == <<player, idleVars, fetchVars, watch, subVars, faults, uncached, news, floor>>

Versions == 0..(1 + MaxChanges)   \* 0: Snapshot::default()
Refused == -1                     \* also the default: an ACK, parsed as if it were OK
Parts == Versions \cup {Refused}
Snapshots == [status : Parts, song : Parts]
At(v) == [status |-> v, song |-> v]

TypeOK ==
    /\ player \in Versions
    /\ idle \in {"down", "armed", "batch", "cut"}
    /\ lines \in 0..MaxLines
    /\ flagged \in BOOLEAN
    /\ pc \in [Fetchers -> {"off", "status", "song", "ready"}]
    /\ snap \in [Fetchers -> Snapshots]
    /\ watch \in Snapshots
    /\ live \in [Subscribers -> BOOLEAN]
    /\ shown \in [Subscribers -> Snapshots]
    /\ inbox \in [Subscribers -> Seq(Snapshots)]
    /\ \A s \in Subscribers : Len(inbox[s]) <= Capacity
    /\ faults \in 0..MaxFaults
    /\ uncached \in BOOLEAN
    /\ news \in {"shown", "coming", "lost"}
    /\ floor \in [Subscribers -> Versions]

\* MpdClient::connect spawns the command loop and the idle loop.
Init ==
    /\ player = 1
    /\ idle = "down" /\ lines = 0 /\ flagged = FALSE
    /\ pc = [f \in Fetchers |-> IF f = "session" THEN "status" ELSE "off"]
    /\ snap = [f \in Fetchers |-> At(0)]
    /\ watch = At(0)
    /\ live = [s \in Subscribers |-> FALSE]
    /\ shown = [s \in Subscribers |-> At(0)]
    /\ inbox = [s \in Subscribers |-> <<>>]
    /\ faults = 0
    /\ uncached = FALSE /\ news = "coming"
    /\ floor = [s \in Subscribers |-> 0]

-----------------------------------------------------------------------------
(* What becomes of MPD's present state (history).                          *)

\* x is MPD's present state, as far as MPD has told it.
Fits(x) == {x.status, x.song} \subseteq {player, Refused}

\* f has read MPD's present state, or will.
Reads(f) == \/ pc[f] = "status"
            \/ pc[f] = "song" /\ snap[f].status \in {player, Refused}
            \/ pc[f] = "ready" /\ Fits(snap[f])

\* Somebody will publish it.
ForBrowsers == flagged \/ lines > 0 \/ \E f \in Publishers : Reads(f)

\* It will be cached, and not be overwritten by what the other of the two tasks that
\* feed the cache has read before.
ForCache ==
    \/ flagged \/ lines > 0
    \/ IF pc["idle"] = "off" THEN Reads("session")
       ELSE Reads("idle") /\ (pc["idle"] = "status" \/ pc["session"] = "off" \/ Reads("session"))

\* After a change.
Noted == /\ uncached' = ~ForCache'
         /\ news' = IF ForBrowsers' THEN "coming" ELSE "lost"

\* After one of those who would have published it has failed.
Dropped == news' = IF news = "coming" /\ ~ForBrowsers' THEN "lost" ELSE news

-----------------------------------------------------------------------------
(* MPD.                                                                    *)

\* A new state: an awaiting idle connection is told at once.  One that is reading a
\* batch is told at its next `idle`, as by the tests' mock, or never, as
\* MpdClient::refresh has it.
Change ==
    /\ player <= MaxChanges
    /\ player' = player + 1
    /\ IF idle = "armed"
       THEN idle' = "batch" /\ lines' \in 1..MaxLines /\ UNCHANGED flagged
       ELSE /\ \E held \in Holding : flagged' = (flagged \/ (idle = "batch" /\ held))
            /\ UNCHANGED <<idle, lines>>

\* The player moves on, another MPD client acts, or one of the routes does that
\* push no snapshot of their own (routes/queue.rs).
OtherChange ==
    /\ OthersAct
    /\ Change
    /\ UNCHANGED <<fetchVars, watch, subVars, faults, floor>>
    /\ Noted

\* A session that primes its snapshot serves nobody else meanwhile.
MayRead(f) == f = "session" \/ pc["session"] = "off"

\* MPD executes a handler's mutating command; the handler goes on to refresh().
Mutate(h) ==
    /\ pc[h] = "off" /\ MayRead(h)
    /\ Change
    /\ pc' = [pc EXCEPT ![h] = "status"]
    /\ UNCHANGED <<snap, watch, subVars, faults, floor>>
    /\ Noted

\* What f takes MPD to have answered: only the client's `cmd` looks for an ACK.
Answered(f, v) ==
    \/ v = player /\ UNCHANGED faults
    \/ /\ v = Refused /\ f \in {"idle", "session"}
       /\ faults < MaxFaults /\ faults' = faults + 1

ReadStatus(f) ==
    /\ pc[f] = "status" /\ MayRead(f)
    /\ \E v \in {player, Refused} :
          Answered(f, v) /\ snap' = [snap EXCEPT ![f].status = v]
    /\ pc' = [pc EXCEPT ![f] = "song"]
    /\ UNCHANGED <<player, idleVars, watch, subVars, uncached, news, floor>>

ReadSong(f) ==
    /\ pc[f] = "song" /\ MayRead(f)
    /\ \E v \in {player, Refused} :
          Answered(f, v) /\ snap' = [snap EXCEPT ![f].song = v]
    /\ pc' = [pc EXCEPT ![f] = "ready"]
    /\ UNCHANGED <<player, idleVars, watch, subVars, uncached, news, floor>>

\* The fetch of f is over; what it has read is dropped.
Over(f) == pc' = [pc EXCEPT ![f] = "off"] /\ snap' = [snap EXCEPT ![f] = At(0)]

Subscribed(s) == live[s] \/ pc[s] # "off"

\* A broadcast send: a receiver that is Capacity behind loses the oldest event,
\* and `Err(Lagged)` makes the WebSocket handler go on with the next.
Deliver(x) ==
    inbox' = [s \in Subscribers |->
                 IF ~Subscribed(s) THEN inbox[s]
                 ELSE IF Len(inbox[s]) < Capacity THEN Append(inbox[s], x)
                 ELSE Append(Tail(inbox[s]), x)]

\* Mutant: the idle loop broadcasts its snapshot and does not cache it.
PublishUncached(f) ==
    /\ pc[f] = "ready"
    /\ Over(f) /\ UNCHANGED <<player, idleVars>>
    /\ Deliver(snap[f])
    /\ watch' = IF f = "session" THEN snap[f] ELSE watch
    /\ news' = IF Fits(snap[f]) THEN "shown" ELSE IF ForBrowsers' THEN "coming" ELSE "lost"
    /\ UNCHANGED <<live, shown, faults, uncached, floor>>

\* Only the idle loop and a priming session also feed the watch channel.
Publish(f) ==
    /\ pc[f] = "ready"
    /\ Over(f) /\ UNCHANGED <<player, idleVars>>
    /\ Deliver(snap[f])
    /\ watch' = IF f \in {"idle", "session"} THEN snap[f] ELSE watch
    /\ news' = IF Fits(snap[f]) THEN "shown" ELSE IF ForBrowsers' THEN "coming" ELSE "lost"
    /\ UNCHANGED <<live, shown, faults, uncached, floor>>

\* A handler's read times out or is refused; it ignores the failure of its refresh.
RefreshFails(h) ==
    /\ pc[h] \in {"status", "song"}
    /\ faults < MaxFaults
    /\ faults' = faults + 1
    /\ Over(h)
    /\ UNCHANGED <<player, idleVars, watch, subVars, uncached, floor>>
    /\ Dropped

\* The command connection is lost, and with it at most one read of a fetcher that
\* publishes; the next session primes again.
CommandLost ==
    /\ faults < MaxFaults
    /\ faults' = faults + 1
    /\ \E failed \in Publishers :
          /\ pc[failed] # "ready" \/ failed = "session"
          /\ pc' = [pc EXCEPT ![failed] = "off", !["session"] = "status"]
          /\ snap' = [snap EXCEPT ![failed] = At(0), !["session"] = At(0)]
    /\ UNCHANGED <<player, idleVars, watch, subVars, floor>>
    /\ uncached' = (uncached /\ ~ForCache')
    /\ news' = IF news = "lost" THEN "coming" ELSE news

-----------------------------------------------------------------------------
(* The idle connection.                                                    *)

IdleConnect ==
    /\ idle = "down"
    /\ idle' = "armed"
    /\ UNCHANGED <<player, lines, flagged, fetchVars, watch, subVars, faults, uncached, news, floor>>

\* handle_change: fetch a snapshot, and read no further until it is published.
HandleLine ==
    /\ lines > 0
    /\ pc["idle"] = "off"
    /\ lines' = lines - 1
    /\ pc' = [pc EXCEPT !["idle"] = "status"]
    /\ UNCHANGED <<player, idle, flagged, snap, watch, subVars, faults, uncached, news, floor>>

\* Mutant: the batch's OK is not recognised (a line that is not cleared).
RearmNever ==
    /\ idle = "cut" /\ lines = 0 /\ pc["idle"] = "off"
    /\ idle' = "down"
    /\ UNCHANGED <<player, lines, flagged, fetchVars, watch, subVars, faults, uncached, news, floor>>

\* The batch's OK: `idle` is sent again; a change MPD held back is in its reply.
\* On a lost connection the read fails instead and the session ends.
Rearm ==
    /\ idle \in {"batch", "cut"} /\ lines = 0 /\ pc["idle"] = "off"
    /\ IF idle = "cut" THEN idle' = "down" /\ UNCHANGED <<lines, flagged>>
       ELSE IF flagged
       THEN idle' = "batch" /\ lines' \in 1..MaxLines /\ flagged' = FALSE
       ELSE idle' = "armed" /\ UNCHANGED <<lines, flagged>>
    /\ UNCHANGED <<player, fetchVars, watch, subVars, faults, uncached, news, floor>>

\* What MPD has sent may still be read; what it held back is gone.
IdleLost ==
    /\ idle \in {"armed", "batch"}
    /\ faults < MaxFaults
    /\ faults' = faults + 1
    /\ idle' = "cut"
    /\ lines' \in {0, lines}
    /\ flagged' = FALSE
    /\ UNCHANGED <<player, fetchVars, watch, subVars, floor>>
    /\ uncached' = (uncached \/ ((flagged \/ lines' # lines) /\ ~ForCache'))
    /\ Dropped

-----------------------------------------------------------------------------
(* WebSockets: handle_socket.                                              *)

Subscribe(s) ==
    /\ ~Subscribed(s)
    /\ pc' = [pc EXCEPT ![s] = "status"]
    /\ floor' = [floor EXCEPT ![s] = player]
    /\ UNCHANGED <<player, idleVars, snap, watch, subVars, faults, uncached, news>>

Show(s, x) ==
    /\ shown' = [shown EXCEPT ![s] = x]
    /\ live' = [live EXCEPT ![s] = TRUE]

\* Mutant: the first message is the cached snapshot.
ShowCached(s) ==
    /\ pc[s] = "ready"
    /\ Show(s, watch)
    /\ Over(s)
    /\ UNCHANGED <<player, idleVars, watch, inbox, faults, uncached, news, floor>>

ShowFirst(s) ==
    /\ pc[s] = "ready"
    /\ Show(s, snap[s])
    /\ Over(s)
    /\ UNCHANGED <<player, idleVars, watch, inbox, faults, uncached, news, floor>>

\* The fresh snapshot cannot be had: the cached one is sent, which nothing more recent
\* need follow.
FallBack(s) ==
    /\ pc[s] \in {"status", "song"}
    /\ faults < MaxFaults
    /\ faults' = faults + 1
    /\ Show(s, watch)
    /\ Over(s)
    /\ UNCHANGED <<player, idleVars, watch, inbox, uncached, floor>>
    /\ news' = IF Fits(watch) \/ inbox[s] # <<>> THEN news
               ELSE IF ForBrowsers' THEN "coming" ELSE "lost"

ShowEvent(s) ==
    /\ live[s] /\ inbox[s] # <<>>
    /\ Show(s, Head(inbox[s]))
    /\ inbox' = [inbox EXCEPT ![s] = Tail(@)]
    /\ UNCHANGED <<player, idleVars, fetchVars, watch, faults, uncached, news, floor>>

\* The browser closes the socket.
Leave(s) ==
    /\ live[s]
    /\ live' = [live EXCEPT ![s] = FALSE]
    /\ inbox' = [inbox EXCEPT ![s] = <<>>]
    /\ shown' = [shown EXCEPT ![s] = At(0)]
    /\ floor' = [floor EXCEPT ![s] = 0]
    /\ UNCHANGED <<player, idleVars, fetchVars, watch, faults, uncached, news>>

-----------------------------------------------------------------------------
Fetch(f) == ReadStatus(f) \/ ReadSong(f)

Socket(s) == Subscribe(s) \/ ShowFirst(s) \/ FallBack(s) \/ ShowEvent(s) \/ Leave(s)

Next ==
    \/ OtherChange \/ CommandLost
    \/ \E h \in Handlers : Mutate(h) \/ RefreshFails(h)
    \/ \E f \in Fetchers : Fetch(f)
    \/ \E f \in Publishers : Publish(f)
    \/ IdleConnect \/ HandleLine \/ Rearm \/ IdleLost
    \/ \E s \in Subscribers : Socket(s)

Spec == Init /\ [][Next]_vars

\* Every task is polled and MPD answers; a loss or a change need not happen.
Fairness ==
    /\ \A f \in Fetchers : WF_vars(Fetch(f))
    /\ \A f \in Publishers : WF_vars(Publish(f))
    /\ WF_vars(IdleConnect) /\ WF_vars(HandleLine) /\ WF_vars(Rearm)
    /\ \A s \in Subscribers : WF_vars(ShowFirst(s)) /\ WF_vars(ShowEvent(s))

FairSpec == Spec /\ Fairness

-----------------------------------------------------------------------------
(* Safety.                                                                 *)

\* No change is lost on its way to the cache: when the idle connection awaits the next one
\* and the command connection is up, the cached snapshot shows MPD's state, whichever
\* tasks read and published in which order and whichever connection was lost, unless the
\* last change came when nobody was to read any more and MPD did not hold it back, or its
\* announcement was lost with the idle connection.  (Of a read that MPD refused, the
\* cache shows the default.)
CachedIsCurrent ==
    idle = "armed" /\ pc["session"] = "off" /\ ~uncached => Fits(watch)

\* A WebSocket's first message is not older than what the browser saw before it
\* connected ("the first WS message revert the UI to an older state", ws.rs:19-22).
FirstMessageFresh ==
    [][\A s \in Subscribers :
          pc[s] = "ready" /\ live'[s] /\ ~live[s] =>
              shown'[s].status >= floor[s] /\ shown'[s].song >= floor[s]]_vars

\* The inductive invariant behind CachedIsCurrent: MPD's state is cached, with nothing
\* older to come, or it will be, unless it never will.
CacheInv ==
    /\ idle \in {"down", "armed"} => lines = 0 /\ pc["idle"] = "off" /\ ~flagged
    /\ idle = "cut" => ~flagged
    /\ \/ uncached
       \/ ForCache
       \/ pc["idle"] = "off" /\ pc["session"] = "off" /\ Fits(watch)

\* And the one behind FirstMessageFresh: what a WebSocket has read is not older than
\* its connection.
FloorInv ==
    \A s \in Subscribers :
        /\ pc[s] # "off" => floor[s] <= player
        /\ pc[s] \in {"song", "ready"} => floor[s] <= snap[s].status
        /\ pc[s] = "ready" => floor[s] <= snap[s].song

-----------------------------------------------------------------------------
(* Liveness.                                                               *)

Settled(s) == live[s] => Fits(shown[s])

\* Once changes stop every browser ends up with MPD's state, however slow it is and
\* whatever its receiver has dropped, if that state was announced, was still to be read,
\* or was a handler's doing whose refresh succeeded; and if no older snapshot was
\* published or sent from the cache after it.
BrowsersCatchUp == <>[](news = "lost" \/ \A s \in Subscribers : Settled(s))

\* "Mutating commands therefore push their own post-command snapshot so
\* subscribers (the WebSocket) always observe the new state" (client.rs:505-506):
\* after the last mutating command the browsers are left with the new state.
NewStateShown == <>[](\A s \in Subscribers : Settled(s))
=============================================================================
