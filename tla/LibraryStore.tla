---------------------------- MODULE LibraryStore ----------------------------
(***************************************************************************)
(* The stale-while-revalidate library snapshot behind /api/search          *)
(* (crates/mpd-api/src/store.rs) and the task that drops it when MPD       *)
(* reports a database change (spawn_cache_invalidation in lib.rs).         *)
(*                                                                         *)
(* A library is abstracted to the version of MPD's database it was dumped  *)
(* from.  Search handlers are Readers; each background refresh spawned by  *)
(* `refresh_in_background` occupies one of Refreshers until it ends.       *)
(***************************************************************************)
EXTENDS Naturals, Sequences, FiniteSets

CONSTANTS Readers, Refreshers,
          Capacity,      \* of the broadcast channel (128 in the code)
          MaxChanges,    \* bound on database changes
          MaxFails       \* bound on failed dumps

ASSUME TasksAssumption == Readers \cap Refreshers = {}
ASSUME BoundsAssumption == /\ Capacity \in Nat \ {0}
                           /\ MaxChanges \in Nat /\ MaxFails \in Nat

Tasks == Readers \cup Refreshers
Nobody == "nobody"
ASSUME NobodyAssumption == Nobody \notin Tasks

VARIABLES
    dbVersion,   \* MPD's database
    unannounced, \* changes the idle connection has still to broadcast
    events,      \* the invalidation task's unread events: n > 0 is
                 \* DatabaseChanged for change n, 0 any other event
    lagged,      \* whether unread events have been overwritten
    task,        \* the invalidation task: "running" or "ended"
    data,        \* LibraryStore.data: the snapshot, if any
    loading,     \* holder of the LibraryStore.loading mutex
    pc,          \* pc[t]: where task t is in get / refresh_in_background
    dumped,      \* dumped[t]: the version t's dump has read
    fails,       \* failed dumps so far (bounds the model)
    lastStored   \* version of the last snapshot stored (history)

changeVars == <<dbVersion, unannounced>>
eventVars  == <<events, lagged, task>>
taskVars   == <<loading, pc, dumped, fails>>
vars == <<changeVars, eventVars, data, taskVars, lastStored>>

Versions == 0..MaxChanges
NoEntry == [version |-> 0, state |-> "none"]
Present == data.state # "none"
Fresh == data.state = "fresh"     \* loaded_at.elapsed() < ttl

TypeOK ==
    /\ dbVersion \in Versions
    /\ unannounced \in Seq(Versions)
    /\ events \in Seq(Versions) /\ Len(events) <= Capacity
    /\ lagged \in BOOLEAN
    /\ task \in {"running", "ended"}
    /\ data \in [version : Versions, state : {"none", "fresh", "expired"}]
    /\ loading \in Tasks \cup {Nobody}
    /\ pc \in [Tasks -> {"idle", "lock", "dump", "answered"}]
    /\ dumped \in [Tasks -> Versions]
    /\ fails \in 0..MaxFails
    /\ lastStored \in Versions

Init ==
    /\ dbVersion = 0 /\ unannounced = <<>>
    /\ events = <<>> /\ lagged = FALSE /\ task = "running"
    /\ data = NoEntry
    /\ loading = Nobody
    /\ pc = [t \in Tasks |-> "idle"]
    /\ dumped = [t \in Tasks |-> 0]
    /\ fails = 0
    /\ lastStored = 0

-----------------------------------------------------------------------------
(* LibraryStore::get and refresh_in_background.                            *)

\* A fresh snapshot is served from memory and nothing changes.  An expired one
\* is served as well, and a refresh spawned.
GetExpired(r) ==
    /\ pc[r] = "idle"
    /\ Present /\ ~Fresh
    /\ \E t \in Refreshers :
          /\ pc[t] = "idle"
          /\ pc' = [pc EXCEPT ![t] = "lock"]
    /\ UNCHANGED <<changeVars, eventVars, data, loading, dumped, fails, lastStored>>

\* With nothing to serve, the handler queues for the dump.
GetMissing(r) ==
    /\ pc[r] = "idle"
    /\ ~Present
    /\ pc' = [pc EXCEPT ![r] = "lock"]
    /\ UNCHANGED <<changeVars, eventVars, data, loading, dumped, fails, lastStored>>

\* Mutant: no second look under the guard.
SatisfiedNever(t) == FALSE

\* Mutant: a background refresh, too, is content with any snapshot.
SatisfiedByAny(t) == Present

\* What a task looks for when it gets the guard, before it dumps.
Satisfied(t) == IF t \in Readers THEN Present ELSE Fresh

\* Mutant: the mutex is not taken.
LockUnguarded(t) ==
    /\ pc[t] = "lock"
    /\ IF Satisfied(t)
       THEN pc' = [pc EXCEPT ![t] = "idle"] /\ UNCHANGED loading
       ELSE pc' = [pc EXCEPT ![t] = "dump"] /\ UNCHANGED loading
    /\ UNCHANGED <<changeVars, eventVars, data, dumped, fails, lastStored>>

Lock(t) ==
    /\ pc[t] = "lock"
    /\ loading = Nobody
    /\ IF Satisfied(t)
       THEN pc' = [pc EXCEPT ![t] = "idle"] /\ UNCHANGED loading
       ELSE pc' = [pc EXCEPT ![t] = "dump"] /\ loading' = t
    /\ UNCHANGED <<changeVars, eventVars, data, dumped, fails, lastStored>>

\* MPD answers the dump: the reply shows the database as it is now.
DumpAnswered(t) ==
    /\ pc[t] = "dump"
    /\ pc' = [pc EXCEPT ![t] = "answered"]
    /\ dumped' = [dumped EXCEPT ![t] = dbVersion]
    /\ UNCHANGED <<changeVars, eventVars, data, loading, fails, lastStored>>

\* Returning drops the guard.
Leave(t) ==
    /\ pc' = [pc EXCEPT ![t] = "idle"]
    /\ loading' = IF loading = t THEN Nobody ELSE loading

\* The reply has arrived, the index is built and swapped in.
Store(t) ==
    /\ pc[t] = "answered"
    /\ data' = [version |-> dumped[t], state |-> "fresh"]
    /\ lastStored' = dumped[t]
    /\ Leave(t)
    /\ UNCHANGED <<changeVars, eventVars, dumped, fails>>

\* Mutant: a failed dump keeps the guard.
DumpFailsKeepsGuard(t) ==
    /\ pc[t] \in {"dump", "answered"}
    /\ fails < MaxFails
    /\ fails' = fails + 1
    /\ pc' = [pc EXCEPT ![t] = "idle"]
    /\ UNCHANGED <<changeVars, eventVars, data, loading, dumped, lastStored>>

\* A timeout, a lost connection or an ACK: the handler fails, a refresh keeps
\* the snapshot there is.
DumpFails(t) ==
    /\ pc[t] \in {"dump", "answered"}
    /\ fails < MaxFails
    /\ fails' = fails + 1
    /\ Leave(t)
    /\ UNCHANGED <<changeVars, eventVars, data, dumped, lastStored>>

\* The browser goes away: the handler's future, and its guard, are dropped.
Abandon(r) ==
    /\ pc[r] # "idle"
    /\ Leave(r)
    /\ UNCHANGED <<changeVars, eventVars, data, dumped, fails, lastStored>>

\* The TTL elapses.
Expire ==
    /\ Fresh
    /\ data' = [data EXCEPT !.state = "expired"]
    /\ UNCHANGED <<changeVars, eventVars, taskVars, lastStored>>

\* LibraryStore::invalidate.
Invalidate == data' = NoEntry

\* POST /api/cache/clear.
ClearCache ==
    /\ Invalidate
    /\ UNCHANGED <<changeVars, eventVars, taskVars, lastStored>>

-----------------------------------------------------------------------------
(* The event stream and the invalidation task.                             *)

\* A broadcast send: a receiver that is Capacity events behind loses the oldest.
Send(e) ==
    IF Len(events) < Capacity
    THEN events' = Append(events, e) /\ UNCHANGED lagged
    ELSE events' = Append(Tail(events), e) /\ lagged' = TRUE

\* The database changes; a change made while the idle connection is not
\* awaiting `idle` is never announced.
DbChange ==
    /\ dbVersion < MaxChanges
    /\ dbVersion' = dbVersion + 1
    /\ unannounced' \in {unannounced, Append(unannounced, dbVersion + 1)}
    /\ UNCHANGED <<eventVars, data, taskVars, lastStored>>

\* The idle loop reads `changed: database`.
Announce ==
    /\ unannounced # <<>>
    /\ unannounced' = Tail(unannounced)
    /\ Send(Head(unannounced))
    /\ UNCHANGED <<dbVersion, task, data, taskVars, lastStored>>

\* Any other event: a snapshot, a disconnection.
OtherEvent ==
    /\ Send(0)
    /\ UNCHANGED <<changeVars, task, data, taskVars, lastStored>>

HandleEvent ==
    /\ task = "running"
    /\ ~lagged /\ events # <<>>
    /\ events' = Tail(events)
    /\ IF Head(events) > 0 THEN Invalidate ELSE UNCHANGED data
    /\ UNCHANGED <<changeVars, lagged, task, taskVars, lastStored>>

\* `recv` returns Err(Lagged), which ends `while let Ok(event)`.
HandleLag ==
    /\ task = "running"
    /\ lagged
    /\ task' = "ended"
    /\ lagged' = FALSE
    /\ UNCHANGED <<changeVars, events, data, taskVars, lastStored>>

-----------------------------------------------------------------------------
Get(r) == GetExpired(r) \/ GetMissing(r)

Work(t) == Lock(t) \/ DumpAnswered(t) \/ Store(t) \/ DumpFails(t)

Next == \/ \E r \in Readers : Get(r) \/ Abandon(r)
        \/ \E t \in Tasks : Work(t)
        \/ Expire \/ ClearCache
        \/ DbChange \/ Announce \/ OtherEvent \/ HandleEvent \/ HandleLag

Spec == Init /\ [][Next]_vars

\* The loading mutex is first come, first served; a dump is answered, fails or
\* times out; clocks advance; and somebody keeps searching.
Fairness ==
    /\ \A t \in Tasks : /\ SF_vars(Lock(t))
                        /\ WF_vars(DumpAnswered(t) \/ Store(t) \/ DumpFails(t))
    /\ WF_vars(Expire)

SearchingSpec == Spec /\ Fairness /\ \A r \in Readers : WF_vars(GetExpired(r))

-----------------------------------------------------------------------------
(* Safety.                                                                 *)

\* The dump is single-flighted and the guard never outlives its holder: the
\* mutex is held exactly while one task is between asking MPD and returning,
\* whether it returns a result, an error, or is dropped with its connection.
SingleFlight ==
    \A t \in Tasks : pc[t] \in {"dump", "answered"} <=> loading = t

\* "At most once per TTL window": a fresh snapshot is only ever replaced after
\* it has expired or been dropped, however many handlers raced for the refresh.
OncePerWindow ==
    [][Fresh /\ data' # data => data'.state # "fresh"]_vars

\* The snapshot never goes back in time: a slow dump cannot overwrite the
\* result of a later one.
NeverGoesBack ==
    [][data'.state # "none" /\ data' # data => data'.version >= lastStored]_vars

\* The invalidation task outlives any burst of events ("Spawn a task that clears
\* the library cache when the MPD database changes", lib.rs:86).
InvalidationSurvives == task = "running"

\* Why: the guard's holder found nothing fresh, and nobody else can store; what
\* it has read of the database is at least as recent as anything stored before.
IInv ==
    /\ SingleFlight
    /\ loading # Nobody => ~Fresh
    /\ lastStored <= dbVersion
    /\ Present => data.version = lastStored
    /\ \A t \in Tasks : pc[t] = "answered" => lastStored <= dumped[t] /\ dumped[t] <= dbVersion

-----------------------------------------------------------------------------
(* Liveness.                                                               *)

\* A search that has to wait for a dump gets its turn and returns.
SearchesReturn == \A r \in Readers : pc[r] = "lock" ~> pc[r] = "idle"

\* Whatever notification is lost, late or overtaken, once the database stops
\* changing the snapshot that is served ends up being the current one.
SnapshotCatchesUp == <>[](Present => data.version = dbVersion)
=============================================================================
