# Verification of mpd-wui

mpd-wui is a web front end for the Music Player Daemon (MPD): a Rust server that
keeps two long-lived connections to MPD, caches its library and album art, and
serves an HTTP/JSON API and a WebSocket to a JavaScript single-page application.
Nothing is persisted; everything that is hard about it is concurrency, lost
connections, and state read in one place and used in another. This directory holds
TLA+ modules for that, model-checked with TLC, and proofs checked with TLAPS.

Paths below are relative to the repository's root.

## 1. The system

| Component | Code | State | Operations | Hard because |
|---|---|---|---|---|
| Command connection | `crates/mpd-client/src/client.rs` 95-126, 537-770 | mpsc channel (256), oneshot per request, one TCP session, capabilities, backoff | `send_raw`, `send_cmd`, `command_loop`, `run_command_session` | many callers, one connection; timeouts and dropped callers while a command is on the wire; reconnects; the channel's limit |
| Idle connection, status push | `client.rs` 485-511, 706-712, 776-882, `crates/mpd-api/src/ws.rs` | idle session, watch channel, broadcast channel (128) | `idle_session`, `handle_change`, `refresh`, `handle_socket` | several publishers of snapshots read at different times; changes while nobody listens; slow receivers |
| Library cache | `crates/mpd-api/src/store.rs`, `lib.rs` 86-97 | snapshot with its age, `loading` mutex | `get`, `refresh_in_background`, `invalidate` | stale-while-revalidate, single flight, invalidation racing with a dump |
| Album-art cache, route and transfer | `crates/mpd-api/src/cache.rs`, `routes/albumart.rs`, `client.rs` 405-482 | map and access order under one mutex; a connection per transfer | `get_art`, `store_art`, `clear`, `read_picture`, `read_art` | two structures that must agree; a picture arrives in chunks and may change between two of them; fetches outlive a clear |
| Compound queue edits | `routes/queue.rs`, `routes/playback.rs` | locals of a handler: lengths and positions | `add`, `add_and_play`, `add_after_current`, `play_only` | several commands by position, others in between, a failure half way |
| Single-command routes | the other handlers of `routes/` | none | one MPD command, mostly followed by `refresh()` | only through the push above |
| Library routes | `routes/library.rs`, `routes/queue.rs` 144-187, `client.rs` 174-255 | none | list, browse, search, add by tag or path | three ways into one database that must agree |
| Status, playlist, DTOs, errors, router | `routes/status.rs`, `dto.rs`, `error.rs` | none | translate | - |
| Protocol, types | `crates/mpd-client/src/protocol.rs`, `types.rs` | none | parse and quote text | two levels of escaping; records in a flat list of lines; missing numbers |
| Search index | `crates/mpd-api/src/search.rs` | immutable index | build, search | lists merged in order, counts, the limit over several kinds |
| Browser: queue view | `web/js/queue.js` | list, version, refresh token | refresh, act, update | answers and snapshots overtake each other |
| Browser: shell | `web/js/app.js`, `api.js` | last snapshot, MPD banner, pending count | WebSocket, probe, actions | probe against push |
| Browser: settings, library, now playing, router | `web/js/*.js` | lists, tokens, timers | load, poll, search | overlapping loads |
| Binary, static assets, mock | `crates/mpd-wui`, `mpd-web`, `mpd-mock` | configuration | wiring, embedded files, test double | - |

How they interact. Every HTTP handler holds an `MpdClient` and calls it; the calls
become requests on the mpsc channel and are answered by the command loop. The idle
loop puts its own requests on the same channel and publishes snapshots on a watch
and a broadcast channel. The broadcast channel feeds every WebSocket and the cache
invalidation task. Handlers of mutating routes also publish. The browser fetches with
HTTP and is triggered by the WebSocket.

What makes each part correct:

- *command connection*: an answer goes to the caller that asked; MPD executes a
  request at most once; nobody is forgotten; order is kept; outages end;
- *status push*: an announced change is not lost on the way; a browser ends up with
  MPD's state;
- *library cache*: one dump at a time, one per TTL window, never back in time, no
  search stuck, and the snapshot catches up with the database;
- *album art*: map and order agree; eviction is least recently used first; a cached
  picture is a whole one, and the one MPD has;
- *queue edits*: a replacing request leaves its songs or the old queue, never less;
  "next" means next; removals go in order;
- *library*: MPD selects what was asked for, whatever characters it contains; nothing is
  lost between the database and the answer; drilling down is complete;
- *queue view*: never back in time, never silently stale.

`PROJECT.json` lists every hazard at its line with the properties that watch it.

## 2. Modules

| Module | Models | Extends / uses |
|---|---|---|
| `RequestReply` | abstract: what `send_raw` promises its callers | - |
| `CommandChannel` | the command connection, with MPD as its peer | instance of `RequestReply` |
| `CommandChannelProofs` | theorems about it | `CommandChannel`, `TLAPS` |
| `LibraryStore` | library cache, broadcast of database changes, invalidation task | - |
| `LibraryStoreProofs` | theorems about it | `LibraryStore`, `TLAPS` |
| `Orders` | what it means that a sequence puts one thing before another | - |
| `SequenceLemmas` | what appending, cutting, moving, inserting do to a sequence without repetitions; flattening; induction over naturals and sequences | `Orders`, `TLAPS` |
| `LruCache` | methods of `Cache` as operators on its state | extends `Orders` |
| `AlbumArt` | concurrent album-art handlers, their transfers, and MPD's pictures | extends `LruCache` |
| `AlbumArtProofs` | what each method does to the map and the order; theorems about the handlers | `AlbumArt`, `SequenceLemmas` |
| `StatusStream` | idle connection, snapshots, watch and broadcast, WebSockets | - |
| `StatusStreamProofs` | theorems about it | `StatusStream`, `TLAPS` |
| `Protocol` | `protocol.rs`: quoting, filters, parsing, as operators on texts and lines | - |
| `MpdDatabase` | external: how MPD reads those commands and answers them from its database | extends `Protocol` |
| `SearchIndex` | the search index and `GET /api/search` | - |
| `Library` | dump, index, search, list, browse and adding by tag or path, end to end | extends `SearchIndex` and `MpdDatabase`: their composition |
| `LibraryProofs` | theorems about quoting, the search and the responses; that `Library` implements `SearchIndex`, and what follows | `Library`, `SequenceLemmas` |
| `QueueEdit` | all edits of MPD's queue, and the tests' mock of them | extends `Orders`; relies on `CommandChannel`'s `InOrder` and on `RequestReply`'s "unknown" |
| `QueueEditProofs` | theorems about it | `QueueEdit`, `SequenceLemmas` |
| `QueueView` | the browser's copy of the queue | relies on `StatusStream`'s `BrowsersCatchUp` |
| `QueueViewProofs` | theorems about it | `QueueView`, `TLAPS` |
| `MC*` | instances for TLC | each the module it is named for |

Definitions named "Mutant: ..." in a comment are slips a change of the code could
introduce. They are used nowhere in the specification; `PROJECT.json` "mutants" says
which definition each replaces and which property it breaks.

### CommandChannel

`Requests` are the commands of all callers, one member each. `Timed` ones go through
`send_raw`: `pc` "idle" -> "sending" (awaiting room in the channel) -> "waiting"
(awaiting the oneshot) -> "done", by an answer, the timeout or the handler being
dropped. The others are the idle task's (`send_cmd`: no timeout, never dropped).
`phase` follows `run_command_session` and the pauses of `command_loop`; `todo` and
`got` are the four commands of the startup; `inflight` is the command `send_one`
awaits. A timer does not take a request back: it stays in the channel or on the wire.
`Transmit` writes without noticing a closed peer; the read that follows fails
(`ResponseLost`). Reading a greeting at end of file "succeeds", as it does in the code
(`read_line` returns `Ok(0)`): such a connection counts as established, so the client
retries at once instead of backing off.
MPD (`Serve`, `MpdClosesConnection`, `MpdStops`, `MpdStarts`) is external: it processes
a connection's commands in order, may close the connection between any two steps, and
what it had answered may or may not still be read. `executed`, `verdict`, `ticket`
and `sent` are history variables. Response framing is abstracted: a response
is read whole or not at all. `SessionOutcome::Closed` is left out, since a sender of
the channel lives as long as the process.

### LibraryStore

A library is the version of the database it was dumped from. `Readers` are search
handlers, `Refreshers` the tasks of `refresh_in_background` (the set bounds how many
there are at once; a spawn needs an idle one). `pc` is the await point: "lock", "dump" (MPD
has not answered yet), "answered" (the reply is on its way). `events` is the
invalidation task's end of the broadcast channel; overrunning it sets `lagged`, which
ends the task. The TTL is a step (`Expire`) that may happen at any time.

### LruCache and AlbumArt

Each method of `Cache` is an operator, since it runs under the mutex in one go. Of an
entry the model keeps whether its TTL has elapsed; etags, mime types and headers are left
out. `fetch` is a handler's transfer: the command it reads with (embedded picture first,
then the folder's), and the chunks so far, each with the version of the picture it came
from. The code asks for the bytes from an offset and stops when it has as many as the
last answer said there are (`Complete`): a picture that grows, shrinks, appears or goes
in between (`Change`) can make it stop early, go on, or end with chunks of two pictures.
A handler that has missed stores its picture whatever has happened to the cache meanwhile.
`raced` marks a transfer that a change or a lost connection fell into, `pending` the keys
changed since the cache was last cleared, `recency` which of two cached keys was used
last: history variables, for the properties. `MaxChanges` bounds the changes.

### StatusStream

MPD's player state is a version and a snapshot the pair of versions its `status` and
`currentsong` were read at. Everyone who fetches one is a `Fetcher`: handlers
(`refresh`), the idle task, a session that primes, and each WebSocket (its first
message). `OthersAct` says whether MPD's state also changes without a handler.

What MPD does with a change made while the idle connection is busy with an earlier one is
not in this repository, and the repository does not agree on it. `client.rs:500-504`,
`playback.rs:126-127`, `integration.rs:497-501` and `settings.js:265-268` say that it is
never announced; the tests' mock (`mpd-mock/src/lib.rs:41,558-566`) emits a change that was
queued at the next `idle`. The model takes either side: with `TRUE` in `Holding` MPD may hold
such a change back (`flagged`) and put it into the reply to the next `idle`, with `FALSE` it
may drop it. `stream` has both, so MPD chooses for every change; `stream_overwrite` has
`TRUE` only, where the counterexample owes nothing to a dropped change.

Only the client's `cmd` looks for an ACK. The idle task's and a priming session's reads
(`client.rs:706-711`, `657-664`) parse one as if it were an OK, and cache and broadcast the
default status: `Refused`. A refused read of a handler or a WebSocket is an error
(`RefreshFails`, `FallBack`). `Fits` says that a snapshot is MPD's state as far as MPD has
told it.

Not every change can reach the cache and the browsers, and two history variables say of
MPD's present state, at the moment it came to be, whether it can. `uncached` is
TRUE when nobody was to read it for the cache any more: it was neither announced nor held
back, and neither the idle task nor a priming session was still to read it; or its
announcement was lost with the idle connection, after whose reconnect the code fetches nothing
(`client.rs:784-833`). `news` becomes "lost" when no one at all will publish it, when the one
who would have has failed, when an older snapshot is published after it with none to follow
(the case of `stream_overwrite`), and when a WebSocket falls back to a cached snapshot that is
older (`ws.rs:27`). A state that a handler has caused counts as "coming" from the
start, because the handler itself reads it afterwards: for those the properties need no word
of MPD's. A session serves a handler's command only after it has primed (`Mutate`). A loss
during priming restarts the priming.

Only snapshots occupy a WebSocket's inbox; the other events of the channel are left out.
What a task has read is forgotten when its fetch is over. `MaxChanges`, `MaxFaults`
(losses, timed-out and refused reads) and `MaxLines` bound the model.

### QueueEdit

MPD's queue is a sequence of songs that remember who added them. Each handler runs
through its commands: those of `add`, `add_and_play`, `add_after_current` and `play_only`,
or ("each") a list sent one by one, which is `delete_ids` and, with one command, `clear`,
`shuffle`, `move_` and `playid`; `channel` is the command connection's channel; `Execute` carries
out the oldest command with MPD's rules for positions and ranges (the end of a `delete`
is clamped, a range beyond the queue is refused; a shuffle leaves the songs in any order). A command can be refused, be lost
before it is executed, or have its answer lost or late (`GiveUp`), in which case it is
executed nevertheless. A handler that is dropped simply takes no further step, which the
specification allows because it states no fairness. The validation of targets is a read
that may end the request; a target is the number of songs that match it, zero
when they have disappeared since. `IsRequest` says which requests the routes accept.
`appended` and `fulfilled` (how many songs were added for a request, and for which of its
targets) are history variables. Positions are only as good as the queue they were read
from: `Displaced` is a request that moves songs next to one that has noted positions, and
`OldQueueIntact` claims nothing there. Consume and random modes are left out.
`MockQueue` and `MockRefuses` are the same commands as the tests' mock
(`crates/mpd-mock`) carries them out; `MockMirrorsMpd` compares the two in every state a
request can meet. The mock's `deleteid` and `moveid` take the id for a position, which MPD does
not; they are not compared, nor are the commands that carry no position.

### QueueView

The queue is its version. Snapshots arrive in order from the WebSocket and out of order
from `GET /status` (`probes`); `GET /playlist` requests are a set, delivered in any order, each
with its token. A request of either kind carries the version MPD had when it was sent: what it
brings back is that version or a later one, up to the one of its arrival, which is all that the
unknown moment of the server's read comes to. `GET /status` reads MPD and never the cache;
the WebSocket's first message may be the cached snapshot, however old, or the default one
(version 0), but `ws.onopen` always probes (`app.js:227-233`). An edit the browser gives up on
may still be carried out ("orphan").

Whether the server will announce a new version is not for the browser to know: `NewVersion`
chooses `coming` freely, since a change can be lost (see `StatusStream`) and the queue routes
push no snapshot of their own. `PushChange` sends what is coming, to nobody while the WebSocket
is closed. `unheard` is a history variable: TRUE when nothing on its way (`OnItsWay`)
tells the browser of MPD's version, neither an announcement nor a request sent since nor the
answer to the POST that made it. `ListCatchesUp` excludes exactly that. `MaxUpsets` bounds,
together, everything that need not happen. Drag and drop and the highlight of the current
song are left out, and the subscription to the server's events counts as made when the
WebSocket opens.

### Protocol, MpdDatabase, SearchIndex, Library

A text is a sequence of characters, so quoting really happens: `QuoteArg` escapes what
`EscapeFilterValue` and `BuildSearchFilters` have escaped before, and `MpdDatabase`'s
`Arguments` and `Clauses` take it apart again as MPD does. A response is a sequence of
lines that `ParseText`, `GroupItems` and the parsers on top of them turn into songs, lists
and directories. Numbers are parsed already, with `Unknown` for a missing one.

`SearchIndex` builds the index song by song, intersects the lists of the exact
constraints one comparison at a time (`i`, `j` and `common` are the locals of
`intersect`), and ranks by taking the best hit that is left until the limit is met. The
fuzzy matcher (nucleo) is the constant `Score`; hits that tie come in any order, where the
code's sort breaks ties by label.

`Library` starts from a database, parses MPD's dump of it into `SearchIndex`'s `songs`,
and adds the other requests, each from its parameters through the command MPD receives to
the answer. The database does not change meanwhile: that is `LibraryStore`'s subject.

## 3. Runs

Passing runs:

| Run | What it shows | Bounds |
|---|---|---|
| `channel` | answers are own, at most once, nobody lost, notices match, capabilities known, in order, refines `RequestReply`; requests in the channel end although MPD may never answer; with a healthy MPD the idle task is answered, dead connections are noticed, the client comes back | 1 request with a timeout and 1 of the idle task, channel of 2, password, one loss |
| `store` | single flight (in `IInv`), once per window, never back, searches return, snapshot catches up | 2 readers, 2 refreshers, 1 change, 1 failure, channel of 1 |
| `art` | map and order agree, LRU eviction, cached pictures are whole and true, transfers end | 3 keys (both pictures, embedded only, folder only), cache of 2, 2 handlers, pictures of 0 to 2 chunks, 1 change |
| `stream` | cached snapshot current and browsers catch up, for the changes that were announced, held back or still to be read; first message fresh | 1 handler and another MPD client, 1 WebSocket, 2 changes, each held back or dropped when the idle connection is busy, 2 losses, timeouts or refused reads, batches of up to 2 lines, receiver of 1 |
| `edit` | replacing leaves exactly its songs, the old queue stays until it is replaced, enqueued songs come next, removals in order, the mock does as MPD | every kind of request alone and pairs of replacing and removing ones; old queue of 0-2, 0-3 new songs, 2 failures, 1 advance of the player |
| `view` | view never goes back, never silently stale, catches up with every change it can hear of | 1 edit of the user, each change announced or not, 2 upsets (edits by others, extra messages, further probes, losses, failures) |
| `library` | MPD understands every command as meant; dump, lists and directories lose nothing; drilling down, counts, the limit and where hits lead | databases of 0-6 songs with missing, repeated and case-variant tags, all texts of up to 2 special characters, queries of up to 3 constraints, limits 1-3 |

The bounds are small because every conflict here is between two actors over one
resource: two callers and the idle task are enough for an answer to go astray or an
order to be inverted; a channel or receiver of one or two is full after one or two
sends; one loss meets every step of a session, and a second one the reconnect of the
first; one change is enough for a dump of the old library to race with one of the new.
A third picture is what makes a cache of two evict. A cache or channel at its
real size (512, 256, 128) differs only in how long it takes to fill. Where a property is
also proved (section 4), it holds for any number of everything, and the run is there to
find a mistake cheaply and to show that the cases happen. The library's databases are
chosen, not enumerated: six songs are what it takes for the lists of three constraints to
have different lengths and for a merge to run off either end; among their values are blank
ones and ones with leading blanks, and tags that no list is made of (`file`) are asked for
as well.
`CHECK_DEADLOCK FALSE` is set for the queue edits and the queue view only: their
requests finish and nothing more need happen.

Runs that end in a counterexample, each against a sentence of the repository:

| Run | Property | What the code does |
|---|---|---|
| `channel_blocked` | `SendersTimeOut` | the timeout does not cover the wait for room in the channel |
| `store_lag` | `InvalidationSurvives` | lagging ends the invalidation task |
| `stream_overwrite` | `NewStateShown` | of two handlers that refresh at the same time, the one that read first publishes last: the browser is left with the older state, although MPD here holds every change back for the next `idle`, nothing is lost and nobody else acts |
| `edit_two_plays` | `NeverEmpty` | two `play_only` requests delete each other's song |
| `library_drill` | `AlbumArtistListsAlbums` | an album artist's albums are listed with MPD's artist argument: albums that have the name only as album artist are missing |

The models contain further behaviours that differ from what a comment or the
repository's README suggests; no run is spent on them:

- a dump or a picture that MPD answered before a change is stored after the change's
  invalidation and is served for a whole TTL (`README.md:66`); a picture that changes
  during its transfer can be cached torn (`CachedIsTrue` excludes exactly these);
- an invalidation makes searches wait for a dump again, not only the very first load
  (`store.rs:7-9`);
- the two halves of a snapshot may lie on either side of a change (`types.rs:157`);
- whether a change made while the idle connection is busy is announced later: the comments
  say never, the tests' mock at the next `idle` (see `StatusStream`);
- a change made while the idle connection is down is announced to nobody, not even after the
  reconnect, so the cache, and a browser whose fresh read fails (`ws.rs:27`), may stay with
  an older state until the next change; `client.rs:500-506` speaks of the busy connection only,
  and the queue routes do not refresh;
- an ACK to `status` or `currentsong` makes the idle task and a priming session publish the
  default snapshot as if it were MPD's (`client.rs:706-711`, `657-664`);
- when the song ends between the status and the move of `add_after_current`, the songs
  land behind the previous one (`queue.rs:83-84`; `PlacedNext` excludes it);
- the compensation of `add_and_play` deletes by position, so a concurrent
  `add_after_current` can make it delete songs of the user (`queue.rs:62`);
- a snapshot with the version of a failed fetch does not retry it (`queue.js:122-123`);
- adding an album hit adds every album of its name (`library.js:80`), and adding an artist
  hit adds by `artist` although it may have been found as an album artist
  (`library.js:69`);
- a tag or path with leading blanks loses them when it is read (`protocol.rs:79`), so a
  command with what was listed may name something else.

### Fairness

- `CommandChannel!ClientFairness`: tokio polls every task that can make progress. Room
  in the channel is handed out first come first served, and `select!` picks at random
  among its ready branches; both are strong fairness of the action that waits for them.
  Timers fire. `MpdFairness` says that MPD answers and restarts; it is the hypothesis of
  the properties that need it, and `WaitersTimeOut` and `SendersTimeOut` do without. Losses are bounded, so every outage ends.
- `LibraryStore!Fairness`: the tokio mutex is first come first served (strong fairness
  of `Lock`); a dump ends one way or another, by `command_timeout` at the latest; time
  passes. `SearchingSpec` also has searches keep coming: without one nothing is refreshed.
- `AlbumArt!Spec`: MPD answers a transfer's command, and handlers run. `read_art` has no
  timeout, so without the former `TransfersEnd` would not hold.
- `SearchIndex`, `Library` and `QueueEdit` state no fairness and no liveness.
- `StatusStream!Fairness` and `QueueView!Fairness`: tasks and callbacks run, the peer
  answers, the browser reconnects (it retries for ever). No change, loss, timeout or
  departure need ever happen. `QueueView`'s `PushChange` is fair only for a change that the
  server is to announce (`coming`), and a POST that MPD has carried out is answered or fails.

## 4. Proofs

For any number of callers, handlers, browsers, songs, changes and losses, and any capacity:

- `CommandChannelProofs`. `TypeCorrect`, then the inductive invariant `IInv`. The
  properties are not inductive by themselves: that answers are own follows from the wire
  carrying at most one command, the one in flight, in one direction at a time
  (`WireInv`); that order is kept needs the tickets to grow along a request's path from
  the processed ones over the one in flight to the channel (`OrderInv`); that a request
  is processed once needs it not to have been while it is in the channel or unread on
  the wire, and its oneshot to be empty until it leaves it (`RequestInv`). From `IInv`:
  `OwnAnswers`, `NeverTwice`, `WaitersRemembered`, `ProcessedInOrder`, and `Refinement`:
  every step maps to a step of `RequestReply` or a stutter.
  `NoticesMatch` and `CapabilitiesKnownFirst` need more (`SessionInv`): where a session is
  in its startup, and that whatever was read of it was the answer to what was sent.
- `LibraryStoreProofs`. `TypeCorrect` and the invariant `IInv`: the guard's holder found
  nothing fresh and nobody else can store meanwhile, so no snapshot can become fresh
  while it dumps, and what it has read of the database is at least as recent as anything
  stored. From it `SingleFlighted`, `DumpedOncePerWindow`, `SnapshotNeverGoesBack`.
- `QueueViewProofs`. `TypeCorrect` and the invariant `IInv`: a token belongs to one
  request, sent when MPD's queue was not older than the list; and the view is `Due` to show the
  version it has noted, and MPD's as well unless its snapshot is still on the way. "Due"
  is what `QuietMeansCurrent` becomes while something is under way: the answer to the last
  refresh will be new enough, or has been shown, or a failure has. From it
  `ViewNeverGoesBack` and `QuietIsCurrent`.
- `StatusStreamProofs`, for either kind of MPD (`Holding`). `TypeCorrect`; `CacheCorrect` from
  `CacheInv`: MPD's state is one that nobody will cache (`uncached`), or it will be cached
  (`ForCache`: it is announced, held back or being read, and what the other of the two
  tasks that feed the cache holds is not older), or it is cached and neither of the two has
  anything left to publish. The invariant needs the order of the two: a session that primes
  serves nobody, so the idle task cannot read before it and publish after it. `FirstMessageIsFresh` from `FloorInv`, that
  what a WebSocket reads for its first message is not older than its subscription.
- `AlbumArtProofs`. First of each method of `Cache`, given a well-formed cache, that it
  leaves one, which keys it keeps, and their order afterwards. On these rest
  `TypeCorrect`, `CacheNeverTears`, `LeastRecentlyUsed` (`UseInv`: the order list is the
  order of use) and `PicturesAreTrue` (`TransferInv`: an undisturbed transfer holds the
  first chunks of MPD's picture, all of them once read, and has turned to the folder only
  when nothing is embedded).
- `QueueEditProofs`, about any number of handlers with any requests, and any queue.
  `Inductive`: where each kind of request is in its commands (`StepInv`), that it waits for
  at most one command, the last it has sent (`AwaitInv`), and that the targets carried out
  are the first ones (`AddInv`); `TypeCorrect` follows, and `MockIsFaithful`. On top of it,
  per property, what is true of the commands still in the channel:
  - `RemovalInOrder`: a song is gone for good once removed (`GoneInv`), and what is gone is
    what the first `k` of the targets name, with the next of them in the channel (`RemoveInv`);
  - `OldQueueStays`: while no one displaces songs, the user's songs lie below every length
    a handler has read (`BehindUsers`), so a delete in the channel hits them only when all
    of its request's targets are there (`DeleteInv`) and a move takes only songs behind
    them (`MoveInv`). This must be kept even when the handler has long given up, since its
    command is still carried out;
  - `Replacing` and `AddedAfterCurrent`: alone, a request's queue is the old one followed by
    its own songs until the delete or the move, and its lengths are those of that queue
    (`OnTrack`); after a failure nothing it left in the channel can hurt (`Off`); after the
    last command the queue is its own (`Won`).
- `LibraryProofs`, first about quoting. `ReadArguments` and `ReadClauses` are recursive
  functions on a text, and a step at a time what they have read of an escaped text is the
  text, by induction on its length (`ReadsOneMore`, `ReadsValue`). So MPD reads a quoted text as
  one argument (`QuotedIsOneArgument`), and a filter as the one or two clauses it was built
  from (`OneClauseRead`, `TwoClausesRead`); both levels together, and the count that decides
  whether anything is added, give `MpdUnderstandsCommands` for every text and database.
  It needs that MPD keeps no tag with an empty value (`DatabasesAssumption`): the client drops
  an empty value from a filter, so it could not ask for one.
- `LibraryProofs`, about the search. `IInvCorrect`: the inverted lists are complete and ascending; `out`
  is what the merged constraints leave, `common` what the compared parts of two lists
  share, and every common element behind either index is in it. From it
  `DrillDownCorrect`: a query by exact constraints returns all songs that satisfy them, in
  library order, and no others.
  `CountInIsIntersection`: `count_in` is a recursion over two lists; at each pair of
  positions it is the number of elements the rest of the lists share, by induction on how
  much of them is left. With `AttributionInv` (the lists of artists and albums
  hold the songs attributed to them) it gives `CountsAreRight`, and `HitsLeadToSongs`;
  `RankInv`, that what is ranked and what is left make up the candidates, gives
  `CapIsOnEnabledKinds`.
  `LibraryImplementsSearch`: every step of `Library` is a step of `SearchIndex` or leaves
  it alone, whatever the database; so all of this holds there too
  (`LibraryDrillDownCorrect`, `LibraryHitsRight`).
- `LibraryProofs`, about responses. Two things are under every answer: that of a key
  `get_all` finds all values and `get` the first (`GetAllFinds`, `GetAllFirst`), and that
  `group_items` takes a response apart into the groups it was put together from
  (`GroupsAreFound`, by induction on the groups and, in each, on its lines). The latter needs
  that no later line of a group starts one, which `SongIsGroup` and `DirRead` show of what
  MPD sends: a song begins with `file`, and no tag is named `file` or `directory`
  (`DatabasesAssumption`). From these `DumpIsFaithful`: a song has its own first tags,
  however many lines its neighbours have; `ListsAreComplete`: a list has every value but the
  blank ones, and is an error when a route or MPD refuses it; and `BrowsingIsFaithful`:
  directories and files are all there, in order, and the totals are the sums (`SumConcat`)
  unless a part is unknown (`TotalOfTwo`). As `parse_text` trims the blanks in front of a
  value, what is read of a tag or path is that value trimmed.
- `SequenceLemmas` holds what these share. The library's induction theorems take an
  operator as a parameter, which the provers cannot instantiate; `NaturalsFrom` states
  induction of membership in a set, which they can, and follows from the well-foundedness
  of the naturals; `SequencesFrom` is the same of sequences.

The assumptions are those the modules state on their constants (sets disjoint, bounds
natural, capacities positive, queries and libraries of the right shape). `LibraryStore`'s
`IInv` is an invariant of the run `store`. Of the others, what is not in a run is proved.

Only model-checked:

- liveness (`WaitersTimeOut`, `IdleTaskAnswered`, `DeadConnectionNoticed`, `ComesBack`,
  `SearchesReturn`, `SnapshotCatchesUp`, `BrowsersCatchUp`, `TransfersEnd`,
  `ListCatchesUp`), which needs fairness and ENABLED. Every other property of a passing
  run is proved.

## 5. Not modelled

- DTOs, error responses, static files, configuration, startup and shutdown: translation or
  plain I/O, with no state of their own.
- Parsing of status, outputs, partitions and command lists: field by field, no grouping to
  get wrong. `status`, `playlist` and `capabilities` hand on what the client returns. Of a
  tag with several values the code keeps the first, and so does the model.
- MPD's own fallback of album artist to artist in filters, and its case rules: external;
  the model takes tags as they are.
- Byte-level framing of responses: a response is read whole or not at all.
- Partitions: the partition belongs to the connection, a reconnect falls back to the
  default one, and the idle connection is never switched (`client.rs:268-270`).
- `set_options` (one command per option, like `delete_ids`, but without an order anybody
  relies on), and the lengths of backoffs and of the keepalive. The command loop never
  resets its backoff once a session was established (`client.rs:573`): a property on it
  needs a clock.
- The browser apart from the queue view: the connection banner, on which a late probe
  may overwrite newer news (`app.js:56`), optimistic updates, settings and its overlapping
  reloads (`settings.js:283`), rendering. `queue.js:159` moves a song to a position of the
  displayed list, which may be old: a wrong place, repaired by the next refresh.
- While dumps keep failing, every search starts one more behind the others
  (`store.rs:87`): `LibraryStore` bounds the number of refreshers.
- The width of a listing's totals (`u32`, `protocol.rs:396-397`): 136 years of playing.

## 6. Plan

Done, by importance: the command connection, on which everything rests, with its abstract
specification and proofs; the library cache; status push; queue edits; album art with its
transfer; queue view; protocol, search index and library, each with the proofs above.

Next, in this order:

1. `ConnBanner`: the banner of `app.js` between probe answers and connection events,
   composed with `CommandChannel`'s `lastEvent`.
2. `Partitions`: the connection's partition across reconnects, and `settings.js`'s
   reloads of two lists.
3. Backoff and keepalive with a clock.
4. `LibraryView`: search with its timer and abort controller.
