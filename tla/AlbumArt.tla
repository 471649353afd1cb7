------------------------------ MODULE AlbumArt ------------------------------
(***************************************************************************)
(* GET /api/albumart (crates/mpd-api/src/routes/albumart.rs): concurrent   *)
(* handlers look a picture up in the cache and, when it is not there, read *)
(* it from MPD chunk by chunk over connections of their own                *)
(* (MpdClient::read_picture) and store it.  Meanwhile pictures change,     *)
(* entries expire, and the cache is cleared by the invalidation task       *)
(* (lib.rs) or by POST /api/cache/clear.                                   *)
(*                                                                         *)
(* A song's picture may be embedded ("readpicture") or lie in its folder   *)
(* ("albumart"); of either a source says which version it is and how many  *)
(* chunks MPD sends it in, 0 when there is none.                           *)
(***************************************************************************)
EXTENDS LruCache

CONSTANTS Handlers,
          Sizes,        \* chunks of a picture, when it changes
          Albums,       \* what pictures there are at first: chunks, by kind
          Changing,     \* keys whose pictures may change
          MaxChanges    \* bound on changes

ASSUME SizesAssumption == Sizes \subseteq Nat /\ Albums \subseteq [Keys -> [{"readpicture", "albumart"} -> Nat]]
ASSUME ChangesAssumption == Changing \subseteq Keys /\ MaxChanges \in Nat

Kinds == {"readpicture", "albumart"}

VARIABLES
    cache,
    held,      \* held[k]: the picture cached for k
    fetch,     \* fetch[h]: Idle, or the picture h is reading: its key, the command it
               \* is read with, the chunks so far (of which kind, version and place),
               \* whether read_art has ended; and whether the picture changed, or
               \* a connection was lost, meanwhile (history)
    sources,   \* sources[k]: MPD's pictures of k
    changes,   \* bounds the model
    pending,   \* keys changed since the cache was last cleared (history)
    recency    \* the pairs of cached keys whose second one has been returned or stored
               \* last (history)

mpd == <<sources, changes, pending>>
vars == <<cache, held, fetch, mpd, recency>>

Chunks == Kinds \X (0..MaxChanges) \X Nat
Pictures == [chunks : Seq(Chunks), raced : BOOLEAN]
NoPicture == [chunks |-> <<>>, raced |-> FALSE]
Idle == [at |-> "idle"]
Fetches == [at : {"fetching", "read"}, key : Keys, kind : Kinds, chunks : Seq(Chunks),
            raced : BOOLEAN]

TypeOK ==
    /\ cache \in Caches /\ Len(cache.order) <= MaxEntries
    /\ held \in [Keys -> Pictures]
    /\ \A k \in Keys : ~ContainsKey(cache, k) => held[k] = NoPicture
    /\ fetch \in [Handlers -> Fetches \cup {Idle}]
    /\ \A h \in Handlers : fetch[h].at = "read" => fetch[h].chunks # <<>>
    /\ sources \in [Keys -> [Kinds -> [version : 0..MaxChanges, size : Nat]]]
    /\ changes \in 0..MaxChanges /\ pending \subseteq Keys
    /\ recency \subseteq Keys \X Keys

Init ==
    /\ cache = Empty
    /\ held = [k \in Keys |-> NoPicture]
    /\ fetch = [h \in Handlers |-> Idle]
    /\ \E a \in Albums :
          sources = [k \in Keys |-> [m \in Kinds |-> [version |-> 0, size |-> a[k][m]]]]
    /\ changes = 0 /\ pending = {}
    /\ recency = {}

\* What happens to the cache and what is in it; `used` is the order of use.
CacheBecomes(c, pictures, used) ==
    /\ cache' = c
    /\ held' = [k \in Keys |-> IF ContainsKey(c, k) THEN pictures[k] ELSE NoPicture]
    /\ recency' = {p \in used : ContainsKey(c, p[1]) /\ ContainsKey(c, p[2])}
Using(k) == {p \in recency : k \notin {p[1], p[2]}} \cup ((Keys \ {k}) \X {k})

-----------------------------------------------------------------------------
(* The route.                                                              *)

\* `get_art` finds the picture: the handler answers at once.
Hit(h, k) ==
    /\ fetch[h] = Idle
    /\ IsHit(cache, k)
    /\ CacheBecomes(GetArt(cache, k), held, Using(k))
    /\ UNCHANGED <<fetch, mpd>>

\* It does not: the handler asks MPD, first for an embedded picture.
Miss(h, k) ==
    /\ fetch[h] = Idle
    /\ ~IsHit(cache, k)
    /\ CacheBecomes(GetArt(cache, k), held, recency)
    /\ fetch' = [fetch EXCEPT ![h] = [at |-> "fetching", key |-> k, kind |-> "readpicture",
                                      chunks |-> <<>>, raced |-> FALSE]]
    /\ UNCHANGED mpd

Fetching(h) == fetch[h].at = "fetching"
Source(h) == sources[fetch[h].key][fetch[h].kind]
Fetched(h, f) == fetch' = [fetch EXCEPT ![h] = f]

\* Mutant: the last chunk is left out.
CompleteEarly(n, size) == n + 1 >= size

Complete(n, size) == n >= size

\* MPD sends the chunk at the offset the handler has got to, and the size the
\* picture has now; the loop of read_art ends when it has that much.
ReadChunk(h) ==
    /\ Fetching(h)
    /\ Len(fetch[h].chunks) < Source(h).size
    /\ LET n == Len(fetch[h].chunks) + 1 IN
       Fetched(h, [fetch[h] EXCEPT !.chunks = Append(@, <<fetch[h].kind, Source(h).version, n>>),
                                   !.at = IF Complete(n, Source(h).size) THEN "read" ELSE @])
    /\ UNCHANGED <<cache, held, mpd, recency>>

\* Mutant: a command that fails is tried again.
GiveUpNever(f) == [f EXCEPT !.chunks = <<>>]

\* read_art returns None: read_picture goes on to the folder's picture, with nothing
\* of the embedded one; without either the answer is "album art not found".
GiveUp(f) ==
    IF f.kind = "readpicture" THEN [f EXCEPT !.kind = "albumart", !.chunks = <<>>] ELSE Idle

\* There is no picture, or it has become so short that nothing is left to read: an
\* answer without a binary section, an empty one, or an ACK.
NothingSent(h) ==
    /\ Fetching(h)
    /\ Len(fetch[h].chunks) >= Source(h).size
    /\ Fetched(h, GiveUp(fetch[h]))
    /\ UNCHANGED <<cache, held, mpd, recency>>

\* MPD is down or refuses the password, or the connection breaks.
LoseConnection(h) ==
    /\ Fetching(h)
    /\ Fetched(h, GiveUp([fetch[h] EXCEPT !.raced = TRUE]))
    /\ UNCHANGED <<cache, held, mpd, recency>>

\* The browser goes away, and the handler with it.
Dropped(h) ==
    /\ Fetching(h)
    /\ Fetched(h, Idle)
    /\ UNCHANGED <<cache, held, mpd, recency>>

\* The picture has been read: it is stored, whatever the cache has been through
\* since the miss.
StoreFetched(h) ==
    /\ fetch[h].at = "read"
    /\ LET k == fetch[h].key IN
       CacheBecomes(StoreArt(cache, k),
                    [held EXCEPT ![k] = [chunks |-> fetch[h].chunks, raced |-> fetch[h].raced]],
                    Using(k))
    /\ Fetched(h, Idle)
    /\ UNCHANGED mpd

-----------------------------------------------------------------------------
(* Around it.                                                              *)

\* ART_TTL elapses.
Expire(k) ==
    /\ IsHit(cache, k)
    /\ cache' = [cache EXCEPT !.map[k] = "expired"]
    /\ UNCHANGED <<held, fetch, mpd, recency>>

\* Cache::clear, by the user or because MPD has said that its database has changed.
Clear ==
    /\ CacheBecomes(Empty, held, recency)
    /\ pending' = {}
    /\ UNCHANGED <<fetch, sources, changes>>

\* A picture of k is replaced, added or removed.
Change(k) ==
    /\ changes < MaxChanges
    /\ changes' = changes + 1
    /\ \E m \in Kinds, size \in Sizes :
          sources' = [sources EXCEPT ![k][m] = [version |-> changes + 1, size |-> size]]
    /\ pending' = pending \cup {k}
    /\ fetch' = [h \in Handlers |-> IF fetch[h] # Idle /\ fetch[h].key = k
                                    THEN [fetch[h] EXCEPT !.raced = TRUE] ELSE fetch[h]]
    /\ UNCHANGED <<cache, held, recency>>

Next == \/ \E h \in Handlers : \/ \E k \in Keys : Hit(h, k) \/ Miss(h, k)
                               \/ ReadChunk(h) \/ NothingSent(h) \/ LoseConnection(h)
                               \/ Dropped(h) \/ StoreFetched(h)
        \/ \E k \in Keys : Expire(k)
        \/ \E k \in Changing : Change(k)
        \/ Clear

\* MPD answers, and handlers run.
Spec == /\ Init /\ [][Next]_vars
        /\ \A h \in Handlers : WF_vars(ReadChunk(h) \/ NothingSent(h) \/ StoreFetched(h))

-----------------------------------------------------------------------------
\* The map and the order list never part company, whatever the handlers' order:
\* a key in only one of them would be evicted for nothing or never.
CacheWellFormed == WellFormed(cache)

\* A picture that is still live is only evicted when every picture that is kept
\* has been used since ("least recently used first", cache.rs:3-5).
EvictsLeastRecent ==
    [][cache' # Empty =>
       \A k, j \in Keys :
          IsHit(cache, k) /\ ~ContainsKey(cache', k) /\ ContainsKey(cache', j) =>
             ~ContainsKey(cache, j) \/ <<k, j>> \in recency]_vars

\* What MPD would show for k: all of the embedded picture, or all of the folder's.
Whole(k, m) == [n \in 1..sources[k][m].size |-> <<m, sources[k][m].version, n>>]
Best(k) == Whole(k, IF sources[k]["readpicture"].size > 0 THEN "readpicture" ELSE "albumart")

\* A cached picture is whole and the one MPD has ("embedded picture first, then folder
\* cover", client.rs:411-412), until it changes and as soon as the cache has been
\* cleared for that; except the one whose transfer the change or a lost connection
\* fell into: that one may be torn, old or only the folder's, and stays.
CachedIsTrue ==
    \A k \in Keys :
        ContainsKey(cache, k) /\ k \notin pending /\ ~held[k].raced => held[k].chunks = Best(k)

\* The inductive invariant behind these: the order list is the order of use, and an
\* undisturbed transfer has the first chunks of what MPD has, all of them once read, and
\* has turned to the folder only when there was nothing else.
UseInv ==
    \A k, j \in Keys : <<k, j>> \in recency <=> Before(cache.order, k, j)
Undisturbed(h) == fetch[h] # Idle /\ ~fetch[h].raced
TransferInv ==
    \A h \in Handlers : Undisturbed(h) =>
        /\ \A n \in 1..Len(fetch[h].chunks) :
              fetch[h].chunks[n] = <<fetch[h].kind, Source(h).version, n>>
        /\ IF fetch[h].at = "read" THEN Len(fetch[h].chunks) = Source(h).size
           ELSE Len(fetch[h].chunks) < Source(h).size \/ fetch[h].chunks = <<>>
        /\ fetch[h].kind = "albumart" => sources[fetch[h].key]["readpicture"].size = 0

\* However pictures change under a transfer, it ends while MPD answers.
TransfersEnd == \A h \in Handlers : Fetching(h) ~> fetch[h] = Idle
=============================================================================
