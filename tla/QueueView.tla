----------------------------- MODULE QueueView -----------------------------
(***************************************************************************)
(* The browser's copy of MPD's queue (web/js/queue.js), kept up to date by *)
(* the snapshots that app.js hands it: the messages of the WebSocket, in   *)
(* order, and the answers to GET /status, which overtake them and each     *)
(* other.  A snapshot carries the playlist version; the list itself is     *)
(* fetched with GET /playlist, whose answers may overtake each other too.  *)
(*                                                                         *)
(* The queue is abstracted to its version, which MPD raises with every     *)
(* change of it; 0 stands for a list or a version never seen, and for that *)
(* of the default snapshot.                                                *)
(***************************************************************************)
EXTENDS Integers, Sequences

CONSTANTS Acts,         \* the edits the user makes in the view
          MaxUpsets     \* bound on what need not happen: edits by others, messages
                        \* beside those for a new version, further uses of GET /status,
                        \* disconnections and failing requests

ASSUME MaxUpsetsAssumption == MaxUpsets \in Nat

VARIABLES
    mpd,        \* version of MPD's queue
    coming,     \* whether the server will send a snapshot that shows mpd
    ws,         \* the WebSocket: "open" or "closed"
    inbox,      \* its messages on the way: a snapshot's version, or DbChanged
    pushed,     \* whether the server has sent a snapshot that shows mpd
    probes,     \* the GET /status requests under way, as MPD's versions when they were sent
    snapshot,   \* app.js: state.snapshot
    mounted,    \* whether the view has been opened
    version,    \* queue.js: the version of the last snapshot it acted on
    token,      \* queue.js: refreshToken
    requests,   \* the GET /playlist requests under way
    songs,      \* queue.js: the list, as the version it shows
    told,       \* whether the view has reported its last refresh as failed
    act,        \* act[a]: the state of the user's edit a
    upsets,     \* such events so far (bounds the model)
    unheard     \* whether nothing on its way tells the browser of mpd (history)

serverVars == <<mpd, pushed, coming>>
wireVars   == <<ws, inbox, probes>>
viewVars   == <<mounted, version, token, songs, told>>
vars == <<serverVars, wireVars, snapshot, viewVars, requests, act, upsets, unheard>>

DbChanged == -1

\* `since` is MPD's version when the request was sent.
Requests == [token : Nat, since : Nat]

TypeOK ==
    /\ mpd \in Nat \ {0} /\ pushed \in BOOLEAN
    /\ ws \in {"open", "closed"}
    /\ coming \in BOOLEAN /\ unheard \in BOOLEAN
    /\ inbox \in Seq(DbChanged..mpd)
    /\ ws = "closed" => inbox = <<>>
    /\ probes \subseteq 1..mpd
    /\ {snapshot, version, songs} \subseteq 0..mpd /\ token \in Nat
    /\ mounted \in BOOLEAN /\ told \in BOOLEAN
    /\ requests \subseteq Requests
    /\ \A q \in requests : q.token \in 1..token /\ q.since \in 1..mpd
    /\ act \in [Acts -> {"idle", "posted", "executed", "orphan", "done"}]
    /\ upsets \in 0..MaxUpsets

Init ==
    /\ mpd = 1 /\ pushed = FALSE /\ coming = FALSE
    /\ ws = "closed" /\ inbox = <<>> /\ probes = {}
    /\ snapshot = 0
    /\ mounted = FALSE /\ version = 0 /\ token = 0 /\ songs = 0 /\ told = FALSE
    /\ requests = {}
    /\ act = [a \in Acts |-> "idle"]
    /\ upsets = 0
    /\ unheard = FALSE

Upset == upsets < MaxUpsets /\ upsets' = upsets + 1

-----------------------------------------------------------------------------
(* The server, as far as the browser sees it.                              *)

\* What tells the browser of mpd or has it read the queue; a WebSocket does when it opens.
OnItsWay ==
    \/ coming \/ pushed
    \/ ws = "closed" \/ mpd \in probes
    \/ \E q \in requests : q.token = token /\ q.since = mpd
    \/ \E a \in Acts : act[a] = "executed"

\* A new version, which the server announces or not: StatusStream says when it does not.
NewVersion == mpd' = mpd + 1 /\ coming' \in BOOLEAN /\ pushed' = FALSE

OtherChange ==
    /\ Upset
    /\ NewVersion
    /\ UNCHANGED <<wireVars, snapshot, viewVars, requests, act>>
    /\ unheard' = ~OnItsWay'

\* The snapshot that shows a change is broadcast ...
PushChange ==
    /\ coming /\ coming' = FALSE
    /\ IF ws = "open" THEN inbox' = Append(inbox, mpd) /\ pushed' = TRUE
       ELSE UNCHANGED <<inbox, pushed>>
    /\ UNCHANGED <<mpd, ws, probes, snapshot, viewVars, requests, act, upsets, unheard>>

\* ... and there are others, also older or default ones, and notices of the database.
PushOther ==
    /\ ws = "open"
    /\ Upset
    /\ \E m \in DbChanged..mpd : inbox' = Append(inbox, m)
    /\ UNCHANGED <<serverVars, ws, probes, snapshot, viewVars, requests, act, unheard>>

-----------------------------------------------------------------------------
(* queue.js.                                                               *)

Request(t) == [token |-> t, since |-> mpd]

\* Mutant: one request at a time.
RefreshUnlessBusy ==
    IF requests = {}
    THEN token' = token + 1 /\ requests' = {Request(token + 1)}
    ELSE UNCHANGED <<token, requests>>

Refresh ==
    /\ token' = token + 1
    /\ requests' = requests \cup {Request(token + 1)}

\* Mutant: every answer is shown.
ShowAny(q, read) == songs' = read /\ told' = FALSE

\* An answer counts only if no refresh has been started since.
ShowAnswer(q, read) ==
    IF q.token = token THEN songs' = read /\ told' = FALSE ELSE UNCHANGED <<songs, told>>

\* The answer to GET /playlist, which the server has read at some time since.
Arrive(q) ==
    /\ requests' = requests \ {q}
    /\ \E read \in q.since..mpd : ShowAnswer(q, read)
    /\ UNCHANGED <<serverVars, wireVars, snapshot, mounted, version, token, act, upsets, unheard>>

\* The server or the network fails the request.
RequestFails(q) ==
    /\ Upset
    /\ requests' = requests \ {q}
    /\ told' = (told \/ q.token = token)
    /\ UNCHANGED <<serverVars, wireVars, snapshot, mounted, version, token, songs, act, unheard>>

\* Mutant: the list is left to the next snapshot.
MountLazily ==
    /\ ~mounted
    /\ mounted' = TRUE
    /\ version' = snapshot
    /\ UNCHANGED <<serverVars, wireVars, snapshot, token, requests, songs, told, act, upsets>>
    /\ unheard' = FALSE

\* mountQueue: the view is opened for the first time, and stays.
Mount ==
    /\ ~mounted
    /\ mounted' = TRUE
    /\ version' = snapshot
    /\ Refresh
    /\ UNCHANGED <<serverVars, wireVars, snapshot, songs, told, act, upsets>>
    /\ unheard' = FALSE

\* setSnapshot, and update of the view: a version that is not the last one, be it
\* newer or older, fetches the list.
SetSnapshot(v) ==
    /\ snapshot' = v
    /\ IF mounted /\ v # version THEN version' = v /\ Refresh
       ELSE UNCHANGED <<version, token, requests>>
    /\ UNCHANGED <<mounted, songs, told>>

Receive ==
    /\ inbox # <<>>
    /\ inbox' = Tail(inbox)
    /\ IF Head(inbox) # DbChanged THEN SetSnapshot(Head(inbox))
       ELSE /\ IF mounted THEN Refresh ELSE UNCHANGED <<token, requests>>
            /\ UNCHANGED <<snapshot, mounted, version, songs, told>>
    /\ UNCHANGED <<serverVars, ws, probes, act, upsets, unheard>>

\* act: a POST, and a refresh when it succeeds.  A POST that the browser gives up
\* on may still be carried out.
Post(a) ==
    /\ mounted /\ act[a] = "idle"
    /\ act' = [act EXCEPT ![a] = "posted"]
    /\ UNCHANGED <<serverVars, wireVars, snapshot, viewVars, requests, upsets, unheard>>

Execute(a) ==
    /\ act[a] \in {"posted", "orphan"}
    /\ act' = [act EXCEPT ![a] = IF @ = "posted" THEN "executed" ELSE "done"]
    /\ NewVersion
    /\ UNCHANGED <<wireVars, snapshot, viewVars, requests, upsets>>
    /\ unheard' = ~OnItsWay'

PostSucceeds(a) ==
    /\ act[a] = "executed"
    /\ act' = [act EXCEPT ![a] = "done"]
    /\ Refresh
    /\ UNCHANGED <<serverVars, wireVars, snapshot, mounted, version, songs, told, upsets>>
    /\ unheard' = FALSE

PostFails(a) ==
    /\ act[a] \in {"posted", "executed"}
    /\ Upset
    /\ act' = [act EXCEPT ![a] = IF @ = "posted" THEN "orphan" ELSE "done"]
    /\ UNCHANGED <<serverVars, wireVars, snapshot, viewVars, requests>>
    /\ unheard' = (unheard \/ ~OnItsWay')

-----------------------------------------------------------------------------
(* app.js: the WebSocket and GET /status.                                  *)

\* The server's first message is a snapshot read now or, failing that, the cached one,
\* which may be old or the default; ws.onopen probes.
WsOpens ==
    /\ ws = "closed"
    /\ ws' = "open"
    /\ \E v \in 0..mpd : inbox' = <<v>> /\ pushed' = (v = mpd)
    /\ probes' = probes \cup {mpd}
    /\ UNCHANGED <<mpd, coming, snapshot, viewVars, requests, act, upsets>>
    /\ unheard' = FALSE

WsCloses ==
    /\ ws = "open"
    /\ Upset
    /\ ws' = "closed" /\ inbox' = <<>>
    /\ UNCHANGED <<serverVars, probes, snapshot, viewVars, requests, act>>
    /\ unheard' = FALSE

\* The other uses of GET /status: the page loads, the user retries, an option could not
\* be set.
Ask ==
    /\ Upset
    /\ probes' = probes \cup {mpd}
    /\ UNCHANGED <<serverVars, ws, inbox, snapshot, viewVars, requests, act>>
    /\ unheard' = FALSE

\* GET /status reads MPD, never the cache, at some time before its answer arrives.
StatusArrives(v) ==
    /\ probes' = probes \ {v}
    /\ \E read \in v..mpd : SetSnapshot(read)
    /\ UNCHANGED <<serverVars, ws, inbox, act, upsets, unheard>>

\* It fails, or the browser gives up on it.
StatusFails(v) ==
    /\ Upset
    /\ probes' = probes \ {v}
    /\ UNCHANGED <<serverVars, ws, inbox, snapshot, viewVars, requests, act>>
    /\ unheard' = (unheard \/ ~OnItsWay')

-----------------------------------------------------------------------------
Next ==
    \/ OtherChange \/ PushChange \/ PushOther
    \/ \E q \in requests : Arrive(q) \/ RequestFails(q)
    \/ Mount \/ Receive
    \/ \E a \in Acts : Post(a) \/ Execute(a) \/ PostSucceeds(a) \/ PostFails(a)
    \/ WsOpens \/ WsCloses \/ Ask
    \/ \E v \in probes : StatusArrives(v) \/ StatusFails(v)

Spec == Init /\ [][Next]_vars

\* The browser reconnects and handles what arrives; the server answers, and sends the
\* snapshots it owes.
Fairness ==
    /\ WF_vars(WsOpens) /\ WF_vars(PushChange) /\ WF_vars(Receive)
    /\ WF_vars(\E q \in requests : Arrive(q))
    /\ WF_vars(\E v \in probes : StatusArrives(v))
    /\ \A a \in Acts : WF_vars(PostSucceeds(a))

FairSpec == Spec /\ Fairness

-----------------------------------------------------------------------------
\* The list never goes back to an older queue, however the answers to GET
\* /playlist overtake each other (the refreshToken of queue.js).
ListNeverGoesBack == [][songs' >= songs]_vars

\* With nothing under way and the WebSocket open, an opened view shows MPD's queue
\* or has reported that it could not: no order of late, old or repeated
\* snapshots leaves it silently stale.
QuietMeansCurrent ==
    mounted /\ requests = {} /\ inbox = <<>> /\ ws = "open" /\ pushed
        => songs = mpd \/ told

\* The list is due to show x: the last refresh was started since, or has been answered
\* with it or failed.
Current == {q \in requests : q.token = token}
Due(x) == /\ \A q \in Current : q.since >= x
          /\ Current = {} => told \/ songs >= x

\* The inductive invariant behind both: a token belongs to one request, whose answer will
\* not be older than the list; and an opened view is due to show the version it has
\* noted, and MPD's unless that is still to be pushed or received.
IInv ==
    /\ \A p, q \in requests : p.token = q.token => p = q
    /\ \A q \in Current : q.since >= songs
    /\ mounted => Due(version)
    /\ mounted /\ ws = "open" /\ pushed =>
           Due(mpd) \/ \E i \in 1..Len(inbox) : inbox[i] = mpd

\* Once the queue stops changing, an opened view ends up so, whatever connection to the
\* browser was lost meanwhile: unless the server did not announce the last change, and no
\* request sent since (a probe, a refresh or the POST that made it) was answered.
ListCatchesUp == <>[](mounted => songs = mpd \/ told \/ unheard)
=============================================================================
