--------------------------- MODULE CommandChannel ---------------------------
(***************************************************************************)
(* The serialized command connection of crates/mpd-client/src/client.rs.   *)
(*                                                                         *)
(* Callers put requests on a bounded mpsc channel and await a oneshot      *)
(* reply; `command_loop` owns the one TCP connection to MPD, opens a       *)
(* session on it (greeting, password, capabilities, priming), serves the   *)
(* channel strictly one request at a time, pings MPD when the channel is   *)
(* quiet, and reconnects when the connection is lost.                      *)
(*                                                                         *)
(* Every request is one member of Requests, issued at most once.  Requests *)
(* in Timed go through `send_raw` (a timeout, and a caller that may be     *)
(* dropped); the others are the idle task's, sent by `send_cmd`, which     *)
(* waits for ever.                                                         *)
(***************************************************************************)
EXTENDS Naturals, Sequences, FiniteSets

CONSTANTS Requests,     \* the commands callers issue
          Timed,        \* those issued through send_raw
          Capacity,     \* of the mpsc channel (256 in the code)
          Password,     \* "none", "right" or "wrong"
          BackoffMin,   \* 250 ms
          BackoffMax,   \* 10 s
          MaxCuts       \* bound on the number of connection losses

ASSUME TimedAssumption == Timed \subseteq Requests
ASSUME CapacityAssumption == Capacity \in Nat \ {0}
ASSUME PasswordAssumption == Password \in {"none", "right", "wrong"}
ASSUME BackoffAssumption == /\ BackoffMin \in Nat /\ BackoffMax \in Nat
                            /\ BackoffMin <= BackoffMax
ASSUME CutsAssumption == MaxCuts \in Nat

\* Mutant: the capabilities are not fetched at startup.
StartupWithoutCapabilities == <<"status", "currentsong">>

\* The commands a session sends for itself.
Startup == <<"commands", "notcommands", "status", "currentsong">>
StartupCmds == {"commands", "notcommands", "status", "currentsong"}
Internal == StartupCmds \cup {"password", "noop"}
NoCmd == "no command"

ASSUME RequestsAssumption == Requests \cap (Internal \cup {NoCmd}) = {}

Commands == Requests \cup Internal

VARIABLES
    pc,         \* pc[r]: where the caller of r is
    outcome,    \* outcome[r]: what send_raw/send_cmd returned
    queue,      \* the mpsc channel
    reply,      \* reply[r]: content of r's oneshot channel
    phase,      \* where command_loop / run_command_session is
    todo,       \* the startup commands still to be sent
    got,        \* the startup commands answered in this session
    inflight,   \* the command send_one is awaiting a response to
    backoff,    \* command_loop's next escalating pause
    caps,       \* whether Capabilities.commands is non-empty
    lastEvent,  \* the connection's last event on the broadcast channel
    conn,       \* the TCP connection: "none", "open", or "cut" by MPD
    toServer,   \* bytes written and not yet processed by MPD
    toClient,   \* responses not yet read by the session
    mpd,        \* "up" or "down"
    cuts,       \* connection losses so far (bounds the model)
    executed,   \* executed[r]: how often MPD processed r (history)
    verdict,    \* verdict[r]: what MPD answered to r (history)
    ticket,     \* ticket[r]: r's place in the order of sending (history)
    sent        \* number of tickets given out (history)

callerVars  == <<pc, outcome>>
sessionVars == <<phase, todo, got, inflight, backoff, caps, lastEvent>>
wireVars    == <<conn, toServer, toClient>>
mpdVars     == <<mpd, cuts>>
history     == <<executed, verdict, ticket, sent>>
vars == <<callerVars, queue, reply, sessionVars, wireVars, mpdVars, history>>

Statuses == {"OK", "ACK"}
\* A response, or its absence, and the command MPD was answering.
Nothing == [status |-> "none", of |-> NoCmd]
Lost    == [status |-> "lost", of |-> NoCmd]
Gave(s) == [status |-> s, of |-> NoCmd]
Responses == [status : Statuses, of : Commands]

Phases == {"connect", "greeting", "auth", "startup", "select", "retry", "backoff"}
Established == phase \in {"startup", "select"}

TypeOK ==
    /\ pc \in [Requests -> {"idle", "sending", "waiting", "done"}]
    /\ outcome \in [Requests -> {Nothing, Lost, Gave("timeout"),
                                 Gave("abandoned"), Gave("withdrawn")} \cup Responses]
    /\ queue \in Seq(Requests) /\ Len(queue) <= Capacity
    /\ reply \in [Requests -> {Nothing, Lost} \cup Responses]
    /\ phase \in Phases
    /\ todo \in Seq(StartupCmds)
    /\ got \subseteq Commands
    /\ inflight \in Commands \cup {NoCmd}
    /\ backoff \in BackoffMin..BackoffMax
    /\ caps \in BOOLEAN
    /\ lastEvent \in {"none", "Disconnected", "Reconnected", "Snapshot"}
    /\ conn \in {"none", "open", "cut"}
    /\ toServer \in Seq(Commands)
    /\ toClient \in Seq(Responses)
    /\ mpd \in {"up", "down"}
    /\ cuts \in 0..MaxCuts
    /\ executed \in [Requests -> Nat]
    /\ verdict \in [Requests -> Statuses \cup {"none"}]
    /\ ticket \in [Requests -> Nat]
    /\ sent \in Nat

Init ==
    /\ pc = [r \in Requests |-> "idle"]
    /\ outcome = [r \in Requests |-> Nothing]
    /\ queue = <<>>
    /\ reply = [r \in Requests |-> Nothing]
    /\ phase = "connect"
    /\ todo = <<>> /\ got = {} /\ inflight = NoCmd
    /\ backoff = BackoffMin
    /\ caps = FALSE
    /\ lastEvent = "none"
    /\ conn = "none" /\ toServer = <<>> /\ toClient = <<>>
    /\ mpd \in {"up", "down"} /\ cuts = 0
    /\ executed = [r \in Requests |-> 0]
    /\ verdict = [r \in Requests |-> "none"]
    /\ ticket = [r \in Requests |-> 0]
    /\ sent = 0

-----------------------------------------------------------------------------
(* Callers: send_raw and send_cmd.                                         *)

Submit(r) ==
    /\ pc[r] = "idle"
    /\ pc' = [pc EXCEPT ![r] = "sending"]
    /\ UNCHANGED <<outcome, queue, reply, sessionVars, wireVars, mpdVars, history>>

\* Mutant: the send is a detached task, which outlives the caller.
EnqueueDetached(r) ==
    /\ pc[r] = "sending" \/ (outcome[r] = Gave("withdrawn") /\ ticket[r] = 0)
    /\ Len(queue) < Capacity
    /\ pc' = [pc EXCEPT ![r] = IF @ = "sending" THEN "waiting" ELSE @]
    /\ queue' = Append(queue, r)
    /\ ticket' = [ticket EXCEPT ![r] = sent + 1]
    /\ sent' = sent + 1
    /\ UNCHANGED <<outcome, reply, sessionVars, wireVars, mpdVars, executed, verdict>>

\* `cmd_tx.send(..).await` completes only when the channel has room.
Enqueue(r) ==
    /\ pc[r] = "sending"
    /\ Len(queue) < Capacity
    /\ pc' = [pc EXCEPT ![r] = "waiting"]
    /\ queue' = Append(queue, r)
    /\ ticket' = [ticket EXCEPT ![r] = sent + 1]
    /\ sent' = sent + 1
    /\ UNCHANGED <<outcome, reply, sessionVars, wireVars, mpdVars, executed, verdict>>

Finish(r, out) ==
    /\ pc' = [pc EXCEPT ![r] = "done"]
    /\ outcome' = [outcome EXCEPT ![r] = out]
    /\ UNCHANGED <<queue, reply, sessionVars, wireVars, mpdVars, history>>

Receive(r) ==
    /\ pc[r] = "waiting"
    /\ reply[r] # Nothing
    /\ Finish(r, reply[r])

\* Mutant: the timeout covers the send and not the wait for the reply.
TimeOutSendOnly(r) ==
    /\ r \in Timed
    /\ pc[r] = "sending"
    /\ Finish(r, Gave("timeout"))

\* The timer only drops the receiving half: the request stays where it is, in
\* the channel or on the wire.  `timeout` polls the reply before the timer.
TimeOut(r) ==
    /\ r \in Timed
    /\ pc[r] = "waiting"
    /\ reply[r] = Nothing
    /\ Finish(r, Gave("timeout"))

\* The browser goes away and axum drops the handler at its await point.
Abandon(r) ==
    /\ r \in Timed
    /\ pc[r] \in {"sending", "waiting"}
    /\ Finish(r, Gave(IF pc[r] = "sending" THEN "withdrawn" ELSE "abandoned"))

-----------------------------------------------------------------------------
(* The session: command_loop and run_command_session.                      *)

\* send_one: write the command; a write on a connection MPD has cut is lost,
\* and is discovered, at the latest, by the read that follows.
Transmit(c) ==
    /\ inflight' = c
    /\ toServer' = IF conn = "open" THEN Append(toServer, c) ELSE toServer
    /\ UNCHANGED <<conn, toClient>>

\* Mutant: a transient drop is not announced.
LoseQuietly ==
    /\ phase' = IF Established THEN "retry" ELSE "backoff"
    /\ lastEvent' = IF Established THEN lastEvent ELSE "Disconnected"
    /\ conn' = "none" /\ toServer' = <<>> /\ toClient' = <<>>
    /\ inflight' = NoCmd
    /\ UNCHANGED <<callerVars, queue, todo, got, backoff, caps, mpdVars, history>>

\* command_loop on SessionOutcome::Lost.
Lose ==
    /\ phase' = IF Established THEN "retry" ELSE "backoff"
    /\ lastEvent' = "Disconnected"
    /\ conn' = "none" /\ toServer' = <<>> /\ toClient' = <<>>
    /\ inflight' = NoCmd
    /\ UNCHANGED <<callerVars, queue, todo, got, backoff, caps, mpdVars, history>>

Wake ==
    /\ phase \in {"retry", "backoff"}
    /\ phase' = "connect"
    /\ backoff' = IF phase = "retry" THEN backoff
                  ELSE IF 2 * backoff <= BackoffMax THEN 2 * backoff ELSE BackoffMax
    /\ UNCHANGED <<callerVars, queue, reply, todo, got, inflight, caps,
                   lastEvent, wireVars, mpdVars, history>>

Connect ==
    /\ phase = "connect"
    /\ mpd = "up"
    /\ phase' = "greeting" /\ conn' = "open"
    /\ UNCHANGED <<callerVars, queue, reply, todo, got, inflight, backoff, caps,
                   lastEvent, toServer, toClient, mpdVars, history>>

ConnectRefused ==
    /\ phase = "connect"
    /\ mpd = "down"
    /\ Lose
    /\ UNCHANGED reply

EnterStartup ==
    /\ phase' = "startup"
    /\ todo' = Startup
    /\ got' = {}

\* `read_line` at end of file is Ok(0), not an error: on a connection that is
\* already closed the handshake may go on without a greeting.
ReadGreeting ==
    /\ phase = "greeting"
    /\ IF Password = "none"
       THEN EnterStartup /\ UNCHANGED <<inflight, wireVars>>
       ELSE phase' = "auth" /\ Transmit("password") /\ UNCHANGED <<todo, got>>
    /\ UNCHANGED <<callerVars, queue, reply, backoff, caps, lastEvent, mpdVars, history>>

GreetingFails ==
    /\ phase = "greeting"
    /\ conn = "cut"
    /\ Lose
    /\ UNCHANGED reply

AuthAccepted ==
    /\ phase = "auth"
    /\ toClient # <<>>
    /\ Head(toClient).status = "OK"
    /\ toClient' = Tail(toClient)
    /\ inflight' = NoCmd
    /\ EnterStartup
    /\ UNCHANGED <<callerVars, queue, reply, backoff, caps, lastEvent,
                   conn, toServer, mpdVars, history>>

ResponseLost == conn = "cut" /\ toClient = <<>>

AuthFails ==
    /\ phase = "auth"
    /\ \/ ResponseLost
       \/ toClient # <<>> /\ Head(toClient).status # "OK"
    /\ Lose
    /\ UNCHANGED reply

\* `Reconnected` goes out between the capabilities and the priming snapshot.
StartupSend ==
    /\ phase = "startup"
    /\ inflight = NoCmd
    /\ todo # <<>>
    /\ Transmit(Head(todo))
    /\ lastEvent' = IF Head(todo) = "status" THEN "Reconnected" ELSE lastEvent
    /\ UNCHANGED <<callerVars, queue, reply, phase, todo, got, backoff,
                   caps, mpdVars, history>>

\* Mutant: a startup command that MPD refuses ends the session.
StartupAnsweredStrictly ==
    /\ phase = "startup"
    /\ inflight # NoCmd /\ todo # <<>>
    /\ toClient # <<>>
    /\ \/ /\ Head(toClient).status = "OK"
          /\ toClient' = Tail(toClient)
          /\ got' = got \cup {inflight}
          /\ caps' = (caps \/ inflight = "commands")
          /\ inflight' = NoCmd
          /\ todo' = Tail(todo)
          /\ UNCHANGED <<callerVars, queue, reply, phase, backoff, lastEvent,
                         conn, toServer, mpdVars, history>>
       \/ /\ Head(toClient).status = "ACK"
          /\ Lose
          /\ UNCHANGED reply

StartupAnswered ==
    /\ phase = "startup"
    /\ inflight # NoCmd /\ todo # <<>>
    /\ toClient # <<>>
    /\ toClient' = Tail(toClient)
    /\ got' = got \cup {inflight}
    /\ caps' = IF inflight = "commands" THEN Head(toClient).status = "OK" ELSE caps
    /\ inflight' = NoCmd
    /\ todo' = Tail(todo)
    /\ UNCHANGED <<callerVars, queue, reply, phase, backoff, lastEvent,
                   conn, toServer, mpdVars, history>>

\* A failed startup command is skipped: the session goes on.
StartupFailed ==
    /\ phase = "startup"
    /\ inflight # NoCmd /\ todo # <<>>
    /\ ResponseLost
    /\ inflight' = NoCmd
    /\ todo' = Tail(todo)
    /\ UNCHANGED <<callerVars, queue, reply, phase, got, backoff, caps,
                   lastEvent, wireVars, mpdVars, history>>

StartupDone ==
    /\ phase = "startup"
    /\ todo = <<>>
    /\ phase' = "select"
    /\ lastEvent' = IF {"status", "currentsong"} \subseteq got THEN "Snapshot" ELSE lastEvent
    /\ UNCHANGED <<callerVars, queue, reply, todo, got, inflight, backoff,
                   caps, wireVars, mpdVars, history>>

\* Mutant: the newest request is served first.
TakeNewest ==
    /\ phase = "select"
    /\ inflight = NoCmd
    /\ queue # <<>>
    /\ Transmit(queue[Len(queue)])
    /\ queue' = SubSeq(queue, 1, Len(queue) - 1)
    /\ UNCHANGED <<callerVars, reply, phase, todo, got, backoff, caps,
                   lastEvent, mpdVars, history>>

TakeRequest ==
    /\ phase = "select"
    /\ inflight = NoCmd
    /\ queue # <<>>
    /\ Transmit(Head(queue))
    /\ queue' = Tail(queue)
    /\ UNCHANGED <<callerVars, reply, phase, todo, got, backoff, caps,
                   lastEvent, mpdVars, history>>

\* Mutant: the ping's response is left unread.
KeepaliveUnread ==
    /\ phase = "select"
    /\ inflight = NoCmd
    /\ conn = "open" /\ toServer = <<>>
    /\ toServer' = <<"noop">>
    /\ UNCHANGED <<callerVars, queue, reply, sessionVars, conn, toClient, mpdVars, history>>

Keepalive ==
    /\ phase = "select"
    /\ inflight = NoCmd
    /\ Transmit("noop")
    /\ UNCHANGED <<callerVars, queue, reply, phase, todo, got, backoff, caps,
                   lastEvent, mpdVars, history>>

\* Hand a result to the caller of the command in flight; nobody listens for a
\* keepalive's, and a caller that has left ignores its own.
Deliver(result) ==
    reply' = IF inflight \in Requests THEN [reply EXCEPT ![inflight] = result] ELSE reply

ReadResponse ==
    /\ phase = "select"
    /\ inflight # NoCmd
    /\ toClient # <<>>
    /\ toClient' = Tail(toClient)
    /\ Deliver(Head(toClient))
    /\ inflight' = NoCmd
    /\ UNCHANGED <<callerVars, queue, phase, todo, got, backoff, caps,
                   lastEvent, conn, toServer, mpdVars, history>>

\* Mutant: the request in flight is put back to be sent again.
SessionFailsRequeue ==
    /\ phase = "select"
    /\ inflight # NoCmd
    /\ ResponseLost
    /\ queue' = IF inflight \in Requests THEN <<inflight>> \o queue ELSE queue
    /\ phase' = "retry"
    /\ lastEvent' = "Disconnected"
    /\ conn' = "none" /\ toServer' = <<>> /\ toClient' = <<>>
    /\ inflight' = NoCmd
    /\ UNCHANGED <<callerVars, reply, todo, got, backoff, caps, mpdVars, history>>

\* Mutant: the request in flight is kept but never answered.
SessionFailsSilently ==
    /\ phase = "select"
    /\ inflight # NoCmd
    /\ ResponseLost
    /\ UNCHANGED reply
    /\ Lose

\* Mutant: the failure of a ping is ignored.
PingFailsUnnoticed ==
    /\ phase = "select"
    /\ inflight # NoCmd
    /\ ResponseLost
    /\ Deliver(Lost)
    /\ IF inflight = "noop"
       THEN /\ inflight' = NoCmd
            /\ UNCHANGED <<callerVars, queue, phase, todo, got, backoff, caps,
                           lastEvent, wireVars, mpdVars, history>>
       ELSE Lose

SessionFails ==
    /\ phase = "select"
    /\ inflight # NoCmd
    /\ ResponseLost
    /\ Deliver(Lost)
    /\ Lose

-----------------------------------------------------------------------------
(* MPD, seen from the client: it processes the commands of a connection in *)
(* order, and may close the connection or go away between any two steps.   *)

VerdictsOn(c) ==
    IF c = "password" THEN (IF Password = "right" THEN {"OK"} ELSE {"ACK"})
    ELSE IF c \in {"commands", "notcommands", "noop"} THEN {"OK"}
    ELSE Statuses

Serve ==
    /\ conn = "open"
    /\ toServer # <<>>
    /\ LET c == Head(toServer) IN
       \E v \in VerdictsOn(c) :
          /\ toServer' = Tail(toServer)
          /\ toClient' = Append(toClient, [status |-> v, of |-> c])
          /\ IF c \in Requests
             THEN /\ executed' = [executed EXCEPT ![c] = @ + 1]
                  /\ verdict' = [verdict EXCEPT ![c] = v]
             ELSE UNCHANGED <<executed, verdict>>
    /\ UNCHANGED <<callerVars, queue, reply, sessionVars, conn, mpdVars, ticket, sent>>

\* The connection closes: what MPD had not read is dropped, what it had answered
\* may or may not still be read.
Close ==
    /\ conn = "open"
    /\ conn' = "cut"
    /\ toServer' = <<>>
    /\ toClient' \in {toClient, <<>>}

MpdClosesConnection ==
    /\ cuts < MaxCuts
    /\ Close
    /\ cuts' = cuts + 1
    /\ UNCHANGED <<callerVars, queue, reply, sessionVars, mpd, history>>

MpdStops ==
    /\ mpd = "up"
    /\ cuts < MaxCuts
    /\ mpd' = "down"
    /\ IF conn = "open" THEN Close ELSE UNCHANGED wireVars
    /\ cuts' = cuts + 1
    /\ UNCHANGED <<callerVars, queue, reply, sessionVars, history>>

MpdStarts ==
    /\ mpd = "down"
    /\ mpd' = "up"
    /\ UNCHANGED <<callerVars, queue, reply, sessionVars, wireVars, cuts, history>>

-----------------------------------------------------------------------------
Caller(r) == Submit(r) \/ Enqueue(r) \/ Receive(r) \/ TimeOut(r) \/ Abandon(r)

Session == \/ Wake \/ Connect \/ ConnectRefused \/ ReadGreeting \/ GreetingFails
           \/ AuthAccepted \/ AuthFails
           \/ StartupSend \/ StartupAnswered \/ StartupFailed \/ StartupDone
           \/ TakeRequest \/ Keepalive \/ ReadResponse \/ SessionFails

Mpd == Serve \/ MpdClosesConnection \/ MpdStops \/ MpdStarts

Next == (\E r \in Requests : Caller(r)) \/ Session \/ Mpd

Spec == Init /\ [][Next]_vars

\* The runtime polls every task that can make progress.  A sender waits in the
\* channel's first-come-first-served queue of permits, and `select!` picks at
\* random among its ready branches, so neither is passed over for ever.
ClientFairness ==
    /\ \A r \in Requests : /\ SF_vars(Enqueue(r))
                           /\ WF_vars(Receive(r))
                           /\ WF_vars(TimeOut(r))
    /\ WF_vars(Wake \/ Connect \/ ConnectRefused)
    /\ WF_vars(ReadGreeting \/ GreetingFails)
    /\ WF_vars(AuthAccepted \/ AuthFails)
    /\ WF_vars(StartupSend \/ StartupAnswered \/ StartupFailed \/ StartupDone)
    /\ SF_vars(TakeRequest)
    /\ WF_vars(Keepalive)
    /\ WF_vars(ReadResponse \/ SessionFails)

\* MPD may stop answering (a long database scan, a stuck output).
WedgedSpec == Spec /\ ClientFairness

\* A healthy MPD answers what it is sent and comes back when it has stopped.
MpdFairness == WF_vars(Serve) /\ WF_vars(MpdStarts)

-----------------------------------------------------------------------------
(* Safety.                                                                 *)

\* A caller is only ever given MPD's answer to its own command: responses are
\* matched to requests by position alone, so one response left unread on a
\* reused connection would shift every later answer (run_command_session).
AnswersAreOwn ==
    \A r \in Requests :
        /\ reply[r].status \in Statuses =>
              reply[r].of = r /\ reply[r].status = verdict[r]
        /\ outcome[r].status \in Statuses =>
              outcome[r].of = r /\ outcome[r].status = verdict[r]

\* MPD processes a request at most once, however often the connection is lost
\* and re-opened: a request in flight at the loss is failed, never re-sent.
AtMostOnce == \A r \in Requests : executed[r] <= 1

\* A caller that waits is never forgotten: its request is in the channel or in
\* flight, or its oneshot already holds the result (reconnects included).
NoLostWaiter ==
    \A r \in Requests :
        pc[r] = "waiting" =>
            \/ \E i \in 1..Len(queue) : queue[i] = r
            \/ inflight = r
            \/ reply[r] # Nothing

\* Subscribers are told "Disconnected" before the client has nothing to serve
\* them with, and "Reconnected" before the first request of a new session.
NoticeMatchesSession ==
    /\ phase = "select" => lastEvent \in {"Reconnected", "Snapshot"}
    /\ phase \in {"retry", "backoff", "connect", "greeting", "auth"} =>
           lastEvent \in {"none", "Disconnected"}

\* `capabilities` sends a noop to make sure the startup handshake has fetched
\* the command list: once MPD has answered any request, the list is known.
CapabilitiesKnown ==
    (\E r \in Requests : verdict[r] # "none") => caps

\* Requests reach MPD in the order in which they entered the channel, also
\* across reconnects: the compound queue edits of the HTTP routes rely on it.
InOrder ==
    [][\A r \in Requests : executed'[r] # executed[r] =>
          \A q \in Requests \ {r} : executed[q] > 0 => ticket[q] < ticket[r]]_vars

-----------------------------------------------------------------------------
(* The channel implements RequestReply.                                    *)

ToldCaller(r) ==
    IF outcome[r].status \in {"lost", "timeout", "abandoned"} THEN "unknown"
    ELSE outcome[r].status

Abstract == INSTANCE RequestReply WITH
                effect <- verdict,
                outcome <- [r \in Requests |-> ToldCaller(r)]

\* Every behaviour of the channel is one RequestReply allows: no request takes
\* effect twice, no answer is another request's, no withdrawn request acts.
ImplementsRequestReply == Abstract!Spec

-----------------------------------------------------------------------------
(* The inductive invariant behind the safety properties.                   *)

InChannel(r) == \E i \in 1..Len(queue) : queue[i] = r

\* One command at a time: what is on the wire, in either direction, belongs to
\* the command send_one is waiting for, and nothing is left over between two.
WireInv ==
    /\ inflight = NoCmd => toServer = <<>> /\ toClient = <<>>
    /\ toServer # <<>> => toServer = <<inflight>> /\ toClient = <<>>
    /\ toClient # <<>> => Len(toClient) = 1 /\ toClient[1].of = inflight
    /\ conn = "open" \/ toServer = <<>>
    /\ phase = "auth" => inflight = "password"
    /\ phase \in {"connect", "greeting", "retry", "backoff"} => inflight = NoCmd
    /\ inflight \in Requests => phase = "select"

\* Tickets grow along the path of a request: processed, in flight, in the channel.
OrderInv ==
    /\ \A i \in 1..Len(queue) : ticket[queue[i]] \in 1..sent
    /\ \A i, j \in 1..Len(queue) : i < j => ticket[queue[i]] < ticket[queue[j]]
    /\ inflight \in Requests =>
          /\ ticket[inflight] \in 1..sent
          /\ \A i \in 1..Len(queue) : ticket[inflight] < ticket[queue[i]]
    /\ \A q \in Requests : executed[q] > 0 =>
          /\ ticket[q] \in 1..sent
          /\ \A i \in 1..Len(queue) : ticket[q] < ticket[queue[i]]
          /\ inflight \in Requests \ {q} => ticket[q] < ticket[inflight]

\* Where a request is and what MPD has done about it: it is processed only while
\* it is on the wire, and its oneshot is filled only when it has left it.
RequestInv ==
    \A r \in Requests :
        /\ executed[r] \in {0, 1}
        /\ executed[r] = 0 <=> verdict[r] = "none"
        /\ pc[r] \in {"idle", "sending"} \/ outcome[r].status = "withdrawn" =>
              ticket[r] = 0 /\ executed[r] = 0
        /\ InChannel(r) \/ inflight = r \/ pc[r] \in {"idle", "sending"} => reply[r] = Nothing
        /\ toServer = <<r>> => executed[r] = 0
        /\ toClient # <<>> /\ inflight = r => verdict[r] = toClient[1].status
        /\ pc[r] = "done" <=> outcome[r] # Nothing

IInv == WireInv /\ OrderInv /\ RequestInv /\ AnswersAreOwn /\ NoLostWaiter

\* How far the startup of a session has got: what it has announced, and what it knows
\* once "commands" is behind it, unless the connection is lost already.
StartupRests == {Startup, Tail(Startup), Tail(Tail(Startup)), <<"currentsong">>, <<>>}

SessionInv ==
    /\ phase = "startup" =>
          /\ todo \in StartupRests
          /\ inflight = NoCmd \/ (todo # <<>> /\ inflight = Head(todo))
          /\ inflight = "status" \/ todo \in {<<"currentsong">>, <<>>} => lastEvent = "Reconnected"
    /\ toClient # <<>> /\ toClient[1].of = "commands" => toClient[1].status = "OK"
    /\ conn = "open" /\ (phase = "select" \/ (phase = "startup" /\ todo # Startup)) => caps
    /\ NoticeMatchesSession /\ CapabilitiesKnown

-----------------------------------------------------------------------------
(* Liveness.                                                               *)

\* A request in the channel or in flight is answered or timed out, even by a
\* wedged MPD (MpdConfig::command_timeout).
WaitersTimeOut == \A r \in Timed : pc[r] = "waiting" ~> pc[r] = "done"

\* "A wedged MPD must not leave the user's request pending forever": a request
\* made through send_raw ends, also one still waiting for room in the channel.
SendersTimeOut == \A r \in Timed : pc[r] = "sending" ~> pc[r] = "done"

\* The idle task's requests have no timeout: they are answered as long as MPD
\* answers and its outages end, so the idle task cannot be stuck behind them.
IdleTaskAnswered ==
    MpdFairness => \A r \in Requests \ Timed : pc[r] = "waiting" ~> pc[r] = "done"

\* A connection that a healthy MPD has closed is noticed without any caller's help:
\* the keepalive finds it (comment above the select loop).
DeadConnectionNoticed == MpdFairness => (conn = "cut" ~> conn # "cut")

\* Once the losses end, the client comes back to a healthy MPD and announces it.
ComesBack == MpdFairness => []<>(phase = "select")
=============================================================================
