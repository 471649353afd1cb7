------------------------ MODULE CommandChannelProofs ------------------------
(* Proofs about CommandChannel, for every value of its constants. *)
EXTENDS CommandChannel, TLAPS

\* Writing a command keeps the wire well typed.
LEMMA TransmitType ==
    ASSUME TypeOK, NEW c \in Commands, Transmit(c)
    PROVE  /\ inflight' \in Commands \cup {NoCmd}
           /\ conn' \in {"none", "open", "cut"}
           /\ toServer' \in Seq(Commands)
           /\ toClient' \in Seq(Responses)
BY DEF TypeOK, Transmit

\* Losing the session keeps everything but `reply`, which Lose leaves to its
\* caller, well typed.
LEMMA LoseType ==
    ASSUME TypeOK, Lose, reply' \in [Requests -> {Nothing, Lost} \cup Responses]
    PROVE  TypeOK'
BY DEF TypeOK, Lose, Phases, Established, callerVars, mpdVars, history

\* Closing the connection keeps the wire well typed.
LEMMA CloseType ==
    ASSUME TypeOK, Close
    PROVE  toClient' \in Seq(Responses) /\ toServer' \in Seq(Commands)
<1>1. toClient \in Seq(Responses) /\ <<>> \in Seq(Responses)
  BY DEF TypeOK
<1>2. toClient' = toClient \/ toClient' = <<>>
  BY DEF Close
<1>3. toServer' = <<>> /\ <<>> \in Seq(Commands)
  BY DEF Close
<1>4. QED BY <1>1, <1>2, <1>3

\* Every variable stays in its range: in particular the channel never holds more
\* than Capacity requests and the backoff stays within its bounds.
THEOREM TypeCorrect == Spec => []TypeOK
<1>1. Init => TypeOK
  <2> SUFFICES ASSUME Init PROVE TypeOK
    OBVIOUS
  <2>1. /\ queue \in Seq(Requests) /\ Len(queue) <= Capacity
        /\ todo \in Seq(StartupCmds)
        /\ toServer \in Seq(Commands)
        /\ toClient \in Seq(Responses)
    BY CapacityAssumption DEF Init
  <2>2. backoff \in BackoffMin..BackoffMax /\ cuts \in 0..MaxCuts
    BY BackoffAssumption, CutsAssumption DEF Init
  <2>3. QED BY <2>1, <2>2 DEF Init, TypeOK, Phases
<1>2. TypeOK /\ [Next]_vars => TypeOK'
  <2> SUFFICES ASSUME TypeOK, [Next]_vars PROVE TypeOK'
    OBVIOUS
  <2> USE DEF callerVars, sessionVars, wireVars, mpdVars, history
  <2>1. ASSUME NEW r \in Requests, Submit(r) PROVE TypeOK'
    BY <2>1 DEF TypeOK, Submit
  <2>2. ASSUME NEW r \in Requests, Enqueue(r) PROVE TypeOK'
    BY <2>2, CapacityAssumption DEF TypeOK, Enqueue
  <2>3. ASSUME NEW r \in Requests, NEW out, Finish(r, out),
               out \in {Nothing, Lost, Gave("timeout"), Gave("abandoned"),
                        Gave("withdrawn")} \cup Responses
        PROVE  TypeOK'
    BY <2>3 DEF TypeOK, Finish
  <2>4. ASSUME NEW r \in Requests, Receive(r) PROVE TypeOK'
    <3>1. reply[r] \in {Nothing, Lost} \cup Responses
      BY DEF TypeOK
    <3>2. QED BY <2>3, <2>4, <3>1 DEF Receive
  <2>5. ASSUME NEW r \in Requests, TimeOut(r) PROVE TypeOK'
    BY <2>3, <2>5 DEF TimeOut
  <2>6. ASSUME NEW r \in Requests, Abandon(r) PROVE TypeOK'
    BY <2>3, <2>6 DEF Abandon
  <2>7. CASE Wake
    BY <2>7, BackoffAssumption DEF TypeOK, Wake, Phases
  <2>8. CASE Connect
    BY <2>8 DEF TypeOK, Connect, Phases
  <2>9. CASE ConnectRefused \/ GreetingFails \/ AuthFails
    <3>1. Lose /\ reply' = reply
      BY <2>9 DEF ConnectRefused, GreetingFails, AuthFails
    <3>2. QED BY <3>1, LoseType DEF TypeOK
  <2>10. Startup \in Seq(StartupCmds)
    BY DEF Startup, StartupCmds
  <2>11. CASE ReadGreeting
    <3>1. "password" \in Commands
      BY DEF Commands, Internal
    <3>2. CASE Password = "none"
      BY <2>11, <3>2, <2>10 DEF TypeOK, ReadGreeting, EnterStartup, Phases
    <3>3. CASE Password # "none"
      BY <2>11, <3>1, <3>3, TransmitType DEF TypeOK, ReadGreeting, Phases
    <3>4. QED BY <3>2, <3>3
  <2>12. CASE AuthAccepted
    BY <2>12, <2>10 DEF TypeOK, AuthAccepted, EnterStartup, Phases
  <2>13. CASE StartupSend
    <3>1. Head(todo) \in Commands
      BY <2>13 DEF TypeOK, StartupSend, Commands, Internal
    <3>2. QED BY <2>13, <3>1, TransmitType DEF TypeOK, StartupSend
  <2>14. CASE StartupAnswered
    <3>1. got' \subseteq Commands
      BY <2>14 DEF TypeOK, StartupAnswered
    <3>2. toClient' \in Seq(Responses) /\ todo' \in Seq(StartupCmds)
      BY <2>14 DEF TypeOK, StartupAnswered
    <3>. caps' \in BOOLEAN
      BY <2>14, Zenon DEF TypeOK, StartupAnswered
    <3>3. /\ inflight' = NoCmd
          /\ UNCHANGED <<callerVars, queue, reply, phase, backoff, lastEvent,
                         conn, toServer, mpdVars, history>>
      BY <2>14 DEF StartupAnswered
    <3>4. QED BY <3>1, <3>2, <3>3 DEF TypeOK
  <2>15. CASE StartupFailed
    BY <2>15 DEF TypeOK, StartupFailed
  <2>16. CASE StartupDone
    BY <2>16 DEF TypeOK, StartupDone, Phases
  <2>17. CASE TakeRequest
    <3>1. Head(queue) \in Commands
      BY <2>17 DEF TypeOK, TakeRequest, Commands
    <3>2. queue' \in Seq(Requests) /\ Len(queue') <= Capacity
      BY <2>17, CapacityAssumption DEF TypeOK, TakeRequest
    <3>3. QED BY <2>17, <3>1, <3>2, TransmitType DEF TypeOK, TakeRequest
  <2>18. CASE Keepalive
    <3>1. "noop" \in Commands
      BY DEF Commands, Internal
    <3>2. QED BY <2>18, <3>1, TransmitType DEF TypeOK, Keepalive
  <2>19. CASE ReadResponse
    BY <2>19 DEF TypeOK, ReadResponse, Deliver
  <2>20. CASE SessionFails
    <3>1. reply' \in [Requests -> {Nothing, Lost} \cup Responses]
      BY <2>20 DEF TypeOK, SessionFails, Deliver
    <3>2. QED BY <2>20, <3>1, LoseType DEF SessionFails
  <2>21. CASE Serve
    <3> DEFINE c == Head(toServer)
    <3>0. c \in Commands
      BY <2>21 DEF TypeOK, Serve
    <3>1. PICK v \in Statuses :
             /\ toServer' = Tail(toServer)
             /\ toClient' = Append(toClient, [status |-> v, of |-> c])
             /\ IF c \in Requests
                THEN /\ executed' = [executed EXCEPT ![c] = @ + 1]
                     /\ verdict' = [verdict EXCEPT ![c] = v]
                ELSE UNCHANGED <<executed, verdict>>
      BY <2>21 DEF Serve, VerdictsOn, Statuses
    <3> HIDE DEF c
    <3>2. toServer' \in Seq(Commands)
      BY <2>21, <3>1 DEF TypeOK, Serve
    <3>3. toClient' \in Seq(Responses)
      BY <3>0, <3>1 DEF TypeOK, Responses
    <3>4. executed' \in [Requests -> Nat] /\ verdict' \in [Requests -> Statuses \cup {"none"}]
      <4>1. CASE c \in Requests
        <5> executed \in [Requests -> Nat]
          BY DEF TypeOK
        <5> executed' = [executed EXCEPT ![c] = executed[c] + 1]
          BY <3>1, <4>1, Zenon
        <5>1. executed' \in [Requests -> Nat]
          BY <4>1
        <5>2. verdict' \in [Requests -> Statuses \cup {"none"}]
          BY <3>1, <4>1 DEF TypeOK
        <5>3. QED BY <5>1, <5>2
      <4>2. CASE c \notin Requests
        BY <3>1, <4>2 DEF TypeOK
      <4>3. QED BY <4>1, <4>2
    <3>5. UNCHANGED <<callerVars, queue, reply, sessionVars, conn, mpdVars, ticket, sent>>
      BY <2>21 DEF Serve
    <3>6. QED BY <3>2, <3>3, <3>4, <3>5 DEF TypeOK
  <2>22. CASE MpdClosesConnection
    <3>1. toClient' \in Seq(Responses) /\ toServer' \in Seq(Commands)
      BY <2>22, CloseType DEF MpdClosesConnection
    <3>. cuts' \in 0..MaxCuts
      BY <2>22, CutsAssumption DEF TypeOK, MpdClosesConnection
    <3>2. conn' = "cut" /\ UNCHANGED <<callerVars, queue, reply, sessionVars, mpd, history>>
      BY <2>22 DEF MpdClosesConnection, Close
    <3>3. QED BY <3>1, <3>2 DEF TypeOK
  <2>23. CASE MpdStops
    <3>1. toClient' \in Seq(Responses) /\ toServer' \in Seq(Commands)
          /\ conn' \in {"none", "open", "cut"}
      <4>1. CASE conn = "open"
        BY <2>23, <4>1, CloseType DEF MpdStops, Close
      <4>2. CASE conn # "open"
        BY <2>23, <4>2 DEF TypeOK, MpdStops
      <4>3. QED BY <4>1, <4>2
    <3>2. cuts' \in 0..MaxCuts
      BY <2>23, CutsAssumption DEF TypeOK, MpdStops
    <3>3. mpd' = "down" /\ UNCHANGED <<callerVars, queue, reply, sessionVars, history>>
      BY <2>23 DEF MpdStops
    <3>4. QED BY <3>1, <3>2, <3>3 DEF TypeOK
  <2>24. CASE MpdStarts
    BY <2>24 DEF TypeOK, MpdStarts
  <2>25. CASE UNCHANGED vars
    BY <2>25 DEF TypeOK, vars
  <2>26. QED
    BY <2>1, <2>2, <2>4, <2>5, <2>6, <2>7, <2>8, <2>9, <2>11, <2>12, <2>13, <2>14,
       <2>15, <2>16, <2>17, <2>18, <2>19, <2>20, <2>21, <2>22, <2>23, <2>24, <2>25
    DEF Next, Caller, Session, Mpd
<1>3. QED BY <1>1, <1>2, PTL DEF Spec

-----------------------------------------------------------------------------
(* The inductive invariant.                                                *)

\* Names of the session's own commands are not requests, nor is NoCmd.
LEMMA InternalNotRequests ==
    /\ \A c \in Internal : c \notin Requests
    /\ NoCmd \notin Requests
BY RequestsAssumption

\* Nothing has been sent and nobody waits.
LEMMA InitInvariant == Init => IInv
<1> SUFFICES ASSUME Init PROVE IInv
  OBVIOUS
<1>1. WireInv
  BY InternalNotRequests DEF Init, WireInv
<1>2. OrderInv
  BY InternalNotRequests DEF Init, OrderInv
<1>3. RequestInv
  BY InternalNotRequests DEF Init, RequestInv, InChannel, Nothing
<1>4. AnswersAreOwn /\ NoLostWaiter
  BY DEF Init, AnswersAreOwn, NoLostWaiter, Nothing, Statuses
<1>5. QED BY <1>1, <1>2, <1>3, <1>4 DEF IInv

\* A step that leaves alone everything the invariant reads but the phase.
LEMMA FrameInvariant ==
    ASSUME TypeOK, IInv,
           UNCHANGED <<pc, outcome, queue, reply, inflight, conn, toServer, toClient,
                       executed, verdict, ticket, sent>>,
           inflight \notin Requests,
           phase' = "auth" => inflight = "password",
           phase' \in {"connect", "greeting", "retry", "backoff"} => inflight = NoCmd
    PROVE  IInv'
<1>1. WireInv'
  BY DEF IInv, WireInv
<1>2. OrderInv'
  BY DEF IInv, OrderInv
<1>3. RequestInv'
  BY DEF IInv, RequestInv, InChannel
<1>4. AnswersAreOwn' /\ NoLostWaiter'
  BY DEF IInv, AnswersAreOwn, NoLostWaiter
<1>5. QED BY <1>1, <1>2, <1>3, <1>4 DEF IInv

\* A caller takes note of a result; `out` is its reply, or carries no answer.
LEMMA FinishInvariant ==
    ASSUME TypeOK, IInv, NEW r \in Requests, NEW out, Finish(r, out),
           pc[r] \in {"sending", "waiting"},
           out # Nothing,
           out.status \in Statuses => out = reply[r],
           out.status = "withdrawn" => pc[r] = "sending"
    PROVE  IInv'
<1> USE DEF callerVars, sessionVars, wireVars, mpdVars, history
<1>0. /\ pc' = [pc EXCEPT ![r] = "done"] /\ outcome' = [outcome EXCEPT ![r] = out]
      /\ UNCHANGED <<queue, reply, sessionVars, wireVars, mpdVars, history>>
  BY DEF Finish
<1>1. WireInv'
  BY <1>0 DEF IInv, WireInv
<1>2. OrderInv'
  BY <1>0 DEF IInv, OrderInv
<1>3. RequestInv'
  <2> SUFFICES ASSUME NEW q \in Requests PROVE RequestInv!(q)'
    BY DEF RequestInv
  <2> QED BY <1>0 DEF IInv, RequestInv, InChannel, TypeOK
<1>4. AnswersAreOwn'
  BY <1>0 DEF IInv, AnswersAreOwn, TypeOK
<1>5. NoLostWaiter'
  BY <1>0 DEF IInv, NoLostWaiter, TypeOK
<1>6. QED BY <1>1, <1>2, <1>3, <1>4, <1>5 DEF IInv

\* A request enters the channel with the highest ticket so far.
LEMMA EnqueueInvariant ==
    ASSUME TypeOK, IInv, NEW r \in Requests, Enqueue(r)
    PROVE  IInv'
<1> USE DEF callerVars, sessionVars, wireVars, mpdVars, history
<1>0. /\ pc[r] = "sending"
      /\ pc' = [pc EXCEPT ![r] = "waiting"]
      /\ queue' = Append(queue, r)
      /\ ticket' = [ticket EXCEPT ![r] = sent + 1]
      /\ sent' = sent + 1
      /\ UNCHANGED <<outcome, reply, sessionVars, wireVars, mpdVars, executed, verdict>>
  BY DEF Enqueue
<1>1. /\ Len(queue') = Len(queue) + 1
      /\ queue'[Len(queue) + 1] = r
      /\ \A i \in 1..Len(queue) : queue'[i] = queue[i]
  BY <1>0 DEF TypeOK
<1>2. /\ ticket[r] = 0 /\ executed[r] = 0
      /\ outcome[r].status # "withdrawn"
      /\ reply[r] = Nothing
      /\ inflight # r /\ \A i \in 1..Len(queue) : queue[i] # r
  <2>1. ticket[r] = 0 /\ executed[r] = 0 /\ reply[r] = Nothing
    BY <1>0 DEF IInv, RequestInv
  <2>2. inflight # r /\ \A i \in 1..Len(queue) : queue[i] # r
    BY <2>1 DEF IInv, OrderInv
  <2>3. outcome[r].status # "withdrawn"
    BY <1>0 DEF IInv, RequestInv, Nothing
  <2>4. QED BY <2>1, <2>2, <2>3
<1>3. WireInv'
  BY <1>0 DEF IInv, WireInv
<1>4. OrderInv'
  <2>1. /\ sent \in Nat /\ ticket' \in [Requests -> Nat] /\ ticket'[r] = sent + 1
        /\ \A q \in Requests \ {r} : ticket'[q] = ticket[q]
        /\ \A i \in 1..Len(queue) : queue[i] \in Requests
    BY <1>0 DEF TypeOK
  <2>2. \A i \in 1..Len(queue) : ticket'[queue'[i]] = ticket[queue[i]]
    BY <1>1, <1>2, <2>1
  <2>3. Len(queue) \in Nat
    BY DEF TypeOK
  <2>4. \A i \in 1..Len(queue') : ticket'[queue'[i]] \in 1..sent'
    BY <1>0, <1>1, <2>1, <2>2, <2>3 DEF IInv, OrderInv
  <2>5. \A i, j \in 1..Len(queue') : i < j => ticket'[queue'[i]] < ticket'[queue'[j]]
    <3> SUFFICES ASSUME NEW i \in 1..Len(queue'), NEW j \in 1..Len(queue'), i < j
                 PROVE  ticket'[queue'[i]] < ticket'[queue'[j]]
      OBVIOUS
    <3>1. i \in 1..Len(queue)
      BY <1>1, <2>3
    <3>2. CASE j \in 1..Len(queue)
      BY <2>2, <3>1, <3>2 DEF IInv, OrderInv
    <3>3. CASE j = Len(queue) + 1
      BY <1>1, <2>1, <2>2, <3>1, <3>3 DEF IInv, OrderInv
    <3>4. QED BY <1>1, <2>3, <3>2, <3>3
  <2>6. inflight \in Requests =>
          /\ ticket'[inflight] \in 1..sent'
          /\ \A i \in 1..Len(queue') : ticket'[inflight] < ticket'[queue'[i]]
    BY <1>0, <1>1, <1>2, <2>1, <2>2, <2>3 DEF IInv, OrderInv
  <2>7. \A q \in Requests : executed[q] > 0 =>
          /\ ticket'[q] \in 1..sent'
          /\ \A i \in 1..Len(queue') : ticket'[q] < ticket'[queue'[i]]
          /\ inflight \in Requests \ {q} => ticket'[q] < ticket'[inflight]
    BY <1>0, <1>1, <1>2, <2>1, <2>2, <2>3 DEF IInv, OrderInv
  <2>8. QED BY <1>0, <2>4, <2>5, <2>6, <2>7 DEF OrderInv
<1>5. RequestInv'
  <2> SUFFICES ASSUME NEW q \in Requests PROVE RequestInv!(q)'
    BY DEF RequestInv
  <2>1. CASE q = r
    BY <1>0, <1>2, <2>1 DEF IInv, RequestInv, InChannel, TypeOK
  <2>2. CASE q # r
    <3>1. InChannel(q)' => InChannel(q)
      <4> SUFFICES ASSUME NEW i \in 1..Len(queue'), queue'[i] = q
                   PROVE  InChannel(q)
        BY DEF InChannel
      <4>1. Len(queue) \in Nat
        BY DEF TypeOK
      <4>2. i \in 1..Len(queue)
        BY <1>1, <2>2, <4>1
      <4>3. QED BY <1>1, <4>2 DEF InChannel
    <3>2. QED BY <1>0, <2>2, <3>1 DEF IInv, RequestInv, TypeOK
  <2>3. QED BY <2>1, <2>2
<1>6. AnswersAreOwn'
  BY <1>0 DEF IInv, AnswersAreOwn
<1>7. NoLostWaiter'
  <2> SUFFICES ASSUME NEW q \in Requests, pc'[q] = "waiting"
               PROVE  InChannel(q)' \/ inflight' = q \/ reply'[q] # Nothing
    BY DEF NoLostWaiter, InChannel
  <2>1. CASE q = r
    <3>1. Len(queue) \in Nat
      BY DEF TypeOK
    <3>2. Len(queue) + 1 \in 1..Len(queue')
      BY <1>1, <3>1
    <3>3. queue'[Len(queue) + 1] = q
      BY <1>1, <2>1
    <3>4. QED BY <3>2, <3>3 DEF InChannel
  <2>2. CASE q # r
    <3>1. InChannel(q) => InChannel(q)'
      BY <1>1 DEF InChannel, TypeOK
    <3>2. QED BY <1>0, <2>2, <3>1 DEF IInv, NoLostWaiter, InChannel, TypeOK
  <2>3. QED BY <2>1, <2>2
<1>8. QED BY <1>3, <1>4, <1>5, <1>6, <1>7 DEF IInv

\* A session that is lost while it awaits nothing of a caller's.
LEMMA LoseInvariant ==
    ASSUME TypeOK, IInv, Lose, reply' = reply, inflight \notin Requests
    PROVE  IInv'
<1> USE DEF callerVars, sessionVars, wireVars, mpdVars, history
<1>0. /\ inflight' = NoCmd /\ toServer' = <<>> /\ toClient' = <<>>
      /\ phase' \in {"retry", "backoff"}
      /\ UNCHANGED <<callerVars, queue, history>>
  BY DEF Lose
<1>1. WireInv'
  BY <1>0, InternalNotRequests DEF WireInv
<1>2. OrderInv'
  BY <1>0, InternalNotRequests DEF IInv, OrderInv
<1>3. RequestInv'
  <2> SUFFICES ASSUME NEW q \in Requests PROVE RequestInv!(q)'
    BY DEF RequestInv
  <2> QED BY <1>0, InternalNotRequests DEF IInv, RequestInv, InChannel
<1>4. AnswersAreOwn' /\ NoLostWaiter'
  BY <1>0 DEF IInv, AnswersAreOwn, NoLostWaiter
<1>5. QED BY <1>1, <1>2, <1>3, <1>4 DEF IInv

\* The oldest request of the channel goes on the wire, which is empty.
LEMMA TakeRequestInvariant ==
    ASSUME TypeOK, IInv, TakeRequest
    PROVE  IInv'
<1> USE DEF callerVars, sessionVars, wireVars, mpdVars, history
<1> DEFINE h == Head(queue)
<1>0. /\ phase = "select" /\ inflight = NoCmd /\ queue # <<>>
      /\ inflight' = h /\ queue' = Tail(queue)
      /\ toServer' = IF conn = "open" THEN Append(toServer, h) ELSE toServer
      /\ UNCHANGED <<callerVars, reply, phase, conn, toClient, history>>
  BY DEF TakeRequest, Transmit
<1>1. /\ Len(queue) \in Nat \ {0} /\ Len(queue') = Len(queue) - 1
      /\ h = queue[1] /\ h \in Requests
      /\ \A i \in 1..Len(queue') : queue'[i] = queue[i + 1] /\ i + 1 \in 1..Len(queue)
  BY <1>0 DEF TypeOK
<1>2. toServer = <<>> /\ toClient = <<>>
  BY <1>0 DEF IInv, WireInv
<1>3. toServer' \in {<<>>, <<h>>} /\ (conn # "open" => toServer' = <<>>) /\ toClient' = <<>>
  BY <1>0, <1>2
<1>4. h # NoCmd /\ InChannel(h)
  BY <1>1, InternalNotRequests DEF InChannel
<1> HIDE DEF h
<1>5. WireInv'
  BY <1>0, <1>3, <1>4 DEF WireInv
<1>6. executed[h] = 0 /\ reply[h] = Nothing
  <2>1. ~(executed[h] > 0)
    BY <1>1 DEF IInv, OrderInv, TypeOK
  <2>2. executed[h] \in Nat
    BY <1>1 DEF TypeOK
  <2>3. reply[h] = Nothing
    BY <1>1, <1>4 DEF IInv, RequestInv
  <2>4. QED BY <2>1, <2>2, <2>3
<1>7. OrderInv'
  <2>1. \A i \in 1..Len(queue) : ticket[queue[i]] \in 1..sent
    BY DEF IInv, OrderInv
  <2>2. \A i, j \in 1..Len(queue) : i < j => ticket[queue[i]] < ticket[queue[j]]
    BY DEF IInv, OrderInv
  <2>3. \A i, j \in 1..Len(queue') : i < j => ticket[queue'[i]] < ticket[queue'[j]]
    <3> SUFFICES ASSUME NEW i \in 1..Len(queue'), NEW j \in 1..Len(queue'), i < j
                 PROVE  ticket[queue'[i]] < ticket[queue'[j]]
      OBVIOUS
    <3> QED BY <1>1, <2>2
  <2>4. ticket[h] \in 1..sent /\ \A i \in 1..Len(queue') : ticket[h] < ticket[queue'[i]]
    BY <1>1, <2>1, <2>2
  <2>5. \A i \in 1..Len(queue') : ticket[queue'[i]] \in 1..sent
    BY <1>1, <2>1
  <2>6. \A q \in Requests : executed[q] > 0 =>
          /\ ticket[q] \in 1..sent
          /\ \A i \in 1..Len(queue') : ticket[q] < ticket[queue'[i]]
          /\ ticket[q] < ticket[h]
    BY <1>1 DEF IInv, OrderInv
  <2>7. QED BY <1>0, <2>3, <2>4, <2>5, <2>6 DEF OrderInv
<1>8. RequestInv'
  <2> SUFFICES ASSUME NEW q \in Requests PROVE RequestInv!(q)'
    BY DEF RequestInv
  <2>1. InChannel(q)' => InChannel(q)
    BY <1>1 DEF InChannel
  <2>2. CASE q = h
    BY <1>0, <1>2, <1>3, <1>6, <2>2 DEF IInv, RequestInv
  <2>3. CASE q # h
    <3>1. toServer' # <<q>>
      BY <1>3, <2>3
    <3>2. QED BY <1>0, <1>2, <2>1, <2>3, <3>1 DEF IInv, RequestInv
  <2>4. QED BY <2>2, <2>3
<1>9. AnswersAreOwn'
  BY <1>0 DEF IInv, AnswersAreOwn
<1>10. NoLostWaiter'
  <2> SUFFICES ASSUME NEW q \in Requests, pc'[q] = "waiting"
               PROVE  InChannel(q)' \/ inflight' = q \/ reply'[q] # Nothing
    BY DEF NoLostWaiter, InChannel
  <2>1. InChannel(q) \/ reply[q] # Nothing
    BY <1>0, InternalNotRequests DEF IInv, NoLostWaiter, InChannel
  <2>2. CASE InChannel(q) /\ q # h
    <3>1. PICK i \in 1..Len(queue) : queue[i] = q
      BY <2>2 DEF InChannel
    <3>2. i - 1 \in 1..Len(queue') /\ queue'[i - 1] = q
      BY <1>1, <2>2, <3>1
    <3>3. QED BY <3>2 DEF InChannel
  <2>3. QED BY <1>0, <2>1, <2>2
<1>11. QED BY <1>5, <1>7, <1>8, <1>9, <1>10 DEF IInv

\* The session's own commands, written when nothing is in flight.
LEMMA TransmitInvariant ==
    ASSUME TypeOK, IInv, NEW c \in Internal, Transmit(c), inflight = NoCmd,
           phase' = phase \/ phase' = "auth",
           phase' = "auth" => c = "password",
           phase' \notin {"connect", "greeting", "retry", "backoff"},
           UNCHANGED <<pc, outcome, queue, reply, executed, verdict, ticket, sent>>
    PROVE  IInv'
<1>0. /\ inflight' = c /\ toServer = <<>> /\ toClient = <<>>
      /\ toServer' \in {<<>>, <<c>>} /\ (conn' # "open" => toServer' = <<>>)
      /\ toClient' = <<>>
  BY DEF IInv, WireInv, Transmit
<1>1. c \notin Requests /\ c # NoCmd
  BY InternalNotRequests DEF Internal, StartupCmds, NoCmd
<1>2. WireInv'
  BY <1>0, <1>1 DEF WireInv
<1>3. OrderInv'
  BY <1>0, <1>1 DEF IInv, OrderInv
<1>4. RequestInv'
  <2> SUFFICES ASSUME NEW q \in Requests PROVE RequestInv!(q)'
    BY DEF RequestInv
  <2>1. toServer' # <<q>>
    BY <1>0, <1>1
  <2>2. QED BY <1>0, <1>1, <2>1 DEF IInv, RequestInv, InChannel
<1>5. AnswersAreOwn'
  BY DEF IInv, AnswersAreOwn
<1>6. NoLostWaiter'
  BY <1>0, InternalNotRequests DEF IInv, NoLostWaiter
<1>7. QED BY <1>2, <1>3, <1>4, <1>5, <1>6 DEF IInv

\* A response is taken off the wire, or given up, and its result delivered: the
\* session's own commands have no oneshot, a request's is filled with `res`.
LEMMA DeliverInvariant ==
    ASSUME TypeOK, IInv, NEW res \in {Lost} \cup Responses,
           inflight # NoCmd,
           inflight' = NoCmd, toServer' = <<>>, toClient' = <<>>,
           Deliver(res),
           res \in Responses => toClient # <<>> /\ res = toClient[1],
           phase' # "auth",
           UNCHANGED <<pc, outcome, queue, executed, verdict, ticket, sent>>
    PROVE  IInv'
<1>1. WireInv'
  BY InternalNotRequests DEF WireInv
<1>2. OrderInv'
  BY InternalNotRequests DEF IInv, OrderInv
<1>3. res # Nothing
  BY DEF Nothing, Lost, Responses, Statuses
<1>4. CASE inflight \in Requests
  <2>1. reply' = [reply EXCEPT ![inflight] = res]
    BY <1>4 DEF Deliver
  <2>2. /\ reply'[inflight] = res
        /\ \A q \in Requests \ {inflight} : reply'[q] = reply[q]
    BY <1>4, <2>1 DEF TypeOK
  <2>3. /\ ~InChannel(inflight)
        /\ pc[inflight] \notin {"idle", "sending"}
    BY <1>4 DEF IInv, OrderInv, RequestInv, InChannel, TypeOK
  <2>4. RequestInv'
    <3> SUFFICES ASSUME NEW q \in Requests PROVE RequestInv!(q)'
      BY DEF RequestInv
    <3>1. CASE q = inflight
      BY <2>3, <3>1, InternalNotRequests DEF IInv, RequestInv, InChannel
    <3>2. CASE q # inflight
      BY <2>2, <3>2, InternalNotRequests DEF IInv, RequestInv, InChannel
    <3>3. QED BY <3>1, <3>2
  <2>5. AnswersAreOwn'
    <3>1. res \in Responses => res.of = inflight /\ res.status = verdict[inflight]
      BY <1>4 DEF IInv, WireInv, RequestInv
    <3>2. res.status \in Statuses => res \in Responses
      BY DEF Lost, Statuses
    <3>3. QED BY <2>2, <3>1, <3>2 DEF IInv, AnswersAreOwn
  <2>6. NoLostWaiter'
    BY <1>3, <2>2 DEF IInv, NoLostWaiter
  <2>7. QED BY <1>1, <1>2, <2>4, <2>5, <2>6 DEF IInv
<1>5. CASE inflight \notin Requests
  <2>1. reply' = reply
    BY <1>5 DEF Deliver
  <2>2. RequestInv'
    <3> SUFFICES ASSUME NEW q \in Requests PROVE RequestInv!(q)'
      BY DEF RequestInv
    <3>1. QED BY <1>5, <2>1, InternalNotRequests DEF IInv, RequestInv, InChannel
  <2>3. AnswersAreOwn' /\ NoLostWaiter'
    BY <1>5, <2>1 DEF IInv, AnswersAreOwn, NoLostWaiter
  <2>4. QED BY <1>1, <1>2, <2>2, <2>3 DEF IInv
<1>6. QED BY <1>4, <1>5

\* MPD processes the command on the wire: it is the one in flight, so the only
\* request MPD has been sent and not yet processed.
LEMMA ServeInvariant ==
    ASSUME TypeOK, IInv, Serve
    PROVE  IInv'
<1> USE DEF callerVars, sessionVars, wireVars, mpdVars, history
<1> DEFINE c == Head(toServer)
<1>1. /\ toServer = <<inflight>> /\ toClient = <<>> /\ inflight # NoCmd
      /\ c = inflight
  BY DEF IInv, WireInv, Serve
<1>2. PICK v \in Statuses :
         /\ toServer' = Tail(toServer)
         /\ toClient' = Append(toClient, [status |-> v, of |-> c])
         /\ IF c \in Requests
            THEN /\ executed' = [executed EXCEPT ![c] = @ + 1]
                 /\ verdict' = [verdict EXCEPT ![c] = v]
            ELSE UNCHANGED <<executed, verdict>>
  BY DEF Serve, VerdictsOn, Statuses
<1>3. UNCHANGED <<callerVars, queue, reply, sessionVars, conn, mpdVars, ticket, sent>>
  BY DEF Serve
<1> HIDE DEF c
<1>4. toServer' = <<>> /\ toClient' = <<[status |-> v, of |-> inflight]>>
  BY <1>1, <1>2
<1>5. WireInv'
  BY <1>1, <1>3, <1>4 DEF IInv, WireInv
<1>6. CASE c \notin Requests
  <2>1. executed' = executed /\ verdict' = verdict
    BY <1>2, <1>6
  <2>2. OrderInv'
    BY <1>3, <2>1 DEF IInv, OrderInv
  <2>3. RequestInv'
    <3> SUFFICES ASSUME NEW q \in Requests PROVE RequestInv!(q)'
      BY DEF RequestInv
    <3> QED BY <1>1, <1>3, <1>4, <1>6, <2>1 DEF IInv, RequestInv, InChannel
  <2>4. AnswersAreOwn' /\ NoLostWaiter'
    BY <1>3, <2>1 DEF IInv, AnswersAreOwn, NoLostWaiter
  <2>5. QED BY <1>5, <2>2, <2>3, <2>4 DEF IInv
<1>7. CASE c \in Requests
  <2>1. executed[c] = 0 /\ verdict[c] = "none"
    BY <1>1, <1>7 DEF IInv, RequestInv
  <2>2. /\ executed \in [Requests -> Nat] /\ verdict \in [Requests -> Statuses \cup {"none"}]
        /\ executed' = [executed EXCEPT ![c] = executed[c] + 1]
        /\ verdict' = [verdict EXCEPT ![c] = v]
    <3>1. executed \in [Requests -> Nat] /\ verdict \in [Requests -> Statuses \cup {"none"}]
      BY DEF TypeOK
    <3>2. QED BY <1>2, <1>7, <3>1, Zenon
  <2>3. /\ executed'[c] = 1 /\ verdict'[c] = v
        /\ \A q \in Requests \ {c} : executed'[q] = executed[q] /\ verdict'[q] = verdict[q]
    BY <1>7, <2>1, <2>2
  <2>4. OrderInv'
    BY <1>1, <1>3, <1>7, <2>3 DEF IInv, OrderInv
  <2>5. v # "none" /\ reply[c] = Nothing
    BY <1>1, <1>7 DEF IInv, RequestInv, Statuses
  <2>6. pc[c] \notin {"idle", "sending"} /\ outcome[c].status # "withdrawn"
    BY <1>1, <1>7 DEF IInv, OrderInv, RequestInv, TypeOK
  <2>7. RequestInv'
    <3> SUFFICES ASSUME NEW q \in Requests PROVE RequestInv!(q)'
      BY DEF RequestInv
    <3>1. CASE q = c
      BY <1>3, <1>4, <2>3, <2>5, <2>6, <3>1 DEF IInv, RequestInv, InChannel
    <3>2. CASE q # c
      BY <1>1, <1>3, <1>4, <2>3, <3>2 DEF IInv, RequestInv, InChannel
    <3>3. QED BY <3>1, <3>2
  <2>8. outcome[c].status \notin Statuses /\ reply[c].status \notin Statuses
    BY <1>7, <2>1, <2>5 DEF IInv, AnswersAreOwn, Statuses
  <2>9. AnswersAreOwn'
    BY <1>3, <2>3, <2>8 DEF IInv, AnswersAreOwn
  <2>10. NoLostWaiter'
    BY <1>3 DEF IInv, NoLostWaiter
  <2>11. QED BY <1>5, <2>4, <2>7, <2>9, <2>10 DEF IInv
<1>8. QED BY <1>6, <1>7

\* MPD closes the connection under whatever is in flight.
LEMMA CloseInvariant ==
    ASSUME TypeOK, IInv, Close,
           UNCHANGED <<callerVars, queue, reply, sessionVars, history>>
    PROVE  IInv'
<1> USE DEF callerVars, sessionVars, history
<1>1. conn' = "cut" /\ toServer' = <<>> /\ (toClient' = toClient \/ toClient' = <<>>)
  BY DEF Close
<1>2. WireInv'
  BY <1>1 DEF IInv, WireInv
<1>3. OrderInv'
  BY DEF IInv, OrderInv
<1>4. RequestInv'
  <2> SUFFICES ASSUME NEW q \in Requests PROVE RequestInv!(q)'
    BY DEF RequestInv
  <2> QED BY <1>1 DEF IInv, RequestInv, InChannel
<1>5. AnswersAreOwn' /\ NoLostWaiter'
  BY DEF IInv, AnswersAreOwn, NoLostWaiter
<1>6. QED BY <1>2, <1>3, <1>4, <1>5 DEF IInv

-----------------------------------------------------------------------------
(* The theorems.                                                           *)

\* Every step of callers, session and MPD keeps the invariant.
LEMMA NextInvariant == TypeOK /\ IInv /\ [Next]_vars => IInv'
<1> SUFFICES ASSUME TypeOK, IInv, [Next]_vars PROVE IInv'
  OBVIOUS
<1> USE DEF callerVars, sessionVars, wireVars, mpdVars, history
<1>1. ASSUME NEW r \in Requests, Submit(r) PROVE IInv'
  <2>1. /\ pc[r] = "idle" /\ pc' = [pc EXCEPT ![r] = "sending"]
        /\ UNCHANGED <<outcome, queue, reply, sessionVars, wireVars, mpdVars, history>>
    BY <1>1 DEF Submit
  <2>2. WireInv'
    BY <2>1 DEF IInv, WireInv
  <2>3. OrderInv'
    BY <2>1 DEF IInv, OrderInv
  <2>4. RequestInv'
    <3> SUFFICES ASSUME NEW q \in Requests PROVE RequestInv!(q)'
      BY DEF RequestInv
    <3> QED BY <2>1 DEF IInv, RequestInv, InChannel, TypeOK
  <2>5. AnswersAreOwn' /\ NoLostWaiter'
    BY <2>1 DEF IInv, AnswersAreOwn, NoLostWaiter, TypeOK
  <2>6. QED BY <2>2, <2>3, <2>4, <2>5 DEF IInv
<1>2. ASSUME NEW r \in Requests, Enqueue(r) PROVE IInv'
  BY <1>2, EnqueueInvariant
<1>3. ASSUME NEW r \in Requests, Receive(r) PROVE IInv'
  <2>1. reply[r].status # "withdrawn"
    <3>1. reply[r] \in {Nothing, Lost} \cup Responses
      BY DEF TypeOK
    <3>2. QED BY <3>1 DEF Nothing, Lost, Responses, Statuses
  <2>2. QED BY <1>3, <2>1, FinishInvariant DEF Receive
<1>4. ASSUME NEW r \in Requests, TimeOut(r) PROVE IInv'
  BY <1>4, FinishInvariant DEF TimeOut, Gave, Nothing, Statuses
<1>5. ASSUME NEW r \in Requests, Abandon(r) PROVE IInv'
  <2> DEFINE out == Gave(IF pc[r] = "sending" THEN "withdrawn" ELSE "abandoned")
  <2>1. /\ out # Nothing /\ out.status \notin Statuses
        /\ out.status = "withdrawn" => pc[r] = "sending"
    BY DEF Gave, Nothing, Statuses
  <2>2. QED BY <1>5, <2>1, FinishInvariant DEF Abandon
<1>6. CASE Wake
  BY <1>6, InternalNotRequests, FrameInvariant DEF Wake, IInv, WireInv
<1>7. CASE Connect
  <2>1. /\ inflight = NoCmd /\ toServer = <<>> /\ toClient = <<>>
        /\ conn' = "open" /\ phase' = "greeting"
        /\ UNCHANGED <<callerVars, queue, reply, inflight, toServer, toClient, history>>
    BY <1>7 DEF Connect, IInv, WireInv
  <2>2. WireInv'
    BY <2>1, InternalNotRequests DEF WireInv
  <2>3. OrderInv' /\ AnswersAreOwn' /\ NoLostWaiter'
    BY <2>1 DEF IInv, OrderInv, AnswersAreOwn, NoLostWaiter
  <2>4. RequestInv'
    BY <2>1 DEF IInv, RequestInv, InChannel
  <2>5. QED BY <2>2, <2>3, <2>4 DEF IInv
<1>8. CASE ConnectRefused \/ GreetingFails \/ AuthFails
  <2>1. "password" \notin Requests /\ NoCmd \notin Requests
    BY InternalNotRequests DEF Internal
  <2>2. inflight \notin Requests
    BY <1>8, <2>1 DEF ConnectRefused, GreetingFails, AuthFails, IInv, WireInv
  <2>3. QED BY <1>8, <2>2, LoseInvariant DEF ConnectRefused, GreetingFails, AuthFails
<1>9. CASE ReadGreeting
  <2>1. inflight = NoCmd
    BY <1>9 DEF ReadGreeting, IInv, WireInv
  <2>2. CASE Password = "none"
    BY <1>9, <2>1, <2>2, InternalNotRequests, FrameInvariant DEF ReadGreeting, EnterStartup
  <2>3. CASE Password # "none"
    <3>1. "password" \in Internal
      BY DEF Internal
    <3>2. QED BY <1>9, <2>1, <2>3, <3>1, TransmitInvariant DEF ReadGreeting
  <2>4. QED BY <2>2, <2>3
<1>10. CASE AuthAccepted \/ StartupAnswered \/ ReadResponse
  <2>1. /\ inflight # NoCmd /\ toClient # <<>> /\ phase' # "auth"
        /\ inflight' = NoCmd /\ toClient' = Tail(toClient)
        /\ UNCHANGED <<callerVars, queue, toServer, history>>
    BY <1>10 DEF AuthAccepted, StartupAnswered, ReadResponse, EnterStartup, IInv, WireInv
  <2>2. /\ toServer' = <<>> /\ toClient' = <<>> /\ Head(toClient) = toClient[1]
        /\ toClient[1] \in Responses
    <3>1. toServer = <<>> /\ Len(toClient) = 1
      BY <2>1 DEF IInv, WireInv
    <3>2. toClient \in Seq(Responses)
      BY DEF TypeOK
    <3>3. QED BY <2>1, <3>1, <3>2
  <2>3. CASE ReadResponse
    BY <2>1, <2>2, <2>3, DeliverInvariant DEF ReadResponse
  <2>4. CASE AuthAccepted \/ StartupAnswered
    <3>1. phase # "select" /\ reply' = reply
      BY <2>4 DEF AuthAccepted, StartupAnswered
    <3>2. inflight \notin Requests
      BY <3>1 DEF IInv, WireInv
    <3>3. Deliver(toClient[1])
      BY <3>1, <3>2 DEF Deliver
    <3>4. QED BY <2>1, <2>2, <3>3, DeliverInvariant
  <2>5. QED BY <1>10, <2>3, <2>4
<1>11. CASE StartupSend
  <2>1. Head(todo) \in Internal
    BY <1>11 DEF StartupSend, TypeOK, Internal
  <2>2. QED BY <1>11, <2>1, TransmitInvariant DEF StartupSend
<1>12. CASE StartupFailed
  <2>1. phase = "startup" /\ inflight \notin Requests
    BY <1>12 DEF StartupFailed, IInv, WireInv
  <2>2. Deliver(Lost)
    BY <1>12, <2>1 DEF StartupFailed, Deliver
  <2>3. toServer = <<>> /\ toClient = <<>>
    BY <1>12 DEF StartupFailed, ResponseLost, IInv, WireInv
  <2>4. Lost \notin Responses
    BY DEF Lost, Responses, Statuses
  <2>5. QED BY <1>12, <2>1, <2>2, <2>3, <2>4, DeliverInvariant DEF StartupFailed
<1>13. CASE StartupDone
  <2>1. inflight \notin Requests
    BY <1>13 DEF StartupDone, IInv, WireInv
  <2>2. QED BY <1>13, <2>1, FrameInvariant DEF StartupDone
<1>14. CASE TakeRequest
  BY <1>14, TakeRequestInvariant
<1>15. CASE Keepalive
  <2>1. "noop" \in Internal
    BY DEF Internal
  <2>2. QED BY <1>15, <2>1, TransmitInvariant DEF Keepalive
<1>16. CASE SessionFails
  <2>1. Lost \notin Responses
    BY DEF Lost, Responses, Statuses
  <2>2. QED BY <1>16, <2>1, DeliverInvariant DEF SessionFails, Lose
<1>17. CASE Serve
  BY <1>17, ServeInvariant
<1>18. CASE MpdClosesConnection
  BY <1>18, CloseInvariant DEF MpdClosesConnection
<1>19. CASE MpdStops
  <2>1. CASE conn = "open"
    BY <1>19, <2>1, CloseInvariant DEF MpdStops
  <2>2. CASE conn # "open"
    <3>1. UNCHANGED <<callerVars, queue, reply, sessionVars, wireVars, history>>
      BY <1>19, <2>2 DEF MpdStops
    <3>2. WireInv' /\ OrderInv' /\ AnswersAreOwn' /\ NoLostWaiter'
      BY <3>1 DEF IInv, WireInv, OrderInv, AnswersAreOwn, NoLostWaiter
    <3>3. RequestInv'
      BY <3>1 DEF IInv, RequestInv, InChannel
    <3>4. QED BY <3>2, <3>3 DEF IInv
  <2>3. QED BY <2>1, <2>2
<1>20. CASE MpdStarts \/ UNCHANGED vars
  <2>1. UNCHANGED <<callerVars, queue, reply, sessionVars, wireVars, history>>
    BY <1>20 DEF MpdStarts, vars
  <2>2. WireInv' /\ OrderInv' /\ AnswersAreOwn' /\ NoLostWaiter'
    BY <2>1 DEF IInv, WireInv, OrderInv, AnswersAreOwn, NoLostWaiter
  <2>3. RequestInv'
    BY <2>1 DEF IInv, RequestInv, InChannel
  <2>4. QED BY <2>2, <2>3 DEF IInv
<1>21. QED
  BY <1>1, <1>2, <1>3, <1>4, <1>5, <1>6, <1>7, <1>8, <1>9, <1>10, <1>11, <1>12, <1>13,
     <1>14, <1>15, <1>16, <1>17, <1>18, <1>19, <1>20
  DEF Next, Caller, Session, Mpd

\* The inductive invariant holds in every reachable state.
THEOREM Invariance == Spec => []IInv
<1>1. Spec => []TypeOK
  BY TypeCorrect
<1>2. QED BY <1>1, InitInvariant, NextInvariant, PTL DEF Spec

\* A caller never receives the answer to someone else's command, however the
\* connection is lost and re-opened and whoever has given up before.
THEOREM OwnAnswers == Spec => []AnswersAreOwn
<1>1. IInv => AnswersAreOwn
  BY DEF IInv
<1>2. QED BY <1>1, Invariance, PTL

\* MPD never processes a request twice: the client does not retry.
THEOREM NeverTwice == Spec => []AtMostOnce
<1>1. IInv => AtMostOnce
  BY DEF IInv, RequestInv, AtMostOnce
<1>2. QED BY <1>1, Invariance, PTL

\* A waiting caller's request is queued, in flight, or already answered.
THEOREM WaitersRemembered == Spec => []NoLostWaiter
<1>1. IInv => NoLostWaiter
  BY DEF IInv
<1>2. QED BY <1>1, Invariance, PTL

\* Requests take effect in the order in which they entered the channel.
THEOREM ProcessedInOrder == Spec => InOrder
<1> DEFINE Ordered == \A r \in Requests : executed'[r] # executed[r] =>
                         \A q \in Requests \ {r} : executed[q] > 0 => ticket[q] < ticket[r]
<1>1. TypeOK /\ IInv /\ [Next]_vars => [Ordered]_vars
  <2> SUFFICES ASSUME TypeOK, IInv, Next,
                      NEW r \in Requests, executed'[r] # executed[r],
                      NEW q \in Requests \ {r}, executed[q] > 0
               PROVE  ticket[q] < ticket[r]
    BY DEF Ordered
  <2>1. Serve
    BY DEF Next, Caller, Session, Mpd, Submit, Enqueue, Receive, TimeOut, Abandon, Finish,
           Wake, Connect, ConnectRefused, ReadGreeting, GreetingFails, AuthAccepted,
           AuthFails, StartupSend, StartupAnswered, StartupFailed, StartupDone, TakeRequest,
           Keepalive, ReadResponse, SessionFails, Lose, MpdClosesConnection, MpdStops,
           MpdStarts, history
  <2>2. Head(toServer) = inflight
    BY <2>1 DEF Serve, IInv, WireInv
  <2>3. r = inflight
    BY <2>1, <2>2 DEF Serve, TypeOK
  <2>4. QED BY <2>3 DEF IInv, OrderInv
<1>2. QED BY <1>1, TypeCorrect, Invariance, PTL DEF Spec, InOrder

\* A step of the channel is a step of RequestReply, or none: MPD's answer is
\* Process, a result handed to a caller is Answer or GiveUp.
LEMMA StepRefinement == TypeOK /\ IInv /\ [Next]_vars => [Abstract!Next]_(Abstract!vars)
<1> SUFFICES ASSUME TypeOK, IInv, [Next]_vars PROVE [Abstract!Next]_(Abstract!vars)
  OBVIOUS
<1> USE DEF callerVars, history
<1> DEFINE told == [r \in Requests |-> ToldCaller(r)]
<1>1. ASSUME NEW r \in Requests, NEW out, Finish(r, out)
      PROVE  /\ verdict' = verdict
             /\ told' = [told EXCEPT ![r] =
                           IF out.status \in {"lost", "timeout", "abandoned"} THEN "unknown"
                           ELSE out.status]
  BY <1>1 DEF Finish, ToldCaller, TypeOK
<1>2. ASSUME NEW r \in Requests, pc[r] # "done" PROVE told[r] = "none"
  BY <1>2 DEF IInv, RequestInv, ToldCaller, Nothing
<1>3. ASSUME NEW r \in Requests, Receive(r) PROVE Abstract!Next
  <2>1. told[r] = "none"
    BY <1>2, <1>3 DEF Receive
  <2>2. reply[r] \in {Lost} \cup Responses /\ Finish(r, reply[r])
    BY <1>3 DEF Receive, TypeOK
  <2>3. CASE reply[r] = Lost
    BY <1>1, <2>1, <2>2, <2>3 DEF Abstract!Next, Abstract!GiveUp, Lost
  <2>4. CASE reply[r] \in Responses
    <3>1. reply[r].status \in Statuses /\ reply[r].status = verdict[r]
      BY <2>4 DEF Responses, IInv, AnswersAreOwn
    <3>2. verdict[r] # "none"
      BY <3>1 DEF Statuses
    <3>3. verdict' = verdict /\ told' = [told EXCEPT ![r] = verdict[r]]
      BY <1>1, <2>2, <3>1 DEF Statuses
    <3>4. Abstract!Answer(r)
      BY <2>1, <3>2, <3>3 DEF Abstract!Answer
    <3>5. QED BY <3>4 DEF Abstract!Next
  <2>5. QED BY <2>2, <2>3, <2>4
<1>4. ASSUME NEW r \in Requests, TimeOut(r) PROVE Abstract!Next
  <2>1. told[r] = "none"
    BY <1>2, <1>4 DEF TimeOut
  <2>2. QED BY <1>1, <1>4, <2>1 DEF TimeOut, Gave, Abstract!Next, Abstract!GiveUp
<1>5. ASSUME NEW r \in Requests, Abandon(r) PROVE Abstract!Next
  <2>1. told[r] = "none"
    BY <1>2, <1>5 DEF Abandon
  <2>2. CASE pc[r] = "sending"
    <3>1. verdict[r] = "none"
      BY <2>2 DEF IInv, RequestInv
    <3>2. verdict' = verdict /\ told' = [told EXCEPT ![r] = "withdrawn"]
      BY <1>1, <1>5, <2>2 DEF Abandon, Gave
    <3>3. Abstract!Withdraw(r)
      BY <2>1, <3>1, <3>2 DEF Abstract!Withdraw
    <3>4. QED BY <3>3 DEF Abstract!Next
  <2>3. CASE pc[r] # "sending"
    BY <1>1, <1>5, <2>1, <2>3 DEF Abandon, Gave, Abstract!Next, Abstract!GiveUp
  <2>4. QED BY <2>2, <2>3
<1>6. ASSUME Serve PROVE [Abstract!Next]_(Abstract!vars)
  <2> DEFINE c == Head(toServer)
  <2>1. c = inflight /\ toServer = <<c>>
    BY <1>6 DEF Serve, IInv, WireInv
  <2>2. told' = told
    BY <1>6 DEF Serve, ToldCaller
  <2>3. CASE c \in Requests
    <3>1. verdict[c] = "none"
      BY <2>1, <2>3 DEF IInv, RequestInv
    <3>2. PICK v \in Statuses : verdict' = [verdict EXCEPT ![c] = v]
      BY <1>6, <2>3 DEF Serve, VerdictsOn, Statuses
    <3>3. told[c] \notin {"withdrawn", "OK", "ACK"}
      BY <2>1, <2>3, <3>1 DEF IInv, OrderInv, RequestInv, AnswersAreOwn, ToldCaller, Statuses
    <3>4. QED BY <2>2, <2>3, <3>1, <3>2, <3>3
          DEF Abstract!Next, Abstract!Process, Abstract!Verdicts, Statuses
  <2>4. CASE c \notin Requests
    BY <1>6, <2>2, <2>4 DEF Serve, Abstract!vars
  <2>5. QED BY <2>3, <2>4
<1>7. CASE UNCHANGED <<outcome, verdict>>
  BY <1>7 DEF ToldCaller, Abstract!vars
<1>8. \/ \E r \in Requests : Receive(r) \/ TimeOut(r) \/ Abandon(r)
      \/ Serve
      \/ UNCHANGED <<outcome, verdict>>
  BY DEF Next, Caller, Session, Mpd, Submit, Enqueue,
         Wake, Connect, ConnectRefused, ReadGreeting, GreetingFails, AuthAccepted,
         AuthFails, StartupSend, StartupAnswered, StartupFailed, StartupDone, TakeRequest,
         Keepalive, ReadResponse, SessionFails, Lose, MpdClosesConnection, MpdStops,
         MpdStarts, vars
<1>9. QED BY <1>3, <1>4, <1>5, <1>6, <1>7, <1>8

\* The command connection implements RequestReply.
THEOREM Refinement == Spec => ImplementsRequestReply
<1>1. Init => Abstract!Init
  BY DEF Init, Abstract!Init, ToldCaller, Nothing
<1>2. QED BY <1>1, StepRefinement, TypeCorrect, Invariance, PTL
      DEF Spec, ImplementsRequestReply, Abstract!Spec

\* What a session has announced and learned, step by step of its startup.
LEMMA RestsOfStartup ==
    /\ Startup \in StartupRests \ {<<>>, <<"currentsong">>}
    /\ <<"currentsong">> # <<>>
    /\ NoCmd \notin {"commands", "status"}
    /\ \A s \in StartupRests \ {<<>>} :
          /\ Tail(s) \in StartupRests \ {Startup}
          /\ Head(s) = "commands" <=> s = Startup
          /\ Tail(s) \in {<<"currentsong">>, <<>>} => Head(s) = "status" \/ s = <<"currentsong">>
          /\ Head(s) # NoCmd
<1> DEFINE s1 == <<"commands", "notcommands", "status", "currentsong">>
           s2 == <<"notcommands", "status", "currentsong">>
           s3 == <<"status", "currentsong">>
           s4 == <<"currentsong">>
<1>1. /\ Tail(s1) = s2 /\ Tail(s2) = s3 /\ Tail(s3) = s4 /\ Tail(s4) = <<>>
      /\ Head(s1) = "commands" /\ Head(s2) = "notcommands" /\ Head(s3) = "status"
      /\ Head(s4) = "currentsong"
  OBVIOUS
<1>2. /\ Len(s1) = 4 /\ Len(s2) = 3 /\ Len(s3) = 2 /\ Len(s4) = 1 /\ Len(<<>>) = 0
  OBVIOUS
<1>3. /\ s1 # s2 /\ s1 # s3 /\ s1 # s4 /\ s1 # <<>> /\ s2 # s3 /\ s2 # s4 /\ s2 # <<>>
      /\ s3 # s4 /\ s3 # <<>> /\ s4 # <<>>
  BY <1>2
<1>4. Startup = s1
  BY DEF Startup
<1> HIDE DEF s1, s2, s3
<1>5. StartupRests = {s1, s2, s3, s4, <<>>}
  BY <1>1, <1>4 DEF StartupRests
<1> HIDE DEF s4
<1>6. s4 = <<"currentsong">>
  BY DEF s4
<1>7. QED BY <1>1, <1>3, <1>4, <1>5, <1>6 DEF NoCmd

LEMMA HeadTailOfOne ==
    ASSUME NEW S, NEW s \in Seq(S), Len(s) = 1
    PROVE  Tail(s) = <<>> /\ Head(s) = s[1]
<1>1. s # <<>> /\ Head(s) = s[1]
  OBVIOUS
<1>2. Tail(s) = <<>>
  <2>1. \A t : t = Tail(s) => t \in Seq(S) /\ Len(t) = 0
    BY <1>1
  <2>2. \A t \in Seq(S) : Len(t) = 0 => t = <<>>
    OBVIOUS
  <2>3. QED BY <2>1, <2>2
<1>3. QED BY <1>1, <1>2

\* The one response on the wire is the one being waited for.
LEMMA OneResponse ==
    ASSUME TypeOK, IInv, toClient # <<>>
    PROVE  /\ Tail(toClient) = <<>> /\ Head(toClient) = toClient[1]
           /\ toClient[1].of = inflight
<1>1. toClient \in Seq(Responses)
  BY DEF TypeOK
<1>2. Len(toClient) = 1 /\ toClient[1].of = inflight
  BY DEF IInv, WireInv
<1>3. QED BY <1>1, <1>2, HeadTailOfOne

LEMMA NextSession == TypeOK /\ IInv /\ SessionInv /\ [Next]_vars => SessionInv'
<1> SUFFICES ASSUME TypeOK, IInv, SessionInv, [Next]_vars PROVE SessionInv'
  OBVIOUS
<1> USE DEF NoticeMatchesSession, CapabilitiesKnown
<1>1. ASSUME UNCHANGED <<sessionVars, wireVars, verdict>> PROVE SessionInv'
  BY <1>1 DEF SessionInv, sessionVars, wireVars
<1>2. ASSUME NEW r \in Requests, Caller(r) PROVE SessionInv'
  <2>1. UNCHANGED <<sessionVars, wireVars, verdict>>
    BY <1>2 DEF Caller, Submit, Enqueue, Receive, TimeOut, Abandon, Finish, history
  <2>2. QED BY <1>1, <2>1
<1>3. CASE Lose
  BY <1>3 DEF Lose, SessionInv, history
<1>4. CASE ConnectRefused \/ GreetingFails \/ AuthFails \/ SessionFails
  BY <1>3, <1>4 DEF ConnectRefused, GreetingFails, AuthFails, SessionFails
<1>5. CASE Wake \/ Connect
  BY <1>5 DEF Wake, Connect, SessionInv, IInv, WireInv, history, wireVars
<1>6. CASE ReadGreeting
  <2>1. CASE Password = "none"
    BY <1>6, <2>1, RestsOfStartup
    DEF ReadGreeting, EnterStartup, SessionInv, IInv, WireInv, history, wireVars
  <2>2. CASE Password # "none"
    BY <1>6, <2>2 DEF ReadGreeting, Transmit, SessionInv, history
  <2>3. QED BY <2>1, <2>2
<1>7. CASE AuthAccepted
  <2>1. toClient' = <<>> /\ inflight' = NoCmd
    BY <1>7, OneResponse DEF AuthAccepted
  <2>2. QED BY <1>7, <2>1, RestsOfStartup DEF AuthAccepted, EnterStartup, SessionInv, history
<1>8. CASE StartupSend
  <2>1. /\ inflight' = Head(todo) /\ toClient' = toClient
        /\ UNCHANGED <<phase, todo, caps, conn, verdict>>
        /\ lastEvent' = IF Head(todo) = "status" THEN "Reconnected" ELSE lastEvent
        /\ phase = "startup" /\ todo # <<>>
    BY <1>8 DEF StartupSend, Transmit, history
  <2>2. QED BY <2>1, RestsOfStartup DEF SessionInv
<1>9. CASE StartupAnswered
  <2>1. /\ phase = "startup" /\ inflight # NoCmd /\ inflight' = NoCmd
        /\ todo # <<>> /\ todo' = Tail(todo) /\ toClient' = <<>>
        /\ caps' = IF inflight = "commands" THEN Head(toClient).status = "OK" ELSE caps
        /\ toClient # <<>> /\ Head(toClient) = toClient[1] /\ toClient[1].of = inflight
        /\ UNCHANGED <<phase, lastEvent, conn, verdict>>
    BY <1>9, OneResponse DEF StartupAnswered, history
  <2>2. caps' = TRUE \/ (caps' = caps /\ inflight # "commands")
    BY <2>1 DEF SessionInv
  <2>3. inflight = Head(todo)
    BY <2>1 DEF SessionInv
  <2>4. conn = "open" => caps'
    BY <2>1, <2>2, <2>3, RestsOfStartup DEF SessionInv
  <2>5. CapabilitiesKnown'
    BY <2>1, <2>2 DEF SessionInv
  <2>6. QED BY <2>1, <2>3, <2>4, <2>5, RestsOfStartup DEF SessionInv
<1>10. CASE StartupFailed
  <2>1. /\ phase = "startup" /\ inflight = Head(todo) /\ inflight' = NoCmd
        /\ todo # <<>> /\ todo' = Tail(todo) /\ toClient' = <<>> /\ conn' = "cut"
        /\ UNCHANGED <<phase, caps, lastEvent, verdict>>
    BY <1>10 DEF StartupFailed, ResponseLost, SessionInv, wireVars, history
  <2>2. QED BY <2>1, RestsOfStartup DEF SessionInv
<1>11. CASE StartupDone
  BY <1>11, RestsOfStartup DEF StartupDone, SessionInv, wireVars, history
<1>12. CASE TakeRequest \/ Keepalive \/ ReadResponse
  <2>1. /\ phase = "select" /\ UNCHANGED <<phase, caps, lastEvent, conn, verdict>>
        /\ toClient' = toClient \/ toClient' = <<>>
    BY <1>12, OneResponse DEF TakeRequest, Keepalive, ReadResponse, Transmit, history
  <2>2. QED BY <2>1 DEF SessionInv
<1>13. CASE Serve
  <2> DEFINE c == Head(toServer)
  <2>1. c = inflight /\ toClient = <<>>
    BY <1>13 DEF Serve, IInv, WireInv
  <2>2. PICK v \in VerdictsOn(c) :
           /\ toClient' = Append(toClient, [status |-> v, of |-> c])
           /\ c \notin Requests => verdict' = verdict
    BY <1>13 DEF Serve
  <2>3. toClient' = << [status |-> v, of |-> c] >>
    BY <2>1, <2>2
  <2>4. c = "commands" => v = "OK"
    BY <2>2 DEF VerdictsOn
  <2>5. UNCHANGED <<sessionVars, conn>> /\ conn = "open"
    BY <1>13 DEF Serve
  <2>6. c \in Requests => caps
    BY <2>1, <2>5 DEF IInv, WireInv, SessionInv
  <2>7. CapabilitiesKnown'
    BY <2>2, <2>5, <2>6 DEF SessionInv, sessionVars
  <2>8. QED BY <2>3, <2>4, <2>5, <2>7 DEF SessionInv, sessionVars
<1>14. CASE MpdClosesConnection \/ MpdStops
  <2>1. CASE Close
    BY <1>14, <2>1 DEF Close, MpdClosesConnection, MpdStops, SessionInv, sessionVars, history
  <2>2. CASE ~Close
    <3>1. UNCHANGED <<sessionVars, wireVars, verdict>>
      BY <1>14, <2>2 DEF MpdClosesConnection, MpdStops, history
    <3>2. QED BY <1>1, <3>1
  <2>3. QED BY <2>1, <2>2
<1>15. CASE MpdStarts \/ UNCHANGED vars
  BY <1>1, <1>15 DEF MpdStarts, vars, history
<1>16. QED
  BY <1>2, <1>4, <1>5, <1>6, <1>7, <1>8, <1>9, <1>10, <1>11, <1>12, <1>13, <1>14, <1>15
  DEF Next, Session, Mpd

LEMMA SessionCorrect == Spec => []SessionInv
<1>1. Init => SessionInv
  BY DEF Init, SessionInv, NoticeMatchesSession, CapabilitiesKnown
<1>2. QED BY <1>1, NextSession, TypeCorrect, Invariance, PTL DEF Spec

\* Subscribers hear of a lost session before the next attempt and of a new one before
\* it serves anybody (command_loop, run_command_session).
THEOREM NoticesMatch == Spec => []NoticeMatchesSession
<1>1. SessionInv => NoticeMatchesSession
  BY DEF SessionInv
<1>2. QED BY <1>1, SessionCorrect, PTL

\* Whoever has an answer from MPD finds the capabilities filled in (capabilities,
\* client.rs:513-521), in every session and after any number of losses.
THEOREM CapabilitiesKnownFirst == Spec => []CapabilitiesKnown
<1>1. SessionInv => CapabilitiesKnown
  BY DEF SessionInv
<1>2. QED BY <1>1, SessionCorrect, PTL
=============================================================================
