--------------------------- MODULE HarnessClient ---------------------------
(***************************************************************************)
(* The connection handler of the harness SDK (packages/sdk/src): one       *)
(* WebSocket at a time, the authentication handshake with its timeout, the *)
(* automatic reconnection that resumes at lastSeenSeq, the heartbeat       *)
(* monitor, the event stream and the tracked requests, against a signet    *)
(* that numbers its frames and keeps the last BufferSize of them.          *)
(*                                                                         *)
(* Every callback of the handler (a socket event, a timer, a call of the   *)
(* harness) is one action.  The variables of the closure form the record h,*)
(* so that the functions the callbacks share (attemptReconnect, rejectAll, *)
(* connectInternal) are operators on that record.                          *)
(***************************************************************************)
EXTENDS Naturals, Sequences, FiniteSets

CONSTANTS
    Sockets,        \* names for the WebSocket objects, reused once closed
    Requests,       \* request ids
    NoSocket,       \* the null of ws
    BufferSize,     \* frames the signet keeps for replay
    MaxAttempts,    \* config.reconnect.maxAttempts (0: unlimited)
    MaxSeq,         \* bound: frames the signet numbers
    MaxDrops        \* bound: sockets lost to the network or the signet

ASSUME ClientAssumption ==
    /\ NoSocket \notin Sockets
    /\ BufferSize \in Nat \ {0} /\ MaxAttempts \in Nat /\ MaxSeq \in Nat
    /\ MaxDrops \in Nat

VARIABLES
    h,          \* the closure of createSignetHandler
    sock,       \* per WebSocket: both ends and the frames under way
    seq,        \* the signet's last sequence number for this credential
    pushed,     \* history: sequence numbers pushed to the current stream
    excused,    \* history: frames the signet dropped or announced as missed
    early,      \* history: frames that came before the auth answer
    drops       \* history: sockets lost so far

vars == <<h, sock, seq, pushed, excused, early, drops>>

States == {"disconnected", "connecting", "authenticating", "connected",
           "reconnecting", "closed"}

Unused == [phase |-> "idle", handled |-> FALSE, lastSeen |-> 0,
           peer |-> "none", replay |-> <<>>, recovery |-> FALSE,
           inbox |-> <<>>]

\* Frames on the wire: authenticated, auth_error, a sequenced event, an answer.
Authenticated == [type |-> "authenticated", arg |-> 0]
AuthErrorFrame == [type |-> "auth_error", arg |-> 0]
Event(n) == [type |-> "event", arg |-> n]
Response(r) == [type |-> "response", arg |-> r]

Live == {s \in Sockets : sock[s].phase \in {"opening", "open"}}

Init ==
    /\ h = [state |-> "disconnected", ws |-> NoSocket, attempt |-> 0,
            timers |-> 0, monitor |-> FALSE, done |-> FALSE, lastSeenSeq |-> 0,
            pending |-> {}]
    /\ sock = [s \in Sockets |-> Unused]
    /\ seq = 0 /\ pushed = <<>> /\ excused = {} /\ early = {} /\ drops = 0

----------------------------------------------------------------------------
(* Functions of the handler that its callbacks share.                       *)

\* ReconnectionTracker.exhausted.
Exhausted(x) == MaxAttempts # 0 /\ x.attempt >= MaxAttempts

\* ReconnectionTracker.nextDelay: how long the delay is does not matter here.
NextDelay(x) == [x EXCEPT !.attempt = @ + 1, !.timers = @ + 1]

\* The heartbeat monitor: one timer that every heartbeat re-arms.
StartMonitor(x) == [x EXCEPT !.monitor = TRUE]
StopMonitor(x) == [x EXCEPT !.monitor = FALSE]

\* EventStream.push: a completed stream takes nothing more.
Pushed(n) == IF h.done THEN pushed ELSE Append(pushed, n)

\* attemptReconnect with reconnection enabled: give up, or arm one timer.
AttemptReconnect(x) ==
    IF Exhausted(x)
    THEN [x EXCEPT !.state = "disconnected", !.done = TRUE]
    ELSE [NextDelay(x) EXCEPT !.state = "reconnecting"]

\* RequestTracker.rejectAll.
RejectAll(x) == [x EXCEPT !.pending = {}]

\* connectInternal: a new WebSocket becomes ws.
ConnectInternal(x, s) ==
    /\ sock[s].phase = "idle"
    /\ h' = [x EXCEPT !.state = "connecting", !.ws = s]
    /\ sock' = [sock EXCEPT ![s] = [Unused EXCEPT !.phase = "opening"]]

\* ws.close(): frames still under way are no longer delivered.
CloseSocket(s) == [sock EXCEPT ![s].phase = "closing", ![s].inbox = <<>>]

----------------------------------------------------------------------------
(* Calls of the harness.                                                    *)

\* connect() while an attempt is under way as well.
ConnectAgain(s) ==
    /\ h.state \in {"disconnected", "connecting"}
    /\ ConnectInternal([h EXCEPT !.done = FALSE], s)
    /\ pushed' = <<>>
    /\ UNCHANGED <<seq, excused, early, drops>>

\* connect(): refused in every state but "disconnected"; a fresh event stream.
Connect(s) ==
    /\ h.state = "disconnected"
    /\ ConnectInternal([h EXCEPT !.done = FALSE], s)
    /\ pushed' = <<>>
    /\ UNCHANGED <<seq, excused, early, drops>>

\* disconnect(): closes the socket, settles the requests, ends the stream.
Disconnect ==
    /\ h.state # "closed"
    /\ h' = [RejectAll(StopMonitor(h)) EXCEPT !.ws = NoSocket,
                                !.state = "closed", !.done = TRUE]
    /\ sock' = IF h.ws = NoSocket \/ h.ws \notin Live THEN sock
               ELSE CloseSocket(h.ws)
    /\ UNCHANGED <<seq, pushed, excused, early, drops>>

\* RequestTracker.track.
Track(x, r) == [x EXCEPT !.pending = @ \union {r}]

\* sendRequest: a tracked request on the current socket, or an error at once.
SendRequest(r) ==
    /\ h.state = "connected" /\ h.ws # NoSocket
    /\ h' = Track(h, r)

\* sendMessage, sendReaction, listConversations, getConversationInfo: one
\* request each under a fresh id, whose answer is checked for its fields.
ApiCall(r) ==
    /\ r \notin h.pending
    /\ SendRequest(r)
    /\ UNCHANGED <<sock, seq, pushed, excused, early, drops>>

\* RequestTracker.resolve: an id that is not pending is ignored.
Resolve(x, r) == [x EXCEPT !.pending = @ \ {r}]

\* The timer of a tracked request.
RequestTimeout(r) ==
    /\ r \in h.pending
    /\ h' = Resolve(h, r)
    /\ UNCHANGED <<sock, seq, pushed, excused, early, drops>>

----------------------------------------------------------------------------
(* Timers of the handler.                                                   *)

\* A reconnect timer that tests for the state it is about to enter.
ReconnectTimerConfused(s) ==
    /\ h.timers > 0
    /\ LET x == [h EXCEPT !.timers = @ - 1]
       IN  \/ /\ h.state = "connecting"
              /\ ConnectInternal(x, s)
           \/ /\ h.state # "connecting"
              /\ h' = x /\ UNCHANGED sock
    /\ UNCHANGED <<seq, pushed, excused, early, drops>>

\* The reconnect timer: does nothing when the state moved on.
ReconnectTimer(s) ==
    /\ h.timers > 0
    /\ LET x == [h EXCEPT !.timers = @ - 1]
       IN  \/ /\ h.state = "reconnecting"
              /\ ConnectInternal(x, s)
           \/ /\ h.state # "reconnecting"
              /\ h' = x /\ UNCHANGED sock
    /\ UNCHANGED <<seq, pushed, excused, early, drops>>

\* No answer to the auth frame in time.
AuthTimeout(s) ==
    /\ sock[s].phase \in {"opening", "open"} /\ ~sock[s].handled
    /\ sock' = [CloseSocket(s) EXCEPT ![s].handled = TRUE]
    /\ h' = [h EXCEPT !.state = "closed"]
    /\ UNCHANGED <<seq, pushed, excused, early, drops>>

\* The heartbeat monitor fires: handleConnectionDead.
MonitorFires ==
    /\ h.monitor
    /\ LET x == StopMonitor(h)
       IN  IF h.ws # NoSocket
           THEN h' = x /\ sock' = CloseSocket(h.ws)
           ELSE h' = AttemptReconnect(x) /\ UNCHANGED sock
    /\ UNCHANGED <<seq, pushed, excused, early, drops>>

----------------------------------------------------------------------------
(* Events of the socket.                                                    *)

\* An auth frame that asks for the frames after the next one.
SocketOpenSkipping(s) ==
    /\ sock[s].phase = "opening"
    /\ sock' = [sock EXCEPT ![s].phase = "open", ![s].peer = "asked",
                  ![s].lastSeen = IF h.lastSeenSeq = 0 THEN 0
                                  ELSE h.lastSeenSeq + 1]
    /\ h' = [h EXCEPT !.state = "authenticating"]
    /\ UNCHANGED <<seq, pushed, excused, early, drops>>

\* "open": the auth frame goes out with the last seen sequence number.
SocketOpen(s) ==
    /\ sock[s].phase = "opening"
    /\ sock' = [sock EXCEPT ![s].phase = "open", ![s].peer = "asked",
                            ![s].lastSeen = h.lastSeenSeq]
    /\ h' = [h EXCEPT !.state = "authenticating"]
    /\ UNCHANGED <<seq, pushed, excused, early, drops>>

\* handleFrame and the first-message branch of the "message" listener: before
\* the auth answer anything else is dropped.
HandleFrame(s, f) ==
    IF ~sock[s].handled
    THEN /\ h' = CASE f.type = "authenticated" ->
                        [StartMonitor(h) EXCEPT !.state = "connected",
                                                !.attempt = 0]
                   [] f.type = "auth_error" -> [h EXCEPT !.state = "closed"]
                   [] OTHER -> h
         /\ sock' = [sock EXCEPT ![s].inbox = Tail(@),
                       ![s].handled = f.type \in {"authenticated", "auth_error"}]
         /\ early' = IF f.type = "event" THEN early \union {f.arg} ELSE early
         /\ UNCHANGED pushed
    ELSE /\ h' = CASE f.type = "event" -> [h EXCEPT !.lastSeenSeq = f.arg]
                   [] f.type = "response" -> Resolve(h, f.arg)
                   [] OTHER -> h
         /\ sock' = [sock EXCEPT ![s].inbox = Tail(@)]
         /\ pushed' = IF f.type = "event" THEN Pushed(f.arg) ELSE pushed
         /\ UNCHANGED early

SocketMessage(s) ==
    /\ sock[s].phase = "open" /\ sock[s].inbox # <<>>
    /\ HandleFrame(s, Head(sock[s].inbox))
    /\ UNCHANGED <<seq, excused, drops>>

\* The "close" listener: before the auth answer it retries whatever the state
\* is; afterwards it leaves a closed handler alone.
Closed(s, retryable) ==
    LET x == StopMonitor(h)
    IN  IF ~sock[s].handled
        THEN IF ~retryable THEN [x EXCEPT !.state = "closed"]
             ELSE AttemptReconnect(RejectAll(x))
        ELSE LET y == RejectAll([x EXCEPT !.ws = NoSocket])
             IN  CASE ~retryable -> [y EXCEPT !.state = "closed", !.done = TRUE]
                   [] retryable /\ y.state # "closed" -> AttemptReconnect(y)
                   [] OTHER -> y

\* A close event: the end of a close the client began (its own code is
\* retryable), a lost connection, or the signet's close frame, which comes
\* after the frames it sent.
SocketClose(s, retryable) ==
    /\ \/ sock[s].phase = "closing" /\ retryable /\ UNCHANGED drops
       \/ /\ sock[s].phase \in {"opening", "open"} /\ drops < MaxDrops
          /\ \/ retryable
             \/ sock[s].peer = "active" /\ sock[s].inbox = <<>>
          /\ drops' = drops + 1
       \/ /\ sock[s].phase = "open" /\ sock[s].peer = "refused"
          /\ sock[s].inbox = <<>> /\ ~retryable
          /\ UNCHANGED drops
    /\ h' = Closed(s, retryable)
    /\ sock' = [sock EXCEPT ![s] = Unused]
    /\ UNCHANGED <<seq, pushed, excused, early>>

----------------------------------------------------------------------------
(* The signet as the handler meets it (packages/ws/src/server.ts).          *)

Buffered == {n \in 1 .. seq : n + BufferSize > seq}

\* The lookup of an auth frame returned: the connection is registered and the
\* replay is chosen; the answer goes out only after fingerprintToken.
PeerRegisters(s) ==
    /\ sock[s].peer = "asked"
    /\ LET last == sock[s].lastSeen
           recovery == last # 0 /\ Buffered # {} /\ (last + 1) \notin Buffered
                         /\ last < seq
       IN  /\ sock' = [sock EXCEPT ![s].peer = "registered",
                   ![s].recovery = recovery,
                   ![s].replay = IF last = 0 \/ recovery THEN <<>>
                                 ELSE [i \in 1 .. (seq - last) |-> last + i]]
           /\ excused' = IF last = 0 \/ recovery
                         THEN excused \union (last + 1 .. seq) ELSE excused
    /\ UNCHANGED <<h, seq, pushed, early, drops>>

PeerRefuses(s) ==
    /\ sock[s].peer = "asked"
    /\ sock' = [sock EXCEPT ![s].peer = "refused",
                            ![s].inbox = Append(@, AuthErrorFrame)]
    /\ UNCHANGED <<h, seq, pushed, excused, early, drops>>

\* The authenticated frame, then the recovery event or the replay.
PeerGreets(s) ==
    /\ sock[s].peer = "registered"
    /\ IF sock[s].recovery
       THEN /\ seq < MaxSeq /\ seq' = seq + 1
            /\ sock' = [sock EXCEPT ![s].peer = "active",
                          ![s].inbox = @ \o <<Authenticated, Event(seq + 1)>>]
       ELSE /\ UNCHANGED seq
            /\ sock' = [sock EXCEPT ![s].peer = "active", ![s].inbox =
                          @ \o <<Authenticated>>
                            \o [i \in DOMAIN sock[s].replay |->
                                  Event(sock[s].replay[i])]]
    /\ UNCHANGED <<h, pushed, excused, early, drops>>

\* An event or a heartbeat: numbered, kept, sent to registered connections.
PeerEvent ==
    /\ seq < MaxSeq
    /\ seq' = seq + 1
    /\ sock' = [s \in Sockets |->
                  IF sock[s].phase = "open"
                     /\ sock[s].peer \in {"registered", "active"}
                  THEN [sock[s] EXCEPT !.inbox = Append(@, Event(seq + 1))]
                  ELSE sock[s]]
    /\ UNCHANGED <<h, pushed, excused, early, drops>>

PeerAnswers(s, r) ==
    /\ sock[s].peer = "active" /\ sock[s].phase = "open" /\ r \in h.pending
    /\ \A i \in DOMAIN sock[s].inbox : sock[s].inbox[i] # Response(r)
    /\ sock' = [sock EXCEPT ![s].inbox = Append(@, Response(r))]
    /\ UNCHANGED <<h, seq, pushed, excused, early, drops>>

----------------------------------------------------------------------------
SocketStep(s) ==
    \/ SocketOpen(s)
    \/ SocketMessage(s)
    \/ \E retryable \in BOOLEAN : SocketClose(s, retryable)
    \/ AuthTimeout(s)

Next ==
    \/ \E s \in Sockets : Connect(s) \/ ReconnectTimer(s) \/ SocketStep(s)
    \/ Disconnect \/ MonitorFires \/ PeerEvent
    \/ \E r \in Requests : ApiCall(r) \/ RequestTimeout(r)
    \/ \E s \in Sockets : PeerRegisters(s) \/ PeerRefuses(s) \/ PeerGreets(s)
    \/ \E s \in Sockets, r \in Requests : PeerAnswers(s, r)

Spec == Init /\ [][Next]_vars

\* Timers fire, and a socket under way opens, delivers, closes or times out.
Fairness ==
    /\ WF_vars(\E s \in Sockets : ReconnectTimer(s))
    /\ \A s \in Sockets : WF_vars(SocketStep(s))

FairSpec == Spec /\ Fairness

----------------------------------------------------------------------------
(* Properties.                                                              *)

\* The closure and the sockets have the shapes the handler gives them.
TypeOK ==
    /\ h.state \in States /\ h.ws \in Sockets \union {NoSocket}
    /\ h.attempt \in Nat /\ h.timers \in 0 .. 1 /\ h.pending \subseteq Requests
    /\ seq \in 0 .. MaxSeq /\ pushed \in Seq(1 .. MaxSeq)

\* handler.ts:231, 268: over any number of reconnections a stream carries
\* each frame once and in order, and between its first and its last frame it
\* misses only frames the signet evicted and announced, and frames that the
\* signet sent before its auth answer.
StreamGapsAreExplained ==
    \A i \in 1 .. Len(pushed) - 1 :
        /\ pushed[i] < pushed[i + 1]
        /\ (pushed[i] + 1 .. pushed[i + 1] - 1) \subseteq (excused \union early)

\* handler.ts:365, 425: a request is pending only on the connection that it
\* was sent on; when that connection goes, the request has been settled.
PendingOnlyWhileConnected == h.pending # {} => h.state = "connected"

\* handler.ts:166, 255, 441: the reconnect timer, connect() and late close
\* events never leave two sockets under way, and a connected handler sends on
\* the socket that was authenticated.
OneSocketUnderWay ==
    /\ Cardinality(Live) <= 1
    /\ h.state = "connected" =>
         h.ws # NoSocket /\ sock[h.ws].handled /\ sock[h.ws].phase # "idle"

\* One session at a time, whatever timers, sockets and callers do to it, with
\* its requests and its stream.
SessionIsSound ==
    StreamGapsAreExplained /\ PendingOnlyWhileConnected /\ OneSocketUnderWay

\* handler.ts:146: a handler that lost its connection gets back or gives up.
ReconnectSettles ==
    h.state = "reconnecting"
        ~> h.state \in {"connected", "disconnected", "closed"}

\* .agents/plans/v0/15-handler-sdk.md:258: "closed" is the terminal state
\* after disconnect().
ClosedIsFinal == [][h.state = "closed" => h'.state = "closed"]_vars

=============================================================================
