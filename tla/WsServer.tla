------------------------------ MODULE WsServer ------------------------------
(***************************************************************************)
(* The WebSocket transport (packages/ws): connections, the auth handshake  *)
(* with replay, heartbeats, requests with timeouts, broadcasts, credential *)
(* invalidation and the graceful stop of createWsServer (server.ts).       *)
(*                                                                         *)
(* Each handler is cut where it awaits: a credential or token lookup in    *)
(* flight is an element of lookups, a token fingerprint one of greets, a   *)
(* request handler one of routes.  A lookup reads the credential when it   *)
(* is called (service.ts lookup and lookupByToken have no await of their   *)
(* own); InOrder says whether lookups are answered in the order of the     *)
(* calls, as the in-process credential service does, or in any order, as   *)
(* the CredentialLookup contract allows.                                   *)
(*                                                                         *)
(* A connection of the model is one socket: it is opened at most once.     *)
(*                                                                         *)
(* stop() empties credentialStates, but a connection that came up in the   *)
(* meantime keeps the state it has: era tells the states made before from  *)
(* those made after.                                                       *)
(***************************************************************************)
EXTENDS Integers, FiniteSets, SequencesExt

CONSTANTS
    Conns,          \* sockets
    Credentials,    \* credential ids, and the token that belongs to each
    Ids,            \* request ids a client uses on one socket
    None,           \* null
    BufferSize,     \* config.replayBufferSize
    SoftLimit,      \* config.sendBufferSoftLimit
    HardLimit,      \* config.sendBufferHardLimit
    InOrder,        \* lookups are answered in the order of the calls
    MayFail,        \* lookups and request handlers may fail
    MayBlock,       \* sockets may stop taking bytes
    MayStop,        \* stop() may be called
    MaxEvents,      \* bound: broadcasts
    MaxBeats,       \* bound: heartbeats of valid credentials
    MaxAuths,       \* bound: auth frames
    MaxFaults,      \* bound: hang-ups, auth timeouts, dead connections and
                    \*        full kernel buffers and lookups that fail
    MaxVersion,     \* bound: policy changes of a credential
    MaxLookups      \* bound: lookups started while others are in flight

ASSUME SizesAssumption ==
    /\ IsFiniteSet(Conns)
    /\ BufferSize \in Nat \ {0}
    /\ SoftLimit \in Nat \ {0}
    /\ HardLimit \in Nat
    /\ SoftLimit < HardLimit
    /\ {InOrder, MayFail, MayBlock, MayStop} \subseteq BOOLEAN
    /\ {MaxEvents, MaxBeats, MaxAuths, MaxFaults, MaxVersion, MaxLookups}
         \subseteq Nat
    /\ None \notin Conns \union Credentials \union Ids

VARIABLES
    server,     \* serverState; "flushing" is the last wait of stop()
    conn,       \* ws.data and the socket below it, for every socket
    registry,   \* ConnectionRegistry: the sockets in the order they were added,
                \*   None where one was removed
    replay,     \* credentialStates, old and new: next sequence number and buffer
    policy,     \* the credential manager's record: version and status
    lookups,    \* lookups in flight, oldest first
    greets,     \* handleAuthFrame calls waiting for fingerprintToken
    routes,     \* handleRequestFrame calls waiting for the request handler
    pending,    \* pendingInvalidations; refcount 0 stands for no entry
    gen,        \* invalidationGen
    remaining,  \* the sockets stop() closed
    at,         \* history: the policy version at each broadcast
    spent       \* what is used of the bounds on beats, auths and faults

vars == <<server, conn, registry, replay, policy, lookups, greets, routes,
          pending, gen, remaining, at, spent>>

(***************************************************************************)
(* Shapes.                                                                 *)
(***************************************************************************)
Eras == {"running", "cleared"}

\* A CredentialReplayState: there is one per credential, made before or after
\* stop() cleared the map.
Stream == Credentials \X Eras

\* A CredentialRecord.
Snapshot == [cred : Credentials, version : 1..(MaxVersion + 1),
             status : {"active", "revoked"}]

\* A sequenced frame: of which stream, its number, the event (0 for one of the
\* server's own), and the record it was projected under.  Of a replayed frame
\* only the stream and the number are kept.
Frame == [cred : Credentials, era : Eras, seq : Nat, ev : Nat,
          under : Credentials \union {None}, version : Nat, live : BOOLEAN]

FreshConnection ==
    [sock |-> "unused", phase |-> "authenticating", authTimer |-> FALSE,
     beating |-> FALSE, cred |-> None, era |-> "running", snap |-> None,
     inflight |-> {},
     depth |-> 0, notified |-> FALSE, full |-> FALSE,
     sent |-> <<>>, asked |-> {}, answered |-> [i \in Ids |-> 0],
     resume |-> None]

NoInvalidation == [refcount |-> 0, generation |-> 0, events |-> <<>>]

FreshReplay == [next |-> 1, buffer |-> <<>>]

Init ==
    /\ server = "idle"
    /\ conn = [c \in Conns |-> FreshConnection]
    /\ registry = <<>>
    /\ replay = [s \in Stream |-> FreshReplay]
    /\ policy = [k \in Credentials |->
                   [cred |-> k, version |-> 1, status |-> "active"]]
    /\ lookups = <<>>
    /\ greets = {}
    /\ routes = {}
    /\ pending = [k \in Credentials |-> NoInvalidation]
    /\ gen = 0
    /\ remaining = {}
    /\ at = <<>>
    /\ spent = [beats |-> 0, auths |-> 0, faults |-> 0]

(***************************************************************************)
(* ConnectionPhase transitions, the socket, and the send helpers.  They    *)
(* work on one connection r, or on a record st of conn and replay when a   *)
(* sequence number is taken.                                               *)
(***************************************************************************)
canTransition(from, to) ==
    to \in CASE from = "authenticating" -> {"active", "closed"}
             [] from = "active"         -> {"draining", "closed"}
             [] from = "draining"       -> {"closed"}
             [] OTHER                   -> {}

transition(r, to) ==
    IF canTransition(r.phase, to) THEN [r EXCEPT !.phase = to] ELSE r

\* ws.close: no more frames go out; the close callback follows.
Close(r) == [r EXCEPT !.sock = IF @ = "open" THEN "closing" ELSE @]

CloseAndStopHeartbeat(r) == [Close(r) EXCEPT !.beating = FALSE]

\* A frame handed to the socket; the depth counts those it could not take.
sendJson(r) ==
    [r EXCEPT !.depth = IF r.sock = "open" /\ r.full /\ @ < HardLimit
                        THEN @ + 1 ELSE @]

sendFrame(r, f) ==
    [sendJson(r) EXCEPT !.sent = IF r.sock = "open" THEN Append(@, f) ELSE @]

sendFrames(r, fs) ==
    LET depth == r.depth + Len(fs)
    IN  IF r.sock # "open" THEN r
        ELSE [r EXCEPT !.sent = @ \o fs,
                       !.depth = IF ~r.full THEN @
                                 ELSE IF depth < HardLimit THEN depth ELSE HardLimit]

\* The warning at the soft limit, the disconnect at the hard limit.
checkBackpressure(r) ==
    IF r.depth >= HardLimit THEN Close(r)
    ELSE IF r.depth >= SoftLimit /\ ~r.notified
    THEN LET w == [sendJson(r) EXCEPT !.notified = TRUE]
         IN  IF w.depth >= HardLimit THEN Close(w) ELSE w
    ELSE r

\* What a CircularBuffer keeps of the frames pushed into it, oldest first; the
\* frames are told by their numbers.
Latest(q) ==
    IF Len(q) > BufferSize THEN SubSeq(q, Len(q) - BufferSize + 1, Len(q)) ELSE q

\* The replay state after n more frames were numbered (sequenceEvent).
Numbered(state, n) ==
    [next   |-> state.next + n,
     buffer |-> Latest(state.buffer \o [i \in 1..n |-> state.next + i - 1])]

StreamOf(r) == <<r.cred, r.era>>

Ahead(c, d) ==
    \E i, j \in DOMAIN registry : i < j /\ registry[i] = c /\ registry[j] = d

\* sendSequenced on each connection of "to", in the order of the registry: each
\* takes the next number of its stream, and no send looks at another one's
\* connection.
sendSequenced(st, to, ev) ==
    LET stream(c) == StreamOf(st.conn[c])
        earlier(c) == {d \in to : d # c /\ stream(d) = stream(c) /\ Ahead(d, c)}
        frame(c) ==
          [cred |-> st.conn[c].cred, era |-> st.conn[c].era,
           seq |-> st.replay[stream(c)].next + Cardinality(earlier(c)), ev |-> ev,
           under |-> st.conn[c].snap.cred, version |-> st.conn[c].snap.version,
           live |-> TRUE]
    IN  [conn   |-> [c \in Conns |->
                       IF c \in to
                       THEN checkBackpressure(sendFrame(st.conn[c], frame(c)))
                       ELSE st.conn[c]],
         replay |-> [s \in Stream |->
                       Numbered(st.replay[s],
                                Cardinality({c \in to : stream(c) = s}))]]

cleanupConnection(r) ==
    transition([r EXCEPT !.authTimer = FALSE, !.beating = FALSE,
                         !.inflight = {}], "closed")

Registered == Range(registry) \ {None}

Unregistered(cs) ==
    [i \in DOMAIN registry |-> IF registry[i] \in cs THEN None ELSE registry[i]]

(***************************************************************************)
(* broadcastToCredential, once no invalidation is in flight: the event     *)
(* goes to the registered connections of the credential, in the order of   *)
(* the registry, under the snapshot each connection holds.  projectEvent   *)
(* is taken to pass every event: what it makes of one depends on the       *)
(* version of the snapshot only.                                           *)
(***************************************************************************)
getByCredentialId(st, k) == {c \in Registered : st.conn[c].cred = k}

Receives(r) == r.phase = "active" /\ r.snap.status = "active"

BroadcastTo(st, k, ev) ==
    sendSequenced(st, {c \in getByCredentialId(st, k) : Receives(st.conn[c])}, ev)

Spend(what) == spent' = [spent EXCEPT ![what] = @ + 1]

Now == [conn |-> conn, replay |-> replay]

SetStreams(st) == conn' = st.conn /\ replay' = st.replay

(***************************************************************************)
(* Lookups.  A call is appended with what it read; it is resumed in order  *)
(* or in any order.                                                        *)
(***************************************************************************)
Call(kind, c, k, arg) ==
    [kind |-> kind, conn |-> c, cred |-> k, snap |-> policy[k], arg |-> arg]

CanCall == Len(lookups) < MaxLookups

Answerable(i) == i \in DOMAIN lookups /\ (InOrder => i = 1)

Failures == IF MayFail THEN {"ok", "error"} ELSE {"ok"}

\* Variant of Refreshed that leaves the socket of a dead credential open.
RefreshedOnly(r, snap) == [r EXCEPT !.snap = snap]

\* What the caller of a lookup keeps: the snapshot, unless it is not active.
Refreshed(r, snap) ==
    LET s == [r EXCEPT !.snap = snap]
    IN  IF snap.status = "active" THEN s ELSE CloseAndStopHeartbeat(s)

(***************************************************************************)
(* Life of the server and of a socket.                                     *)
(***************************************************************************)
Start ==
    /\ server = "idle"
    /\ server' = "listening"
    /\ UNCHANGED <<conn, registry, replay, policy, lookups, greets, routes,
                   pending, gen, remaining, at, spent>>

Open(c) ==
    /\ server \in {"listening", "draining", "flushing"}
    /\ conn[c].sock = "unused"
    /\ conn' = [conn EXCEPT ![c] =
         IF server = "listening"
         THEN [@ EXCEPT !.sock = "open", !.authTimer = TRUE]
         ELSE [@ EXCEPT !.sock = "closing"]]
    /\ UNCHANGED <<server, registry, replay, policy, lookups, greets, routes,
                   pending, gen, remaining, at, spent>>

AuthTimeout(c) ==
    /\ conn[c].authTimer
    /\ conn' = [conn EXCEPT ![c] =
         IF @.phase = "authenticating"
         THEN Close([sendJson(@) EXCEPT !.authTimer = FALSE])
         ELSE [@ EXCEPT !.authTimer = FALSE]]
    /\ spent.faults < MaxFaults /\ Spend("faults")
    /\ UNCHANGED <<server, registry, replay, policy, lookups, greets, routes,
                   pending, gen, remaining, at>>

\* The client hangs up, sends a frame that is not JSON or not an auth frame,
\* or more messages than the rate limit allows.
Hangup(c) ==
    /\ conn[c].sock = "open"
    /\ conn' = [conn EXCEPT ![c] = Close(@)]
    /\ spent.faults < MaxFaults /\ Spend("faults")
    /\ UNCHANGED <<server, registry, replay, policy, lookups, greets, routes,
                   pending, gen, remaining, at>>

CloseCallback(c) ==
    /\ conn[c].sock = "closing"
    /\ conn' = [conn EXCEPT ![c] = [cleanupConnection(@) EXCEPT !.sock = "gone"]]
    /\ registry' = Unregistered({c})
    /\ UNCHANGED <<server, replay, policy, lookups, greets, routes, pending,
                   gen, remaining, at, spent>>

\* The kernel buffer of the socket fills up, and empties (drain callback).
Fill(c) ==
    /\ MayBlock
    /\ conn[c].sock = "open"
    /\ ~conn[c].full
    /\ conn' = [conn EXCEPT ![c].full = TRUE]
    /\ spent.faults < MaxFaults /\ Spend("faults")
    /\ UNCHANGED <<server, registry, replay, policy, lookups, greets, routes,
                   pending, gen, remaining, at>>

Drain(c) ==
    /\ conn[c].sock = "open"
    /\ conn[c].full
    /\ conn' = [conn EXCEPT ![c] =
         [@ EXCEPT !.full = FALSE, !.depth = 0, !.notified = FALSE]]
    /\ UNCHANGED <<server, registry, replay, policy, lookups, greets, routes,
                   pending, gen, remaining, at, spent>>

(***************************************************************************)
(* The auth handshake.  Nothing keeps a client from sending a second auth  *)
(* frame while the first is being looked up.                               *)
(***************************************************************************)
AuthFrame(c, k, lastSeen) ==
    /\ conn[c].sock = "open"
    /\ conn[c].phase = "authenticating"
    /\ CanCall
    /\ conn' = [conn EXCEPT ![c].authTimer = FALSE]
    /\ lookups' = Append(lookups, Call("auth", c, k, lastSeen))
    /\ spent.auths < MaxAuths /\ Spend("auths")
    /\ UNCHANGED <<server, registry, replay, policy, greets, routes, pending,
                   gen, remaining, at>>

\* What a client of a credential can have seen last: nothing, or a number that
\* was given out, before or after a stop.
LastSeen(k) == {None} \union UNION {0..(replay[<<k, e>>].next - 1) : e \in Eras}

\* Variant of NeedsRecovery that is one frame too late.
NeedsRecoveryLate(buffer, lastSeen) ==
    lastSeen # None /\ buffer # <<>> /\ Head(buffer) > lastSeen + 2

\* The frames to replay, and whether the client is too far behind for that.
NeedsRecovery(buffer, lastSeen) ==
    lastSeen # None /\ buffer # <<>> /\ Head(buffer) > lastSeen + 1

\* itemsSince; the numbers in the buffer rise.
ReplayFrames(buffer, lastSeen) ==
    IF lastSeen = None \/ NeedsRecovery(buffer, lastSeen) THEN <<>>
    ELSE LET seen == {i \in DOMAIN buffer : buffer[i] <= lastSeen}
         IN  SubSeq(buffer, Cardinality(seen) + 1, Len(buffer))

\* getOrCreateCredentialState finds what stop() left of the map.
Era == IF server = "stopped" THEN "cleared" ELSE "running"

\* The lookup of an auth frame returned: the connection becomes active and is
\* registered, whatever happened to the socket in the meantime.
AuthResumed(l, outcome) ==
    LET c == l.conn
        b == replay[<<l.cred, Era>>].buffer
    IN  IF outcome = "error" \/ l.snap.status # "active"
        THEN /\ conn' = [conn EXCEPT ![c] = Close(sendJson(@))]
             /\ UNCHANGED <<registry, greets>>
        ELSE /\ conn' = [conn EXCEPT ![c] =
                  [transition(@, "active") EXCEPT
                     !.cred = l.cred, !.era = Era, !.snap = l.snap]]
             /\ registry' = IF c \in Registered THEN registry
                            ELSE Append(registry, c)
             /\ greets' = greets \union
                  {[conn |-> c, cred |-> l.cred, era |-> Era, lastSeen |-> l.arg,
                    upto |-> replay[<<l.cred, Era>>].next - 1,
                    recovery |-> NeedsRecovery(b, l.arg),
                    frames |-> ReplayFrames(b, l.arg)]}

\* fingerprintToken returned: the authenticated frame, then the recovery event
\* or the replayed frames, then the heartbeat timer.
Greeted(g) ==
    LET c == g.conn
        r == sendJson(conn[c])
        s == [Now EXCEPT !.conn[c] =
                [r EXCEPT !.beating = TRUE,
                          !.resume = [cred |-> g.cred, era |-> g.era,
                                      lastSeen |-> g.lastSeen, upto |-> g.upto,
                                      recovery |-> g.recovery]]]
        replayed(n) == [cred |-> g.cred, era |-> g.era, seq |-> n, ev |-> 0,
                        under |-> None, version |-> 0, live |-> FALSE]
    IN  IF g.recovery THEN sendSequenced(s, {c}, 0)
        ELSE [s EXCEPT !.conn[c] =
                sendFrames(@, [i \in 1..Len(g.frames) |-> replayed(g.frames[i])])]

Greet(g) ==
    /\ g \in greets
    /\ greets' = greets \ {g}
    /\ SetStreams(Greeted(g))
    /\ UNCHANGED <<server, registry, policy, lookups, routes, pending, gen,
                   remaining, at, spent>>

(***************************************************************************)
(* Heartbeats.  A tick closes a silent connection or looks the credential  *)
(* up.  Bound: a connection has one heartbeat lookup in flight at a time   *)
(* (lookups are shorter than the heartbeat interval).                      *)
(***************************************************************************)
Beating(c) == conn[c].beating /\ conn[c].phase = "active"

HeartbeatDead(c) ==
    /\ Beating(c)
    /\ conn[c].sock = "open"
    /\ conn' = [conn EXCEPT ![c] = Close(@)]
    /\ spent.faults < MaxFaults /\ Spend("faults")
    /\ UNCHANGED <<server, registry, replay, policy, lookups, greets, routes,
                   pending, gen, remaining, at>>

HeartbeatTick(c) ==
    /\ Beating(c)
    /\ CanCall
    /\ \A i \in DOMAIN lookups : lookups[i].kind = "beat" => lookups[i].conn # c
    /\ IF policy[conn[c].snap.cred].status = "active"
       THEN spent.beats < MaxBeats /\ Spend("beats")
       ELSE UNCHANGED spent
    /\ lookups' = Append(lookups, Call("beat", c, conn[c].snap.cred, None))
    /\ UNCHANGED <<server, conn, registry, replay, policy, greets, routes,
                   pending, gen, remaining, at>>

BeatResumed(l, outcome) ==
    LET c == l.conn
        s == [Now EXCEPT !.conn[c] =
                IF outcome = "error" THEN CloseAndStopHeartbeat(@)
                ELSE Refreshed(@, l.snap)]
    IN  SetStreams(IF outcome = "ok" /\ l.snap.status = "active"
                   THEN sendSequenced(s, {c}, 0) ELSE s)

(***************************************************************************)
(* Requests: lookup, routing under a timeout, and after a request that     *)
(* changes policy another lookup before the answer.                        *)
(***************************************************************************)
RequestFrame(c, id) ==
    /\ conn[c].sock = "open"
    /\ conn[c].phase = "active"
    /\ id \notin conn[c].asked
    /\ CanCall
    /\ conn' = [conn EXCEPT ![c].asked = @ \union {id}]
    /\ lookups' = Append(lookups, Call("request", c, conn[c].snap.cred, id))
    /\ UNCHANGED <<server, registry, replay, policy, greets, routes, pending,
                   gen, remaining, at, spent>>

Respond(r, id) ==
    [sendJson(r) EXCEPT !.answered[id] = IF r.sock = "open" THEN @ + 1 ELSE @]

\* A malformed request is answered at once (or closes the connection, as
\* Hangup); any other is routed under a timer.
RequestResumed(l, outcome, malformed) ==
    LET c == l.conn
        id == l.arg
        r == IF outcome = "error" THEN CloseAndStopHeartbeat(conn[c])
             ELSE Refreshed(conn[c], l.snap)
    IN  IF outcome = "error" \/ l.snap.status # "active"
        THEN conn' = [conn EXCEPT ![c] = r] /\ UNCHANGED routes
        ELSE IF malformed
        THEN conn' = [conn EXCEPT ![c] = Respond(r, id)] /\ UNCHANGED routes
        ELSE /\ conn' = [conn EXCEPT ![c] =
                           [r EXCEPT !.inflight = @ \union {id}]]
             /\ routes' = routes \union {[conn |-> c, cred |-> l.cred, id |-> id]}

\* The answer to a request, which is no longer in flight.
Settle(r, id) == Respond([r EXCEPT !.inflight = @ \ {id}], id)

\* Variant of Answer that does not look whether the request timed out.
AnswerAlways(r, id) == Settle(r, id)

\* The answer of the handler, unless the request is no longer in flight.
Answer(r, id) ==
    IF id \in r.inflight THEN Settle(r, id) ELSE r

\* Variant of RequestTimeout whose timer does not fire on a closed socket.
RequestTimeoutIfOpen(c, id) ==
    /\ id \in conn[c].inflight
    /\ conn[c].sock = "open"
    /\ conn' = [conn EXCEPT ![c] = Settle(@, id)]
    /\ UNCHANGED <<server, registry, replay, policy, lookups, greets, routes,
                   pending, gen, remaining, at, spent>>

RequestTimeout(c, id) ==
    /\ id \in conn[c].inflight
    /\ conn' = [conn EXCEPT ![c] = Settle(@, id)]
    /\ UNCHANGED <<server, registry, replay, policy, lookups, greets, routes,
                   pending, gen, remaining, at, spent>>

\* routeRequest returned or threw; update_scopes and reveal_content look the
\* credential up again before they answer.
RouteReturned(q, mutating) ==
    /\ q \in routes
    /\ routes' = routes \ {q}
    /\ IF mutating
       THEN /\ lookups' = Append(lookups, Call("resync", q.conn, q.cred, q.id))
            /\ UNCHANGED conn
       ELSE /\ conn' = [conn EXCEPT ![q.conn] = Answer(@, q.id)]
            /\ UNCHANGED lookups
    /\ UNCHANGED <<server, registry, replay, policy, greets, pending, gen,
                   remaining, at, spent>>

ResyncResumed(l, outcome) ==
    conn' = [conn EXCEPT ![l.conn] =
      Answer(IF outcome = "ok" THEN [@ EXCEPT !.snap = l.snap] ELSE @, l.arg)]

(***************************************************************************)
(* Broadcasts and invalidations.  The credential manager calls             *)
(* invalidateCredential in the step that changes the credential.           *)
(***************************************************************************)
\* Variant of Broadcast that does not wait for invalidations in flight.
BroadcastUnqueued(k) ==
    /\ Len(at) < MaxEvents
    /\ at' = Append(at, policy[k].version)
    /\ SetStreams(BroadcastTo(Now, k, Len(at) + 1))
    /\ UNCHANGED <<server, registry, policy, lookups, greets, routes, pending,
                   gen, remaining, spent>>

Broadcast(k) ==
    /\ Len(at) < MaxEvents
    /\ at' = Append(at, policy[k].version)
    /\ LET ev == Len(at) + 1
       IN  IF pending[k].refcount > 0
           THEN /\ pending' = [pending EXCEPT ![k].events = Append(@, ev)]
                /\ UNCHANGED <<conn, replay>>
           ELSE /\ SetStreams(BroadcastTo(Now, k, ev))
                /\ UNCHANGED pending
    /\ UNCHANGED <<server, registry, policy, lookups, greets, routes, gen,
                   remaining, spent>>

Mutate(k, status) ==
    /\ policy[k].status = "active"
    /\ policy[k].version <= MaxVersion
    /\ status = "active" => policy[k].version < MaxVersion
    /\ policy' = [policy EXCEPT ![k] = [cred |-> k, version |-> @.version + 1,
                                        status |-> status]]
    /\ gen' = gen + 1
    /\ pending' = [pending EXCEPT ![k] =
         [refcount |-> @.refcount + 1, generation |-> gen + 1, events |-> @.events]]
    /\ lookups' = Append(lookups,
         [Call("invalidate", None, k, gen + 1) EXCEPT !.snap = policy'[k]])
    /\ UNCHANGED <<server, conn, registry, replay, greets, routes, remaining,
                   at, spent>>

\* The count after an invalidation: the finally block also runs on the early
\* return of one that is not the newest.
Released(p, l) == p.refcount - 1

\* Variant of Drained that broadcasts the newest event first.
DrainedReversed(st, k, events) ==
    LET after[n \in 0..Len(events)] ==
          IF n = 0 THEN st
          ELSE BroadcastTo(after[n - 1], k, events[Len(events) + 1 - n])
    IN  after[Len(events)]

\* The queued events, broadcast one after the other.
Drained(st, k, events) ==
    LET after[n \in 0..Len(events)] ==
          IF n = 0 THEN st ELSE BroadcastTo(after[n - 1], k, events[n])
    IN  after[Len(events)]

\* Only the newest invalidation writes the snapshot; the last one to return
\* removes the entry and broadcasts what was queued.
InvalidateResumed(l, outcome) ==
    LET k == l.cred
        p == pending[k]
        Fresh(c) == c \in getByCredentialId(Now, k) /\ conn[c].phase = "active"
        written ==
          [c \in Conns |->
             IF p.generation = l.arg /\ Fresh(c)
             THEN IF outcome = "error" THEN CloseAndStopHeartbeat(conn[c])
                  ELSE Refreshed(conn[c], l.snap)
             ELSE conn[c]]
        st == [conn |-> written, replay |-> replay]
    IN  IF Released(p, l) > 0
        THEN /\ pending' = [pending EXCEPT ![k].refcount = Released(p, l)]
             /\ SetStreams(st)
        ELSE /\ pending' = [pending EXCEPT ![k] = NoInvalidation]
             /\ SetStreams(Drained(st, k, p.events))

(***************************************************************************)
(* A lookup returns to its caller.                                         *)
(***************************************************************************)
Resume(i, outcome, malformed) ==
    /\ Answerable(i)
    /\ lookups' = RemoveAt(lookups, i)
    /\ LET l == lookups[i]
       IN  \/ /\ l.kind = "auth"
              /\ AuthResumed(l, outcome)
              /\ UNCHANGED <<replay, routes, pending>>
           \/ /\ l.kind = "beat"
              /\ BeatResumed(l, outcome)
              /\ UNCHANGED <<registry, greets, routes, pending>>
           \/ /\ l.kind = "request"
              /\ RequestResumed(l, outcome, malformed)
              /\ UNCHANGED <<registry, replay, greets, pending>>
           \/ /\ l.kind = "resync"
              /\ ResyncResumed(l, outcome)
              /\ UNCHANGED <<registry, replay, greets, routes, pending>>
           \/ /\ l.kind = "invalidate"
              /\ InvalidateResumed(l, outcome)
              /\ UNCHANGED <<registry, greets, routes>>
    /\ IF outcome = "error" THEN spent.faults < MaxFaults /\ Spend("faults")
       ELSE UNCHANGED spent
    /\ UNCHANGED <<server, policy, gen, remaining, at>>

(***************************************************************************)
(* stop(): tell the active connections, wait for their requests, close     *)
(* everyone, wait for the close frames, clean up.                          *)
(***************************************************************************)
StopBegin ==
    /\ MayStop
    /\ server = "listening"
    /\ server' = "draining"
    /\ LET active == {c \in Registered : conn[c].phase = "active"}
           told == sendSequenced(Now, active, 0)
       IN  SetStreams([told EXCEPT !.conn =
             [c \in Conns |-> IF c \in active THEN transition(@[c], "draining")
                              ELSE @[c]]])
    /\ UNCHANGED <<registry, policy, lookups, greets, routes, pending, gen,
                   remaining, at, spent>>

\* No request is in flight, or the drain timeout has passed.
StopClose(deadline) ==
    /\ server = "draining"
    /\ deadline \/ \A c \in Registered : conn[c].inflight = {}
    /\ server' = "flushing"
    /\ remaining' = Registered
    /\ conn' = [c \in Conns |-> IF c \in Registered THEN Close(conn[c])
                                ELSE conn[c]]
    /\ UNCHANGED <<registry, replay, policy, lookups, greets, routes, pending,
                   gen, at, spent>>

StopFinish ==
    /\ server = "flushing"
    /\ server' = "stopped"
    /\ conn' = [c \in Conns |-> IF c \in remaining THEN cleanupConnection(conn[c])
                                ELSE conn[c]]
    /\ registry' = Unregistered(remaining)
    /\ UNCHANGED <<replay, policy, lookups, greets, routes, pending, gen, remaining,
                   at, spent>>

ResumeSome ==
    \E i \in DOMAIN lookups, outcome \in Failures, malformed \in BOOLEAN :
        /\ malformed => MayFail /\ lookups[i].kind = "request"
        /\ Resume(i, outcome, malformed)

Next ==
    \/ Start
    \/ StopBegin
    \/ \E deadline \in BOOLEAN : StopClose(deadline)
    \/ StopFinish
    \/ ResumeSome
    \/ \E g \in greets : Greet(g)
    \/ \E q \in routes, mutating \in BOOLEAN : RouteReturned(q, mutating)
    \/ \E k \in Credentials : Broadcast(k)
    \/ \E k \in Credentials, status \in {"active", "revoked"} : Mutate(k, status)
    \/ \E c \in Conns :
         \/ Open(c)
         \/ AuthTimeout(c)
         \/ Hangup(c)
         \/ CloseCallback(c)
         \/ Fill(c)
         \/ Drain(c)
         \/ \E k \in Credentials :
              \E lastSeen \in LastSeen(k) : AuthFrame(c, k, lastSeen)
         \/ HeartbeatDead(c)
         \/ HeartbeatTick(c)
         \/ \E id \in Ids : RequestFrame(c, id) \/ RequestTimeout(c, id)

Spec == Init /\ [][Next]_vars

(***************************************************************************)
(* What the runtime guarantees: promises that are settled are resumed,     *)
(* close callbacks arrive, timers and intervals fire.  A request handler   *)
(* may hang and a client may never send, so neither is fair.               *)
(***************************************************************************)
FairSpec ==
    /\ Spec
    /\ WF_vars(ResumeSome)
    /\ WF_vars(\E g \in greets : Greet(g))
    /\ WF_vars(StopClose(TRUE))
    /\ WF_vars(StopFinish)
    /\ \A c \in Conns : /\ WF_vars(CloseCallback(c))
                        /\ WF_vars(HeartbeatTick(c))
                        /\ \A id \in Ids : WF_vars(RequestTimeout(c, id))

-----------------------------------------------------------------------------
(***************************************************************************)
(* Properties.                                                             *)
(***************************************************************************)

Resumption == [cred : Credentials, era : Eras, lastSeen : Nat \union {None},
               upto : Nat, recovery : BOOLEAN]

Connection ==
    [sock : {"unused", "open", "closing", "gone"},
     phase : {"authenticating", "active", "draining", "closed"},
     authTimer : BOOLEAN, beating : BOOLEAN,
     cred : Credentials \union {None}, era : Eras, snap : Snapshot \union {None},
     inflight : SUBSET Ids, depth : 0..HardLimit, notified : BOOLEAN,
     full : BOOLEAN, sent : Seq(Frame), asked : SUBSET Ids,
     answered : [Ids -> Nat], resume : Resumption \union {None}]

Lookup ==
    [kind : {"auth", "beat", "request", "resync", "invalidate"},
     conn : Conns \union {None}, cred : Credentials, snap : Snapshot,
     arg : Nat \union Ids \union {None}]

Greeting ==
    [conn : Conns, cred : Credentials, era : Eras, lastSeen : Nat \union {None},
     upto : Nat, recovery : BOOLEAN, frames : Seq(Nat)]

\* A connection that is up has a credential and a record, a new one has neither.
ConnectionOK(r) ==
    /\ r \in Connection
    /\ r.phase \in {"active", "draining"} => r.cred # None
    /\ r.cred # None => r.snap \in Snapshot
    /\ r.sock = "unused" => r.cred = None /\ r.resume = None

\* The last frames of a stream, as many as the buffer takes.
ReplayOK(state) ==
    /\ state \in [next : Nat \ {0}, buffer : Seq(Nat)]
    /\ Len(state.buffer) <= BufferSize
    /\ Len(state.buffer) = BufferSize \/ Len(state.buffer) = state.next - 1
    /\ \A i \in DOMAIN state.buffer :
         state.buffer[i] = state.next - 1 - Len(state.buffer) + i

\* What a lookup in flight is for, and what it read.
LookupOK(l) ==
    /\ l \in Lookup
    /\ l.snap.cred = l.cred
    /\ l.kind # "invalidate" => l.conn \in Conns /\ conn[l.conn].sock # "unused"
    /\ l.kind = "auth" => l.arg \in Nat \union {None}
    /\ l.kind \in {"request", "resync"} => l.arg \in Ids
    /\ l.kind \in {"beat", "request", "resync"} => conn[l.conn].cred # None
    /\ l.kind = "invalidate" => l.arg \in 1..gen

\* Types.  A connection that is up has a credential and a record, and a buffer
\* never holds more frames than replayBufferSize, numbered without a gap up to
\* the last one sent.
TypeOK ==
    /\ server \in {"idle", "listening", "draining", "flushing", "stopped"}
    /\ conn \in [Conns -> Connection] /\ \A c \in Conns : ConnectionOK(conn[c])
    /\ registry \in Seq(Conns \union {None})
    /\ DOMAIN replay = Stream /\ \A s \in Stream : ReplayOK(replay[s])
    /\ policy \in [Credentials -> Snapshot]
    /\ \A k \in Credentials : policy[k].cred = k
    /\ lookups \in Seq(Lookup) /\ \A i \in DOMAIN lookups : LookupOK(lookups[i])
    /\ greets \subseteq Greeting /\ \A g \in greets : conn[g.conn].cred # None
    /\ routes \subseteq [conn : Conns, cred : Credentials, id : Ids]
    /\ \A q \in routes : conn[q.conn].cred # None
    /\ pending \in [Credentials ->
                      [refcount : Nat, generation : Nat, events : Seq(Nat)]]
    /\ gen \in Nat /\ remaining \subseteq Conns /\ at \in Seq(Nat)

\* invalidateCredential counts its lookups exactly, whatever order they return
\* in: there is an entry, and events are queued, only while some invalidation
\* of the credential is in flight, and no lookup in flight is newer than the
\* generation the entry remembers.
QueueMatchesLookups ==
    \A k \in Credentials :
        LET mine == {i \in DOMAIN lookups : /\ lookups[i].kind = "invalidate"
                                            /\ lookups[i].cred = k}
        IN  /\ pending[k].refcount = Cardinality(mine)
            /\ pending[k].refcount = 0 => pending[k].events = <<>>
            /\ \A i \in mine : lookups[i].arg <= pending[k].generation

\* The frames of a credential sent live on a connection (not the replayed ones)
\* carry rising sequence numbers as long as they come from one replay state,
\* and the events among them arrive in the order of the broadcasts, each at
\* most once, across queueing and draining.
LiveFramesInOrder ==
    \A c \in Conns : \A i, j \in DOMAIN conn[c].sent :
        LET f == conn[c].sent[i]
            g == conn[c].sent[j]
        IN  i < j /\ f.live /\ g.live /\ f.cred = g.cred =>
              /\ f.era = g.era => f.seq < g.seq
              /\ f.ev > 0 /\ g.ev > 0 => f.ev < g.ev

\* A client that resumes from lastSeenSeq misses nothing silently: it is told
\* to recover exactly when the buffer no longer holds every later frame, and
\* otherwise every frame from there to the handshake reached its socket.
ResumeIsComplete ==
    \A c \in Conns :
        LET r == conn[c]
        IN  r.resume # None /\ r.sock = "open" /\ r.resume.lastSeen # None =>
                /\ r.resume.recovery
                     = (r.resume.upto - r.resume.lastSeen > BufferSize)
                /\ r.resume.recovery \/
                     \A s \in (r.resume.lastSeen + 1)..r.resume.upto :
                       \E i \in DOMAIN r.sent :
                         /\ r.sent[i].cred = r.resume.cred
                         /\ r.sent[i].era = r.resume.era
                         /\ r.sent[i].seq = s

\* No event is projected under a record of its credential older than the policy
\* that was in force when it was broadcast (invalidateCredential: "so
\* broadcasts project correctly").
NoStaleProjection ==
    \A c \in Conns : \A i \in DOMAIN conn[c].sent :
        LET f == conn[c].sent[i]
        IN  f.live /\ f.ev > 0 /\ f.under = f.cred => f.version >= at[f.ev]

\* What is sent for a credential is projected under a record of that credential
\* (broadcast: "to all connections for a credential").
ProjectedUnderOwnRecord ==
    \A c \in Conns : \A i \in DOMAIN conn[c].sent :
        LET f == conn[c].sent[i]
        IN  f.live => f.under = f.cred

\* A request is answered at most once: the timeout and a late answer of the
\* handler exclude each other.
AnsweredOnce ==
    \A c \in Conns, id \in Ids : conn[c].answered[id] <= 1

\* frames.ts on seq: "Monotonically increasing sequence number, scoped to
\* connection".
SeqRisesOnConnection ==
    \A c \in Conns : \A i, j \in DOMAIN conn[c].sent :
        i < j /\ StreamOf(conn[c].sent[i]) = StreamOf(conn[c].sent[j])
          => conn[c].sent[i].seq < conn[c].sent[j].seq

\* A socket of a revoked credential does not stay open: the invalidation, a
\* request or the next heartbeat closes it, also when the lookup of its
\* handshake raced the revocation.
RevokedSocketsClose ==
    \A c \in Conns, k \in Credentials :
        (policy[k].status = "revoked" /\ conn[c].cred = k /\ conn[c].sock = "open")
          ~> (conn[c].sock # "open" \/ conn[c].cred # k)

\* Events held back by invalidations are sent in the end.
QueueDrains ==
    \A k \in Credentials : pending[k].events # <<>> ~> pending[k].events = <<>>

\* A routed request does not stay in flight, even when its handler never
\* returns.
RequestsSettle ==
    \A c \in Conns, id \in Ids :
        id \in conn[c].inflight ~> id \notin conn[c].inflight

=============================================================================
