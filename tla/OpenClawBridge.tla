--------------------------- MODULE OpenClawBridge ---------------------------
(***************************************************************************)
(* The read-only OpenClaw bridge (adapters/openclaw/src/bridge): a loop    *)
(* that connects to the signet, resumes at the sequence number of a        *)
(* checkpoint file, saves a new checkpoint before it delivers a frame,     *)
(* reconnects, can be stopped and started again, and loses its memory but  *)
(* not its file when the process dies.                                     *)
(*                                                                         *)
(* The frames of a connection wait in a promise chain of that connection;  *)
(* the chain goes on after the connection is settled.                      *)
(***************************************************************************)
EXTENDS Naturals, Sequences, FiniteSets

CONSTANTS
    Conns,          \* names for connections, reused once closed and drained
    NoConn,         \* no active connection
    Torn,           \* a checkpoint file cut off in the middle of a write
    ReplaySize,     \* frames the signet keeps for replay
    MaxRetries,    \* config.reconnect.maxAttempts (0: unlimited)
    QuickRestart,   \* may start() come while an old chain still runs?
    MaxEvents,      \* bound: events the signet sends
    MaxFaults       \* bound: crashes, signet restarts, drops, failed saves

ASSUME BridgeAssumption ==
    /\ NoConn \notin Conns /\ Torn \notin Nat
    /\ ReplaySize \in Nat \ {0} /\ MaxRetries \in Nat
    /\ QuickRestart \in BOOLEAN /\ MaxEvents \in Nat /\ MaxFaults \in Nat

VARIABLES
    b,          \* the closure of createOpenClawReadOnlyBridge
    conn,       \* per connection: its closure, its chain and its socket
    file,       \* the credential's checkpoint file: a number or Torn
    signet,     \* the signet: last number, buffered frames, total of events
    delivered,  \* history: the events delivered, over all processes
    faults      \* history: faults so far

bvars == <<b, conn, file, signet, delivered, faults>>

\* Messages of the signet: a sequenced frame or an answer to the auth frame.
Frame(n, e) == [type |-> "event", seq |-> n, ev |-> e]
Answer(type) == [type |-> type, seq |-> 0, ev |-> 0]

IdleConn == [phase |-> "idle", authed |-> FALSE, settled |-> TRUE, last |-> 0,
             chain |-> <<>>, saving |-> FALSE, inbox |-> <<>>, peer |-> "none"]

FreshBridge == [loop |-> "off", stopped |-> FALSE, active |-> NoConn,
                attempt |-> 0, resume |-> 0, fatal |-> FALSE, done |-> FALSE]

BInit ==
    /\ b = FreshBridge
    /\ conn = [c \in Conns |-> IdleConn]
    /\ file = 0
    /\ signet = [seq |-> 0, buffer |-> <<>>, total |-> 0]
    /\ delivered = <<>> /\ faults = 0

Fault == faults < MaxFaults /\ faults' = faults + 1

\* A connection whose closure can be forgotten.
Free(c) == conn[c].phase = "idle" /\ conn[c].chain = <<>>

----------------------------------------------------------------------------
(* The loop.                                                                *)

\* The loop ends: the delivery stream is completed.
Ended(x) == [x EXCEPT !.loop = "off", !.done = TRUE, !.active = NoConn]

\* start(): refused while the loop runs; the delivery stream is reset and the
\* checkpoint load begins.
Start ==
    /\ b.loop = "off"
    /\ QuickRestart \/ \A c \in Conns : conn[c].chain = <<>>
    /\ b' = [b EXCEPT !.loop = "load", !.stopped = FALSE, !.fatal = FALSE,
                      !.done = FALSE, !.attempt = 0]
    /\ UNCHANGED <<conn, file, signet, delivered, faults>>

\* readCheckpointFile: no file is a null checkpoint (0), a file that does not
\* parse is an error.
Resumable(f) == f # Torn

\* loadForCredential returned: an error ends the loop, and so does a stop that
\* came meanwhile.
Loaded ==
    /\ b.loop = "load"
    /\ b' = IF ~Resumable(file) \/ b.stopped THEN Ended(b)
            ELSE [b EXCEPT !.loop = "connect", !.resume = file]
    /\ UNCHANGED <<conn, file, signet, delivered, faults>>

\* connectAndPump: a new socket becomes the active connection.
ConnectAndPump(c) ==
    /\ b.loop = "connect" /\ Free(c)
    /\ b' = [b EXCEPT !.loop = "pump", !.active = c]
    /\ conn' = [conn EXCEPT ![c] = [IdleConn EXCEPT !.phase = "open",
                  !.settled = FALSE, !.last = b.resume, !.peer = "asked"]]
    /\ UNCHANGED <<file, signet, delivered, faults>>

\* settle and the rest of the loop's turn after it: stop, give up or sleep.
Settled(x, c, retryable) ==
    LET y == [x EXCEPT !.active = NoConn, !.resume = conn[c].last]
        exhausted == MaxRetries # 0 /\ y.attempt >= MaxRetries
    IN  IF y.stopped \/ ~retryable \/ exhausted
        THEN Ended(y)
        ELSE [y EXCEPT !.loop = "sleep", !.attempt = @ + 1]

\* The reconnect delay is over.
Wake ==
    /\ b.loop = "sleep"
    /\ b' = [b EXCEPT !.loop = "connect"]
    /\ UNCHANGED <<conn, file, signet, delivered, faults>>

\* stop(): wakes a sleeping loop, settles the active connection, closes its
\* socket; its chain is not waited for.  A load that runs is not interrupted.
Stop ==
    /\ b.loop # "off" /\ ~b.stopped
    /\ LET x == [b EXCEPT !.stopped = TRUE]
       IN  b' = IF b.loop = "load" THEN x ELSE Ended(x)
    /\ conn' = IF b.active = NoConn THEN conn
               ELSE [conn EXCEPT ![b.active].settled = TRUE,
                                 ![b.active].phase = "idle",
                                 ![b.active].inbox = <<>>]
    /\ UNCHANGED <<file, signet, delivered, faults>>

----------------------------------------------------------------------------
(* The active connection.                                                   *)

\* EnvelopeStream.push of an envelope: dropped once the stream is completed.
Deliver(f) == IF b.done THEN delivered ELSE Append(delivered, f)

\* A message of the active connection: the auth answer, or a frame that joins
\* the chain; before the answer a frame only raises an error.
Message(c) ==
    /\ b.active = c /\ conn[c].inbox # <<>>
    /\ LET m == Head(conn[c].inbox)
           k == [conn[c] EXCEPT !.inbox = Tail(@)]
       IN  \/ /\ m.type = "authenticated"
              /\ b' = [b EXCEPT !.attempt = 0]
              /\ conn' = [conn EXCEPT ![c] = [k EXCEPT !.authed = TRUE]]
           \/ /\ m.type = "auth_error"
              /\ b' = Settled(b, c, FALSE)
              /\ conn' = [conn EXCEPT ![c] = [k EXCEPT !.settled = TRUE,
                                                !.phase = "idle", !.inbox = <<>>]]
           \/ /\ m.type = "event"
              /\ conn' = [conn EXCEPT ![c] =
                   IF k.authed THEN [k EXCEPT !.chain = Append(@, m)] ELSE k]
              /\ UNCHANGED b
    /\ UNCHANGED <<file, signet, delivered, faults>>

\* handleSequencedFrame up to its await: a frame that was delivered before is
\* skipped, any other one starts a save.
FrameStarts(c) ==
    /\ conn[c].chain # <<>> /\ ~conn[c].saving
    /\ LET k == conn[c]
       IN  conn' = [conn EXCEPT ![c] =
             IF Head(k.chain).seq <= k.last THEN [k EXCEPT !.chain = Tail(k.chain)]
             ELSE [k EXCEPT !.saving = TRUE]]
    /\ UNCHANGED <<b, file, signet, delivered, faults>>

\* Variant of FrameSaved for a bridge that delivers a frame without saving.
FrameUnsaved(c) ==
    LET f == Head(conn[c].chain)
    IN  /\ conn' = [conn EXCEPT ![c].saving = FALSE, ![c].last = f.seq,
                                ![c].chain = Tail(@)]
        /\ delivered' = Deliver(f)
        /\ UNCHANGED <<b, file, faults>>

\* A saved frame is the new resume point and is delivered.
FrameSaved(c) ==
    LET f == Head(conn[c].chain)
    IN  /\ conn' = [conn EXCEPT ![c].saving = FALSE, ![c].last = f.seq,
                                ![c].chain = Tail(@)]
        /\ file' = f.seq
        /\ delivered' = Deliver(f)
        /\ UNCHANGED <<b, faults>>

\* The save failed: the frame is given up and the current socket is closed.
FrameLost(c) ==
    /\ Fault
    /\ b' = [b EXCEPT !.fatal = TRUE]
    /\ conn' = [d \in Conns |->
         LET k == IF d = c
                  THEN [conn[c] EXCEPT !.saving = FALSE, !.chain = Tail(@)]
                  ELSE conn[d]
         IN  IF d = b.active THEN [k EXCEPT !.phase = "closing", !.inbox = <<>>]
             ELSE k]
    /\ UNCHANGED <<file, delivered>>

\* checkpoints.save returned.
FrameEnds(c) ==
    /\ conn[c].saving
    /\ FrameSaved(c) \/ FrameLost(c)
    /\ UNCHANGED signet

\* The socket of the active connection closed and its chain is done.
SocketClosed(c, retryable) ==
    /\ b.active = c /\ conn[c].chain = <<>>
    /\ \/ conn[c].phase = "closing" /\ UNCHANGED faults
       \/ conn[c].phase = "open" /\ conn[c].inbox = <<>> /\ Fault
    /\ b' = Settled(b, c, retryable /\ ~b.fatal)
    /\ conn' = [conn EXCEPT ![c].settled = TRUE, ![c].phase = "idle"]
    /\ UNCHANGED <<file, signet, delivered>>

\* The auth timeout of the active connection.
BridgeAuthTimeout(c) ==
    /\ b.active = c /\ ~conn[c].authed /\ conn[c].phase = "open" /\ Fault
    /\ b' = Settled(b, c, FALSE)
    /\ conn' = [conn EXCEPT ![c].settled = TRUE, ![c].phase = "idle",
                            ![c].inbox = <<>>]
    /\ UNCHANGED <<file, signet, delivered>>

\* The process dies: a write under way may be missing, whole or cut off.
Crash ==
    /\ b # FreshBridge \/ \E c \in Conns : ~Free(c)
    /\ Fault
    /\ b' = FreshBridge
    /\ conn' = [c \in Conns |-> IdleConn]
    /\ file' \in {file} \union
         UNION {{Torn, Head(conn[c].chain).seq} :
                  c \in {d \in Conns : conn[d].saving}}
    /\ UNCHANGED <<signet, delivered>>

----------------------------------------------------------------------------
(* The signet as the bridge meets it (packages/ws/src/server.ts).           *)

Keep(buffer) ==
    IF Len(buffer) > ReplaySize THEN Tail(buffer) ELSE buffer

\* itemsSince: the numbers in a buffer ascend, so those after last are its end.
FramesSince(last) ==
    LET seen == {i \in DOMAIN signet.buffer : signet.buffer[i].seq <= last}
    IN  SubSeq(signet.buffer, Cardinality(seen) + 1, Len(signet.buffer))

\* Authentication and replay: nothing without a resume point, nothing but a
\* recovery event when the buffer starts too late.
SignetAnswers(c) ==
    /\ b.active = c /\ conn[c].peer = "asked" /\ conn[c].phase = "open"
    /\ \/ conn' = [conn EXCEPT ![c].peer = "refused",
                               ![c].inbox = <<Answer("auth_error")>>]
       \/ LET last == conn[c].last
              late == signet.buffer # <<>> /\ Head(signet.buffer).seq > last + 1
          IN  conn' = [conn EXCEPT ![c].peer = "active", ![c].inbox =
                <<Answer("authenticated")>> \o
                (IF last = 0 \/ late THEN <<>>
                 ELSE FramesSince(last))]
    /\ UNCHANGED <<b, file, signet, delivered, faults>>

SignetSends ==
    /\ signet.total < MaxEvents
    /\ LET f == Frame(signet.seq + 1, signet.total + 1)
       IN  /\ signet' = [seq |-> f.seq, buffer |-> Keep(Append(signet.buffer, f)),
                         total |-> f.ev]
           /\ conn' = [c \in Conns |->
                IF b.active = c /\ conn[c].peer = "active"
                   /\ conn[c].phase = "open"
                THEN [conn[c] EXCEPT !.inbox = Append(@, f)] ELSE conn[c]]
    /\ UNCHANGED <<b, file, delivered, faults>>

\* The signet restarts: numbers and buffer start again, sockets close.
SignetRestarts ==
    /\ Fault /\ signet.seq > 0
    /\ signet' = [signet EXCEPT !.seq = 0, !.buffer = <<>>]
    /\ conn' = [c \in Conns |->
                  IF b.active = c /\ conn[c].phase = "open"
                  THEN [conn[c] EXCEPT !.phase = "closing", !.inbox = <<>>]
                  ELSE conn[c]]
    /\ UNCHANGED <<b, file, delivered>>

----------------------------------------------------------------------------
BNext ==
    \/ Start \/ Loaded \/ Wake \/ Stop \/ Crash
    \/ SignetSends \/ SignetRestarts
    \/ \E c \in Conns :
         \/ ConnectAndPump(c) \/ Message(c) \/ FrameStarts(c) \/ FrameEnds(c)
         \/ BridgeAuthTimeout(c) \/ SignetAnswers(c)
         \/ \E retryable \in BOOLEAN : SocketClosed(c, retryable)

BSpec == BInit /\ [][BNext]_bvars

----------------------------------------------------------------------------
(* Properties.                                                              *)

\* runtime.ts:331, 352 and checkpoint-store.ts:14 ("replay-safe reconnect and
\* restart"): no event reaches the consumer twice, whatever crashes, restarts
\* of the signet, failed saves and reconnections came between.
DeliveredOnce ==
    \A i, j \in DOMAIN delivered : i < j => delivered[i].ev < delivered[j].ev

=============================================================================
