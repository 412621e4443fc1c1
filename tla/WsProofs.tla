------------------------------ MODULE WsProofs ------------------------------
(***************************************************************************)
(* What holds of the WebSocket transport for every number of sockets,      *)
(* credentials, requests and events, and every size of the buffers.        *)
(***************************************************************************)
EXTENDS WsServer, FiniteSetTheorems, SequenceTheorems, WellFoundedInduction, TLAPS

(***************************************************************************)
(* What a step may do to one connection: Same leaves all but its frames,   *)
(* Kept the frames too.                                                    *)
(***************************************************************************)
Same(r, r2) ==
    /\ r2.cred = r.cred /\ r2.era = r.era /\ r2.snap = r.snap
    /\ r2.resume = r.resume /\ r2.asked = r.asked /\ r2.answered = r.answered
    /\ r2.inflight \subseteq r.inflight
    /\ r2.sock = "open" => r.sock \in {"open", "unused"}
    /\ r2.sock = "unused" => r.sock = "unused"
    /\ r.sock # "unused" => r2.sock # "unused"
    /\ r2.phase = "active" => r.phase = "active"
    /\ r2.phase = "draining" => r.phase \in {"active", "draining"}

Kept(r, r2) == Same(r, r2) /\ r2.sent = r.sent

\* Steps that keep a connection keep it together.
LEMMA KeptTransitive ==
    ASSUME NEW a, NEW b, NEW c
    PROVE  /\ Kept(a, b) /\ Kept(b, c) => Kept(a, c)
           /\ Same(a, b) /\ Same(b, c) => Same(a, c)
BY DEF Kept, Same

\* Closing, and what goes with it, keeps a connection.
LEMMA CloseKeeps ==
    ASSUME NEW r \in Connection
    PROVE  /\ Close(r) \in Connection /\ Kept(r, Close(r)) /\ Close(r).sock # "open"
           /\ CloseAndStopHeartbeat(r) \in Connection /\ Kept(r, CloseAndStopHeartbeat(r))
           /\ CloseAndStopHeartbeat(r).sock # "open"
<1>1. Close(r) \in Connection /\ Kept(r, Close(r)) /\ Close(r).sock # "open"
  BY DEF Close, Connection, Kept, Same
<1>2. PICK k \in Connection : k = Close(r)
  BY <1>1
<1>3. PICK j : j = [k EXCEPT !.beating = FALSE]
  OBVIOUS
<1>4. j \in Connection /\ Kept(k, j) /\ j.sock = k.sock
  BY <1>3 DEF Connection, Kept, Same
<1>5. CloseAndStopHeartbeat(r) = j
  BY <1>2, <1>3 DEF CloseAndStopHeartbeat
<1>6. Kept(r, j)
  BY <1>1, <1>2, <1>4, KeptTransitive
<1> QED
  BY <1>1, <1>2, <1>4, <1>5, <1>6

\* A frame that is not sequenced only counts against the limits.
LEMMA SendJsonKeeps ==
    ASSUME NEW r \in Connection
    PROVE  sendJson(r) \in Connection /\ Kept(r, sendJson(r)) /\ sendJson(r).sock = r.sock
           /\ sendJson(r).phase = r.phase
<1>1. PICK d : d = IF r.sock = "open" /\ r.full /\ r.depth < HardLimit
                   THEN r.depth + 1 ELSE r.depth
  OBVIOUS
<1>2. d \in 0..HardLimit
  BY <1>1, SizesAssumption DEF Connection
<1>3. sendJson(r) = [r EXCEPT !.depth = d]
  BY <1>1 DEF sendJson, Connection
<1> QED
  BY <1>2, <1>3 DEF Connection, Kept, Same

\* cleanupConnection.
LEMMA CleanupKeeps ==
    ASSUME NEW r \in Connection
    PROVE  cleanupConnection(r) \in Connection /\ Kept(r, cleanupConnection(r))
           /\ cleanupConnection(r).sock = r.sock
           /\ cleanupConnection(r).phase # "active"
<1>1. PICK k : k = [r EXCEPT !.authTimer = FALSE, !.beating = FALSE, !.inflight = {}]
  OBVIOUS
<1>2. k \in Connection /\ Kept(r, k) /\ k.sock = r.sock
  BY <1>1 DEF Connection, Kept, Same
<1>3. PICK j : j = transition(k, "closed")
  OBVIOUS
<1>4. j \in Connection /\ Kept(k, j) /\ j.sock = k.sock
  BY <1>2, <1>3 DEF transition, Connection, Kept, Same
<1>7. j.phase # "active"
  BY <1>2, <1>3 DEF transition, canTransition, Connection
<1>5. cleanupConnection(r) = j
  BY <1>1, <1>3 DEF cleanupConnection
<1>6. Kept(r, j)
  BY <1>2, <1>4, KeptTransitive
<1> QED
  BY <1>2, <1>4, <1>5, <1>6, <1>7

\* A sequenced frame, with the warning and the disconnect it may lead to.
LEMMA SendFrameKeeps ==
    ASSUME NEW r \in Connection, NEW f \in Frame, NEW r2,
           r2 = checkBackpressure(sendFrame(r, f))
    PROVE  /\ r2 \in Connection /\ Same(r, r2) /\ r2.phase = r.phase
           /\ r2.sent = IF r.sock = "open" THEN Append(r.sent, f) ELSE r.sent
<1>1. PICK k \in Connection : k = sendJson(r) /\ Kept(r, k) /\ k.sock = r.sock /\ k.phase = r.phase
  BY SendJsonKeeps
<1>2. PICK s : s = [k EXCEPT !.sent = IF r.sock = "open" THEN Append(k.sent, f) ELSE k.sent]
  OBVIOUS
<1>3. s = sendFrame(r, f)
  BY <1>1, <1>2 DEF sendFrame, Connection
<1>4. Append(k.sent, f) \in Seq(Frame)
  BY DEF Connection
<1>5. /\ s \in Connection /\ Same(r, s) /\ s.phase = r.phase
      /\ s.sent = IF r.sock = "open" THEN Append(r.sent, f) ELSE r.sent
  <2>1. /\ s.cred = k.cred /\ s.era = k.era /\ s.snap = k.snap /\ s.resume = k.resume
        /\ s.asked = k.asked /\ s.answered = k.answered /\ s.inflight = k.inflight
        /\ s.sock = k.sock /\ s.phase = k.phase
        /\ s.sent = IF r.sock = "open" THEN Append(k.sent, f) ELSE k.sent
    BY <1>2 DEF Connection
  <2>2. s \in Connection
    BY <1>2, <1>4, ZenonT(60) DEF Connection
  <2>3. Same(r, k) /\ k.sent = r.sent
    BY <1>1 DEF Kept
  <2> QED
    BY <1>1, <2>1, <2>2, <2>3 DEF Same
<1>6. PICK w : w = [sendJson(s) EXCEPT !.notified = TRUE]
  OBVIOUS
<1>7. w \in Connection /\ Kept(s, w) /\ w.phase = s.phase
  <2>1. PICK j \in Connection : j = sendJson(s) /\ Kept(s, j) /\ j.phase = s.phase
    BY <1>5, SendJsonKeeps
  <2> QED
    BY <1>6, <2>1, ZenonT(60) DEF Connection, Kept, Same
<1>8. /\ Close(s) \in Connection /\ Kept(s, Close(s)) /\ Close(s).phase = s.phase
      /\ Close(w) \in Connection /\ Kept(w, Close(w)) /\ Close(w).phase = w.phase
  <2>1. Close(s).phase = s.phase /\ Close(w).phase = w.phase
    BY <1>5, <1>7 DEF Close, Connection
  <2> QED
    BY <1>5, <1>7, <2>1, CloseKeeps
<1>9. r2 = s \/ r2 = w \/ r2 = Close(s) \/ r2 = Close(w)
  BY <1>3, <1>6 DEF checkBackpressure
<1> QED
  BY <1>5, <1>7, <1>8, <1>9 DEF Kept, Same

\* The frames of a replay.
LEMMA SendFramesKeeps ==
    ASSUME NEW r \in Connection, NEW fs \in Seq(Frame)
    PROVE  /\ sendFrames(r, fs) \in Connection /\ Same(r, sendFrames(r, fs))
           /\ sendFrames(r, fs).phase = r.phase /\ sendFrames(r, fs).sock = r.sock
           /\ sendFrames(r, fs).sent = IF r.sock = "open" THEN r.sent \o fs ELSE r.sent
<1>1. CASE r.sock # "open"
  BY <1>1 DEF sendFrames, Same
<1>2. CASE r.sock = "open"
  <2>1. PICK d : d = IF ~r.full THEN r.depth
                     ELSE IF r.depth + Len(fs) < HardLimit THEN r.depth + Len(fs)
                     ELSE HardLimit
    OBVIOUS
  <2>2. d \in 0..HardLimit
    BY <2>1, SizesAssumption DEF Connection
  <2>3. r.sent \o fs \in Seq(Frame)
    BY DEF Connection
  <2>4. sendFrames(r, fs) = [r EXCEPT !.sent = r.sent \o fs, !.depth = d]
    BY <1>2, <2>1 DEF sendFrames, Connection
  <2> QED
    BY <1>2, <2>2, <2>3, <2>4 DEF Connection, Same
<1> QED
  BY <1>1, <1>2

\* A sequenced frame f went out on a connection.
SentOn(r, r2, f) ==
    /\ Same(r, r2) /\ r2.phase = r.phase
    /\ r2.sent = IF r.sock = "open" THEN Append(r.sent, f) ELSE r.sent

FrameFor(f, r, ev) ==
    /\ f \in Frame /\ f.cred = r.cred /\ f.era = r.era /\ f.ev = ev /\ f.live
    /\ f.under = r.snap.cred /\ f.version = r.snap.version

\* Connections and replay states together, as sendSequenced works on them.
Typed(st) ==
    /\ st.conn \in [Conns -> Connection]
    /\ \A c \in Conns : ConnectionOK(st.conn[c])
    /\ DOMAIN st.replay = Stream
    /\ \A s \in Stream : ReplayOK(st.replay[s])

\* What sendSequenced to the connections in "to" makes of st.
Sending(st, st2, to, ev) ==
    /\ Typed(st2)
    /\ \A s \in Stream : st.replay[s].next <= st2.replay[s].next
    /\ \A c \in Conns \ to : st2.conn[c] = st.conn[c]
    /\ \A c \in to : \E f : /\ FrameFor(f, st.conn[c], ev)
                            /\ SentOn(st.conn[c], st2.conn[c], f)
                            /\ st.replay[StreamOf(f)].next <= f.seq
                            /\ f.seq < st2.replay[StreamOf(f)].next

\* The end of a sequence.
LEMMA SuffixIs ==
    ASSUME NEW S, NEW q \in Seq(S), NEW n \in Nat, Len(q) = n, NEW a \in 1..n + 1
    PROVE  /\ SubSeq(q, a, n) \in Seq(S)
           /\ Len(SubSeq(q, a, n)) = n - a + 1
           /\ \A i \in 1..n - a + 1 : SubSeq(q, a, n)[i] = q[a + i - 1]
<1>1. \A i \in a..n : q[i] \in S
  BY ElementOfSeq
<1>2. a \in Int /\ n \in Int
  OBVIOUS
<1>3. /\ SubSeq(q, a, n) \in Seq(S)
      /\ Len(SubSeq(q, a, n)) = IF a <= n THEN n - a + 1 ELSE 0
      /\ \A i \in 1..n - a + 1 : SubSeq(q, a, n)[i] = q[a + i - 1]
  BY <1>1, <1>2, SubSeqProperties
<1>4. ~(a <= n) => n - a + 1 = 0
  OBVIOUS
<1> QED
  BY <1>3, <1>4

\* The n numbers after x.
Run(q, n, x) == q \in Seq(Nat) /\ Len(q) = n /\ \A i \in 1..n : q[i] = x + i

\* Consecutive numbers follow on consecutive numbers.
LEMMA RunsJoin ==
    ASSUME NEW x \in Int, NEW n \in Nat, NEW m \in Nat, NEW p, NEW q,
           Run(p, n, x), Run(q, m, x + n)
    PROVE  Run(p \o q, n + m, x)
<1>1. /\ p \in Seq(Nat) /\ Len(p) = n /\ \A i \in 1..n : p[i] = x + i
      /\ q \in Seq(Nat) /\ Len(q) = m /\ \A i \in 1..m : q[i] = x + n + i
  BY DEF Run
<1>2. /\ p \o q \in Seq(Nat) /\ Len(p \o q) = Len(p) + Len(q)
      /\ \A i \in 1..Len(p) + Len(q) :
           (p \o q)[i] = IF i <= Len(p) THEN p[i] ELSE q[i - Len(p)]
  BY <1>1, ConcatProperties
<1>3. /\ p \o q \in Seq(Nat) /\ Len(p \o q) = n + m
      /\ \A i \in 1..n + m : (p \o q)[i] = IF i <= n THEN p[i] ELSE q[i - n]
  BY <1>1, <1>2
<1>4. ASSUME NEW i \in 1..n + m
      PROVE  (p \o q)[i] = x + i
  <2>1. CASE i <= n
    BY <1>1, <1>3, <2>1
  <2>2. CASE ~(i <= n)
    <3>1. i - n \in 1..m
      BY <2>2
    <3>2. (p \o q)[i] = q[i - n] /\ q[i - n] = x + n + (i - n)
      BY <1>1, <1>3, <2>2, <3>1
    <3> QED
      BY <3>2
  <2> QED
    BY <2>1, <2>2
<1> QED
  BY <1>3, <1>4 DEF Run

\* The end of consecutive numbers.
LEMMA RunEnds ==
    ASSUME NEW x \in Int, NEW n \in Nat, NEW q, Run(q, n, x), NEW a \in 1..n + 1
    PROVE  Run(SubSeq(q, a, n), n - a + 1, x + a - 1)
<1>1. q \in Seq(Nat) /\ Len(q) = n /\ \A i \in 1..n : q[i] = x + i
  BY DEF Run
<1>2. /\ SubSeq(q, a, n) \in Seq(Nat) /\ Len(SubSeq(q, a, n)) = n - a + 1
      /\ \A i \in 1..n - a + 1 : SubSeq(q, a, n)[i] = q[a + i - 1]
  <2>1. q \in Seq(Nat) /\ n \in Nat /\ Len(q) = n /\ a \in 1..n + 1
    BY <1>1
  <2> HIDE <1>1
  <2> QED
    BY <2>1, SuffixIs, ZenonT(60)
<1>3. \A i \in 1..n - a + 1 : a + i - 1 \in 1..n /\ x + (a + i - 1) = x + a - 1 + i
  OBVIOUS
<1> QED
  BY <1>1, <1>2, <1>3 DEF Run

\* The last of consecutive numbers are what a buffer keeps.
LEMMA LatestIs ==
    ASSUME NEW x \in Int, NEW n \in Nat, NEW q, Run(q, n, x)
    PROVE  \E m \in Nat : /\ Run(Latest(q), m, x + n - m)
                          /\ m <= BufferSize /\ m <= n
                          /\ m = BufferSize \/ m = n
<1>0. /\ BufferSize \in Nat \ {0}
      /\ q \in Seq(Nat) /\ Len(q) = n /\ \A i \in 1..n : q[i] = x + i
  BY SizesAssumption DEF Run
<1>1. CASE n > BufferSize
  <2>1. PICK a \in 1..n + 1 : a = n - BufferSize + 1
    BY <1>0, <1>1
  <2>2. Latest(q) = SubSeq(q, a, n)
    BY <1>0, <1>1, <2>1 DEF Latest
  <2>3. /\ SubSeq(q, a, n) \in Seq(Nat) /\ Len(SubSeq(q, a, n)) = n - a + 1
        /\ \A i \in 1..n - a + 1 : SubSeq(q, a, n)[i] = q[a + i - 1]
    BY <1>0, SuffixIs
  <2>4. n - a + 1 = BufferSize
    BY <1>0, <2>1
  <2>5. ASSUME NEW i \in 1..BufferSize
        PROVE  SubSeq(q, a, n)[i] = x + n - BufferSize + i
    <3>1. a + i - 1 \in 1..n
      BY <1>0, <1>1, <2>1, <2>5
    <3>2. i \in 1..n - a + 1
      BY <2>4, <2>5
    <3>3. SubSeq(q, a, n)[i] = q[a + i - 1]
      BY <2>3, <3>2
    <3>4. q[a + i - 1] = x + (a + i - 1)
      BY <1>0, <3>1
    <3> QED
      BY <1>0, <2>1, <2>5, <3>3, <3>4
  <2>6. Len(SubSeq(q, a, n)) = BufferSize
    BY <2>3, <2>4
  <2>7. BufferSize \in Nat /\ BufferSize <= BufferSize /\ BufferSize <= n
    BY <1>0, <1>1
  <2>8. Run(Latest(q), BufferSize, x + n - BufferSize)
    BY <2>2, <2>3, <2>5, <2>6 DEF Run
  <2> QED
    BY <2>7, <2>8
<1>2. CASE ~(n > BufferSize)
  <2>1. Latest(q) = q
    BY <1>0, <1>2 DEF Latest
  <2>2. n <= BufferSize /\ n <= n /\ x + n - n = x
    BY <1>0, <1>2
  <2> QED
    BY <2>1, <2>2
<1> QED
  BY <1>1, <1>2

\* A replay state is well formed when its buffer ends in the last number taken.
LEMMA ReplayIs ==
    ASSUME NEW state
    PROVE  ReplayOK(state) <=>
             /\ state = [next |-> state.next, buffer |-> state.buffer]
             /\ state.next \in Nat \ {0}
             /\ \E m \in Nat : /\ Run(state.buffer, m, state.next - 1 - m)
                               /\ m <= BufferSize
                               /\ m = BufferSize \/ m = state.next - 1
<1>1. ASSUME ReplayOK(state)
      PROVE  /\ state = [next |-> state.next, buffer |-> state.buffer]
             /\ state.next \in Nat \ {0}
             /\ \E m \in Nat : /\ Run(state.buffer, m, state.next - 1 - m)
                               /\ m <= BufferSize
                               /\ m = BufferSize \/ m = state.next - 1
  <2>1. /\ state = [next |-> state.next, buffer |-> state.buffer]
        /\ state.next \in Nat \ {0} /\ state.buffer \in Seq(Nat)
    BY <1>1 DEF ReplayOK
  <2>2. PICK m \in Nat : m = Len(state.buffer) /\ DOMAIN state.buffer = 1..m
    BY <2>1, LenProperties
  <2>3. Run(state.buffer, m, state.next - 1 - m)
    BY <1>1, <2>1, <2>2 DEF ReplayOK, Run
  <2> QED
    BY <1>1, <2>1, <2>2, <2>3 DEF ReplayOK
<1>2. ASSUME /\ state = [next |-> state.next, buffer |-> state.buffer]
             /\ state.next \in Nat \ {0},
             NEW m \in Nat, /\ Run(state.buffer, m, state.next - 1 - m)
                            /\ m <= BufferSize
                            /\ m = BufferSize \/ m = state.next - 1
      PROVE  ReplayOK(state)
  <2>1. /\ state.buffer \in Seq(Nat) /\ Len(state.buffer) = m
        /\ \A i \in 1..m : state.buffer[i] = state.next - 1 - m + i
    BY <1>2 DEF Run
  <2>2. DOMAIN state.buffer = 1..m
    BY <2>1, LenProperties
  <2>3. state \in [next : Nat \ {0}, buffer : Seq(Nat)]
    BY <1>2, <2>1
  <2> QED
    BY <1>2, <2>1, <2>2, <2>3 DEF ReplayOK
<1> QED
  BY <1>1, <1>2

\* Numbering frames keeps a replay state what it should be.
LEMMA NumberedIsOK ==
    ASSUME NEW state, ReplayOK(state), NEW n \in Nat
    PROVE  ReplayOK(Numbered(state, n)) /\ Numbered(state, n).next = state.next + n
<1>1. PICK s \in Nat \ {0} : s = state.next
  BY ReplayIs
<1>2. PICK l \in Nat : /\ Run(state.buffer, l, s - 1 - l)
                       /\ l <= BufferSize
                       /\ l = BufferSize \/ l = s - 1
  BY <1>1, ReplayIs
<1>3. PICK x \in Int : x = s - 1 - l /\ x + l = s - 1
  OBVIOUS
<1>4. PICK more : more = [i \in 1..n |-> s + i - 1]
  OBVIOUS
<1>5. Run(more, n, x + l)
  <2>1. \A i \in 1..n : s + i - 1 \in Nat /\ s + i - 1 = x + l + i
    BY <1>3
  <2>2. more \in Seq(Nat) /\ Len(more) = n /\ \A i \in 1..n : more[i] = s + i - 1
    BY <1>4, <2>1
  <2> QED
    BY <2>1, <2>2 DEF Run
<1>6. PICK q : q = state.buffer \o more
  OBVIOUS
<1>7. PICK t \in Nat : t = l + n
  OBVIOUS
<1>8. Run(q, t, x)
  BY <1>2, <1>3, <1>5, <1>6, <1>7, RunsJoin
<1>9. PICK m \in Nat : /\ Run(Latest(q), m, x + t - m)
                       /\ m <= BufferSize /\ m <= t
                       /\ m = BufferSize \/ m = t
  BY <1>8, LatestIs
<1>10. PICK z : z = Numbered(state, n)
  OBVIOUS
<1>11. z = [next |-> s + n, buffer |-> Latest(q)]
  BY <1>1, <1>4, <1>6, <1>10 DEF Numbered
<1>12. m = BufferSize \/ m = s + n - 1
  BY <1>2, <1>7, <1>9, SizesAssumption
<1>13. x + t - m = s + n - 1 - m
  BY <1>3, <1>7
<1>14. z.next = s + n /\ z.buffer = Latest(q) /\ s + n \in Nat \ {0}
  BY <1>11
<1>15. Run(z.buffer, m, z.next - 1 - m) /\ m <= BufferSize
       /\ (m = BufferSize \/ m = z.next - 1)
  BY <1>9, <1>12, <1>13, <1>14
<1>16. ReplayOK(z)
  BY <1>11, <1>14, <1>15, ReplayIs
<1> QED
  BY <1>1, <1>10, <1>14, <1>16

\* A connection that took a frame is still one.
LEMMA SameIsOK ==
    ASSUME NEW r, NEW r2, ConnectionOK(r), r2 \in Connection, Same(r, r2)
    PROVE  ConnectionOK(r2)
BY DEF ConnectionOK, Same

\* sendSequenced.
LEMMA SendSequencedSends ==
    ASSUME NEW st, NEW to, NEW ev \in Nat, Typed(st), to \subseteq Conns,
           \A c \in to : st.conn[c].cred # None
    PROVE  Sending(st, sendSequenced(st, to, ev), to, ev)
<1> DEFINE stream(c) == StreamOf(st.conn[c])
           earlier(c) == {d \in to : d # c /\ stream(d) = stream(c) /\ Ahead(d, c)}
           mine(s) == {c \in to : stream(c) = s}
           frame(c) ==
             [cred |-> st.conn[c].cred, era |-> st.conn[c].era,
              seq |-> st.replay[stream(c)].next + Cardinality(earlier(c)), ev |-> ev,
              under |-> st.conn[c].snap.cred, version |-> st.conn[c].snap.version,
              live |-> TRUE]
           cs == [c \in Conns |->
                    IF c \in to THEN checkBackpressure(sendFrame(st.conn[c], frame(c)))
                    ELSE st.conn[c]]
           rs == [s \in Stream |-> Numbered(st.replay[s], Cardinality(mine(s)))]
<1>1. sendSequenced(st, to, ev) = [conn |-> cs, replay |-> rs]
  BY DEF sendSequenced
<1>2. IsFiniteSet(to)
  BY SizesAssumption, FS_Subset
<1>3. \A s \in Stream : Cardinality(mine(s)) \in Nat
  <2>1. ASSUME NEW s \in Stream
        PROVE  Cardinality(mine(s)) \in Nat
    <3>1. mine(s) \subseteq to
      OBVIOUS
    <3> QED
      BY <1>2, <3>1, FS_Subset, FS_CardinalityType
  <2> QED
    BY <2>1
<1>4. ASSUME NEW c \in to
      PROVE  /\ stream(c) \in Stream
             /\ Cardinality(earlier(c)) \in Nat
             /\ Cardinality(earlier(c)) < Cardinality(mine(stream(c)))
  <2>1. stream(c) \in Stream
    BY <1>4 DEF Typed, ConnectionOK, Connection, StreamOf, Stream
  <2>2. mine(stream(c)) \subseteq to /\ earlier(c) \subseteq mine(stream(c)) \ {c}
        /\ c \in mine(stream(c))
    OBVIOUS
  <2>3. IsFiniteSet(mine(stream(c)))
    BY <1>2, <2>2, FS_Subset
  <2>4. IsFiniteSet(mine(stream(c)) \ {c})
        /\ Cardinality(mine(stream(c)) \ {c}) = Cardinality(mine(stream(c))) - 1
    BY <2>2, <2>3, FS_RemoveElement
  <2>5. IsFiniteSet(earlier(c)) /\ Cardinality(earlier(c)) <= Cardinality(mine(stream(c)) \ {c})
    BY <2>2, <2>4, FS_Subset
  <2>6. Cardinality(earlier(c)) \in Nat /\ Cardinality(mine(stream(c))) \in Nat
    BY <2>3, <2>5, FS_CardinalityType
  <2> HIDE DEF mine, earlier, stream
  <2> QED
    BY <2>1, <2>4, <2>5, <2>6
<1>5. ASSUME NEW c \in to
      PROVE  /\ FrameFor(frame(c), st.conn[c], ev) /\ StreamOf(frame(c)) = stream(c)
             /\ st.replay[stream(c)].next <= frame(c).seq
             /\ frame(c).seq < st.replay[stream(c)].next + Cardinality(mine(stream(c)))
  <2>1. /\ ConnectionOK(st.conn[c]) /\ st.conn[c].cred # None
        /\ st.conn[c].snap \in Snapshot
    BY <1>5 DEF Typed, ConnectionOK, Connection
  <2>2. st.replay[stream(c)].next \in Nat
    BY <1>4, <1>5 DEF Typed, ReplayOK
  <2>3. PICK n \in Nat : n = st.replay[stream(c)].next + Cardinality(earlier(c))
    <3> HIDE DEF earlier, stream
    <3>1. Cardinality(earlier(c)) \in Nat
      BY <1>4, <1>5
    <3> QED
      BY <2>2, <3>1
  <2>4. frame(c).seq = n /\ st.replay[stream(c)].next <= n
        /\ n < st.replay[stream(c)].next + Cardinality(mine(stream(c)))
    <3> HIDE DEF mine, earlier, stream
    <3>1. Cardinality(mine(stream(c))) \in Nat
      BY <1>3, <1>4, <1>5
    <3> QED
      BY <1>4, <1>5, <2>2, <2>3, <3>1
  <2>5. PICK f : f = frame(c)
    OBVIOUS
  <2>6. /\ f.cred = st.conn[c].cred /\ f.era = st.conn[c].era /\ f.seq = n /\ f.ev = ev
        /\ f.under = st.conn[c].snap.cred /\ f.version = st.conn[c].snap.version
        /\ f.live = TRUE
        /\ f = [cred |-> st.conn[c].cred, era |-> st.conn[c].era, seq |-> n, ev |-> ev,
                 under |-> st.conn[c].snap.cred, version |-> st.conn[c].snap.version,
                 live |-> TRUE]
    BY <2>3, <2>5
  <2>7. /\ st.conn[c].cred \in Credentials /\ st.conn[c].era \in Eras
        /\ st.conn[c].snap.cred \in Credentials /\ st.conn[c].snap.version \in Nat
    BY <2>1, SizesAssumption, SMTT(60) DEF ConnectionOK, Connection, Snapshot
  <2>8. FrameFor(f, st.conn[c], ev) /\ StreamOf(f) = stream(c)
    BY <2>6, <2>7 DEF FrameFor, Frame, StreamOf
  <2> QED
    BY <2>4, <2>5, <2>8
<1>6. ASSUME NEW c \in to
      PROVE  /\ cs[c] \in Connection /\ ConnectionOK(cs[c])
             /\ SentOn(st.conn[c], cs[c], frame(c))
  <2>1. cs[c] = checkBackpressure(sendFrame(st.conn[c], frame(c)))
    BY <1>6
  <2>2. frame(c) \in Frame /\ st.conn[c] \in Connection /\ ConnectionOK(st.conn[c])
    BY <1>5, <1>6 DEF FrameFor, Typed
  <2> HIDE DEF cs, frame
  <2> QED
    BY <2>1, <2>2, SendFrameKeeps, SameIsOK DEF SentOn
<1>7. /\ cs \in [Conns -> Connection] /\ \A c \in Conns : ConnectionOK(cs[c])
      /\ \A c \in Conns \ to : cs[c] = st.conn[c]
  <2>1. ASSUME NEW c \in Conns
        PROVE  cs[c] \in Connection /\ ConnectionOK(cs[c])
    BY <1>6, <2>1 DEF Typed
  <2> QED
    BY <2>1
<1>8. ASSUME NEW s \in Stream
      PROVE  /\ ReplayOK(rs[s]) /\ st.replay[s].next <= rs[s].next
             /\ rs[s].next = st.replay[s].next + Cardinality(mine(s))
  <2>1. ReplayOK(st.replay[s]) /\ st.replay[s].next \in Nat
    BY DEF Typed, ReplayOK
  <2>2. rs[s] = Numbered(st.replay[s], Cardinality(mine(s)))
    OBVIOUS
  <2> HIDE DEF rs, mine
  <2> QED
    BY <1>3, <2>1, <2>2, NumberedIsOK
<1>9. ASSUME NEW c \in to
      PROVE  \E f : /\ FrameFor(f, st.conn[c], ev)
                    /\ SentOn(st.conn[c], cs[c], f)
                    /\ st.replay[StreamOf(f)].next <= f.seq
                    /\ f.seq < rs[StreamOf(f)].next
  <2> HIDE DEF cs, rs, frame, mine
  <2>1. stream(c) \in Stream
    BY <1>4, <1>9
  <2> QED
    BY <1>5, <1>6, <1>8, <1>9, <2>1
<1>10. DOMAIN rs = Stream
  OBVIOUS
<1>11. PICK st2 : st2 = sendSequenced(st, to, ev)
  OBVIOUS
<1>12. st2.conn = cs /\ st2.replay = rs
  BY <1>1, <1>11
<1> HIDE DEF cs, rs, mine, stream
<1>13. Typed(st2)
  BY <1>7, <1>8, <1>10, <1>12 DEF Typed
<1>14. Sending(st, st2, to, ev)
  BY <1>7, <1>8, <1>9, <1>12, <1>13 DEF Sending
<1> QED
  BY <1>11, <1>14

(***************************************************************************)
(* The type invariant, in parts that name the state they speak of.         *)
(***************************************************************************)
ConnsOK(cn) == cn \in [Conns -> Connection] /\ \A c \in Conns : ConnectionOK(cn[c])

ReplaysOK(rp) == DOMAIN rp = Stream /\ \A s \in Stream : ReplayOK(rp[s])

Valid(l, cn, g) ==
    /\ l \in Lookup
    /\ l.snap.cred = l.cred
    /\ l.kind # "invalidate" => l.conn \in Conns /\ cn[l.conn].sock # "unused"
    /\ l.kind = "auth" => l.arg \in Nat \union {None}
    /\ l.kind \in {"request", "resync"} => l.arg \in Ids
    /\ l.kind \in {"beat", "request", "resync"} => cn[l.conn].cred # None
    /\ l.kind = "invalidate" => l.arg \in 1..g

LookupsOK(lk, cn, g) ==
    lk \in Seq(Lookup) /\ \A i \in DOMAIN lk : Valid(lk[i], cn, g)

GreetsOK(gs, cn) == gs \subseteq Greeting /\ \A g \in gs : cn[g.conn].cred # None

RoutesOK(rs, cn) ==
    /\ rs \subseteq [conn : Conns, cred : Credentials, id : Ids]
    /\ \A q \in rs : cn[q.conn].cred # None

ServerOK(sv) == sv \in {"idle", "listening", "draining", "flushing", "stopped"}

PolicyOK(p) == p \in [Credentials -> Snapshot] /\ \A k \in Credentials : p[k].cred = k

PendingOK(p) ==
    p \in [Credentials -> [refcount : Nat, generation : Nat, events : Seq(Nat)]]

\* TypeOK is the conjunction of its parts.
LEMMA TypeIs ==
    TypeOK <=>
      /\ ServerOK(server) /\ ConnsOK(conn)
      /\ registry \in Seq(Conns \union {None})
      /\ ReplaysOK(replay) /\ PolicyOK(policy) /\ LookupsOK(lookups, conn, gen)
      /\ GreetsOK(greets, conn) /\ RoutesOK(routes, conn) /\ PendingOK(pending)
      /\ gen \in Nat /\ remaining \subseteq Conns /\ at \in Seq(Nat)
BY DEF TypeOK, ConnsOK, ReplaysOK, LookupOK, Valid, LookupsOK, GreetsOK, RoutesOK,
       ServerOK, PolicyOK, PendingOK

\* The same of the next state.
LEMMA TypeIsNext ==
    TypeOK' <=>
      /\ ServerOK(server') /\ ConnsOK(conn')
      /\ registry' \in Seq(Conns \union {None})
      /\ ReplaysOK(replay') /\ PolicyOK(policy') /\ LookupsOK(lookups', conn', gen')
      /\ GreetsOK(greets', conn') /\ RoutesOK(routes', conn') /\ PendingOK(pending')
      /\ gen' \in Nat /\ remaining' \subseteq Conns /\ at' \in Seq(Nat)
BY DEF TypeOK, ConnsOK, ReplaysOK, LookupOK, Valid, LookupsOK, GreetsOK, RoutesOK,
       ServerOK, PolicyOK, PendingOK

\* What no step takes back: a socket is opened once, and a connection that has a
\* credential keeps having one.
Forth(r, r2) == (r.sock # "unused" => r2.sock # "unused")
                /\ (r.cred # None => r2.cred # None)

\* What is in flight stays valid while the connections go forth.
LEMMA InFlightStays ==
    ASSUME NEW cn, NEW cn2, \A c \in Conns : Forth(cn[c], cn2[c]),
           NEW g \in Nat, NEW g2 \in Nat, g <= g2
    PROVE  /\ \A l : Valid(l, cn, g) => Valid(l, cn2, g2)
           /\ \A lk : LookupsOK(lk, cn, g) => LookupsOK(lk, cn2, g2)
           /\ \A gs : GreetsOK(gs, cn) => GreetsOK(gs, cn2)
           /\ \A rs : RoutesOK(rs, cn) => RoutesOK(rs, cn2)
<1>1. ASSUME NEW l, Valid(l, cn, g)
      PROVE  Valid(l, cn2, g2)
  <2>1. l.kind # "invalidate" => l.conn \in Conns /\ Forth(cn[l.conn], cn2[l.conn])
    BY <1>1 DEF Valid
  <2>2. l.kind = "invalidate" => l.arg \in 1..g2
    BY <1>1 DEF Valid
  <2> QED
    BY <1>1, <2>1, <2>2 DEF Valid, Forth
<1>2. ASSUME NEW lk, LookupsOK(lk, cn, g)
      PROVE  LookupsOK(lk, cn2, g2)
  BY <1>1, <1>2 DEF LookupsOK
<1>3. ASSUME NEW gs, GreetsOK(gs, cn)
      PROVE  GreetsOK(gs, cn2)
  BY <1>3 DEF GreetsOK, Greeting, Forth
<1>4. ASSUME NEW rs, RoutesOK(rs, cn)
      PROVE  RoutesOK(rs, cn2)
  BY <1>4 DEF RoutesOK, Forth
<1> QED
  BY <1>1, <1>2, <1>3, <1>4

\* One more lookup in flight.
LEMMA LookupStarts ==
    ASSUME NEW cn, NEW g, NEW lk, LookupsOK(lk, cn, g), NEW l, Valid(l, cn, g)
    PROVE  /\ LookupsOK(Append(lk, l), cn, g)
           /\ Len(Append(lk, l)) = Len(lk) + 1 /\ Len(lk) \in Nat
           /\ \A i \in DOMAIN lk : i \in DOMAIN Append(lk, l) /\ Append(lk, l)[i] = lk[i]
           /\ Append(lk, l)[Len(lk) + 1] = l
           /\ DOMAIN Append(lk, l) = DOMAIN lk \union {Len(lk) + 1}
           /\ Len(lk) + 1 \notin DOMAIN lk
<1>1. lk \in Seq(Lookup) /\ l \in Lookup
  BY DEF LookupsOK, Valid
<1>2. /\ Append(lk, l) \in Seq(Lookup) /\ Len(Append(lk, l)) = Len(lk) + 1
      /\ \A i \in 1..Len(lk) : Append(lk, l)[i] = lk[i]
      /\ Append(lk, l)[Len(lk) + 1] = l
  BY <1>1, AppendProperties
<1>3. /\ Len(lk) \in Nat /\ DOMAIN lk = 1..Len(lk)
      /\ DOMAIN Append(lk, l) = 1..(Len(lk) + 1)
  BY <1>1, <1>2, LenProperties
<1>4. 1..(Len(lk) + 1) = (1..Len(lk)) \union {Len(lk) + 1} /\ Len(lk) + 1 \notin 1..Len(lk)
  BY <1>3
<1>5. \A i \in DOMAIN Append(lk, l) : Valid(Append(lk, l)[i], cn, g)
  BY <1>2, <1>3, <1>4 DEF LookupsOK
<1> QED
  BY <1>2, <1>3, <1>4, <1>5 DEF LookupsOK

\* The place an element of RemoveAt(lk, i) had in lk.
Former(i, j) == IF j < i THEN j ELSE j + 1

\* One lookup less in flight.
LEMMA LookupReturns ==
    ASSUME NEW cn, NEW g, NEW lk, LookupsOK(lk, cn, g), NEW i \in DOMAIN lk
    PROVE  /\ LookupsOK(RemoveAt(lk, i), cn, g)
           /\ Len(RemoveAt(lk, i)) = Len(lk) - 1 /\ Len(lk) \in Nat /\ i \in 1..Len(lk)
           /\ DOMAIN RemoveAt(lk, i) = 1..(Len(lk) - 1)
           /\ \A j \in DOMAIN RemoveAt(lk, i) :
                /\ Former(i, j) \in DOMAIN lk \ {i}
                /\ RemoveAt(lk, i)[j] = lk[Former(i, j)]
<1>1. PICK n \in Nat : lk \in Seq(Lookup) /\ n = Len(lk) /\ DOMAIN lk = 1..n /\ i \in 1..n
  BY LenProperties DEF LookupsOK
<1>2. PICK a : a = SubSeq(lk, 1, i - 1)
  OBVIOUS
<1>3. PICK b : b = SubSeq(lk, i + 1, n)
  OBVIOUS
<1>4. \A j \in 1..n : lk[j] \in Lookup
  BY <1>1, ElementOfSeq
<1>5. /\ a \in Seq(Lookup) /\ Len(a) = i - 1 /\ \A j \in 1..i - 1 : a[j] = lk[j]
  <2>1. 1 \in Int /\ i - 1 \in Int /\ \A j \in 1..i - 1 : lk[j] \in Lookup
    BY <1>1, <1>4
  <2>2. /\ SubSeq(lk, 1, i - 1) \in Seq(Lookup)
        /\ Len(SubSeq(lk, 1, i - 1)) = IF 1 <= i - 1 THEN i - 1 - 1 + 1 ELSE 0
        /\ \A j \in 1..i - 1 - 1 + 1 : SubSeq(lk, 1, i - 1)[j] = lk[1 + j - 1]
    BY <1>1, <2>1, SubSeqProperties
  <2>3. /\ (IF 1 <= i - 1 THEN i - 1 - 1 + 1 ELSE 0) = i - 1
        /\ i - 1 - 1 + 1 = i - 1 /\ \A j \in 1..i - 1 : 1 + j - 1 = j
    BY <1>1
  <2> QED
    BY <1>2, <2>2, <2>3
<1>6. /\ b \in Seq(Lookup) /\ Len(b) = n - i /\ \A j \in 1..n - i : b[j] = lk[i + j]
  <2>1. i + 1 \in 1..n + 1
    BY <1>1
  <2>2. /\ SubSeq(lk, i + 1, n) \in Seq(Lookup)
        /\ Len(SubSeq(lk, i + 1, n)) = n - (i + 1) + 1
        /\ \A j \in 1..n - (i + 1) + 1 : SubSeq(lk, i + 1, n)[j] = lk[(i + 1) + j - 1]
    BY <1>1, <2>1, SuffixIs
  <2>3. n - (i + 1) + 1 = n - i /\ \A j \in 1..n - i : (i + 1) + j - 1 = i + j
    BY <1>1
  <2> QED
    BY <1>3, <2>2, <2>3
<1>7. RemoveAt(lk, i) = a \o b
  BY <1>1, <1>2, <1>3 DEF RemoveAt
<1>8. /\ a \o b \in Seq(Lookup) /\ Len(a \o b) = Len(a) + Len(b)
      /\ \A j \in 1..Len(a) + Len(b) :
           (a \o b)[j] = IF j <= Len(a) THEN a[j] ELSE b[j - Len(a)]
  BY <1>5, <1>6, ConcatProperties
<1>9. PICK r : r = a \o b
  OBVIOUS
<1>10. /\ r \in Seq(Lookup) /\ Len(r) = n - 1 /\ DOMAIN r = 1..(n - 1)
       /\ \A j \in 1..n - 1 : r[j] = IF j <= i - 1 THEN a[j] ELSE b[j - (i - 1)]
  <2>1. Len(a) + Len(b) = n - 1
    <3>1. (i - 1) + (n - i) = n - 1
      BY <1>1
    <3>2. Len(a) + Len(b) = (i - 1) + (n - i)
      BY <1>5, <1>6
    <3> QED
      BY <3>1, <3>2
  <2>2. r \in Seq(Lookup) /\ Len(r) = n - 1
    BY <1>8, <1>9, <2>1
  <2> QED
    BY <1>5, <1>8, <1>9, <2>1, <2>2, LenProperties
<1>11. ASSUME NEW j \in 1..n - 1
       PROVE  Former(i, j) \in (1..n) \ {i} /\ r[j] = lk[Former(i, j)]
  <2>1. CASE j < i
    BY <1>1, <1>5, <1>10, <2>1 DEF Former
  <2>2. CASE ~(j < i)
    <3>1. j - (i - 1) \in 1..n - i /\ i + (j - (i - 1)) = j + 1
      BY <1>1, <2>2
    <3>2. r[j] = b[j - (i - 1)]
      <4>1. ~(j <= i - 1)
        BY <1>1, <2>2
      <4> QED
        BY <1>10, <4>1
    <3> QED
      BY <1>1, <1>6, <2>2, <3>1, <3>2 DEF Former
  <2> QED
    BY <2>1, <2>2
<1>12. LookupsOK(r, cn, g)
  BY <1>1, <1>10, <1>11 DEF LookupsOK
<1> QED
  BY <1>1, <1>7, <1>9, <1>10, <1>11, <1>12

(***************************************************************************)
(* Steps that only keep connections: nothing is sent on them and nothing   *)
(* in flight changes.                                                      *)
(***************************************************************************)
AllKept == conn' \in [Conns -> Connection] /\ \A c \in Conns : Kept(conn[c], conn'[c])

\* A connection that stays up stays registered.
UpStaysIn ==
    \A c \in Conns : conn'[c].phase = "active" /\ c \in Registered => c \in Registered'

Quiet ==
    /\ AllKept /\ UpStaysIn
    /\ registry' \in Seq(Conns \union {None})
    /\ ServerOK(server') /\ remaining' \subseteq Conns
    /\ UNCHANGED <<replay, policy, lookups, greets, routes, pending, gen, at>>

\* A step that keeps one connection.
LEMMA OneKept ==
    ASSUME TypeOK, NEW c \in Conns, NEW r2 \in Connection, Kept(conn[c], r2),
           conn' = [conn EXCEPT ![c] = r2]
    PROVE  AllKept
<1>1. conn \in [Conns -> Connection]
  BY DEF TypeOK
<1>2. ASSUME NEW d \in Conns
      PROVE  conn'[d] \in Connection /\ Kept(conn[d], conn'[d])
  BY <1>1 DEF Kept, Same
<1> QED
  BY <1>1, <1>2 DEF AllKept

\* The registry with some sockets taken out.
LEMMA UnregisteredIs ==
    ASSUME NEW cs, registry \in Seq(Conns \union {None})
    PROVE  /\ Unregistered(cs) \in Seq(Conns \union {None})
           /\ DOMAIN Unregistered(cs) = DOMAIN registry
           /\ \A i \in DOMAIN registry :
                Unregistered(cs)[i] = IF registry[i] \in cs THEN None ELSE registry[i]
           /\ registry' = Unregistered(cs) => Registered \ cs \subseteq Registered'
<1>1. /\ Len(registry) \in Nat /\ DOMAIN registry = 1..Len(registry)
      /\ \A i \in 1..Len(registry) : registry[i] \in Conns \union {None}
  BY LenProperties, ElementOfSeq
<1>2. PICK n \in Nat : DOMAIN registry = 1..n
  BY <1>1
<1>3. PICK u : u = [i \in 1..n |-> IF registry[i] \in cs THEN None ELSE registry[i]]
  OBVIOUS
<1>4. \A i \in 1..n : u[i] \in Conns \union {None}
  BY <1>1, <1>2, <1>3
<1>5. u \in Seq(Conns \union {None})
  BY <1>3, <1>4
<1>6. u = Unregistered(cs)
  BY <1>2, <1>3 DEF Unregistered
<1>7. ASSUME registry' = u, NEW c \in Registered \ cs
      PROVE  c \in Registered'
  <2>1. PICK i \in 1..n : registry[i] = c /\ c # None
    BY <1>2 DEF Registered, Range
  <2>2. u[i] = c /\ DOMAIN u = 1..n
    BY <1>3, <1>7, <2>1
  <2> QED
    BY <1>7, <2>1, <2>2 DEF Registered, Range
<1> QED
  BY <1>2, <1>3, <1>5, <1>6, <1>7

\* The actions that are quiet.
LEMMA QuietSteps ==
    ASSUME TypeOK
    PROVE  /\ Start => Quiet
           /\ \A d \in BOOLEAN : StopClose(d) => Quiet
           /\ StopFinish => Quiet
           /\ \A c \in Conns : \/ Open(c) \/ AuthTimeout(c) \/ Hangup(c)
                               \/ CloseCallback(c) \/ Fill(c) \/ Drain(c)
                               \/ HeartbeatDead(c)
                               => Quiet
<1>1. conn \in [Conns -> Connection] /\ registry \in Seq(Conns \union {None})
      /\ ServerOK(server) /\ remaining \subseteq Conns
  BY TypeIs DEF ConnsOK
<1>0. registry' = registry => UpStaysIn
  BY DEF Registered, UpStaysIn
<1>2. ASSUME Start
      PROVE  Quiet
  BY <1>0, <1>1, <1>2 DEF Start, Quiet, AllKept, Kept, Same, ServerOK
<1>3. \A i \in DOMAIN registry : registry[i] \in Conns \union {None}
  BY <1>1, LenProperties, ElementOfSeq
<1>4. Registered \subseteq Conns
  BY <1>3 DEF Registered, Range
<1>5. ASSUME NEW d \in BOOLEAN, StopClose(d)
      PROVE  Quiet
  <2>1. conn' = [c \in Conns |-> IF c \in Registered THEN Close(conn[c]) ELSE conn[c]]
    BY <1>5 DEF StopClose
  <2>2. ASSUME NEW c \in Conns
        PROVE  conn'[c] \in Connection /\ Kept(conn[c], conn'[c])
    <3>1. conn[c] \in Connection
      BY <1>1
    <3>2. Close(conn[c]) \in Connection /\ Kept(conn[c], Close(conn[c]))
      BY <3>1, CloseKeeps
    <3>3. Kept(conn[c], conn[c])
      BY DEF Kept, Same
    <3> QED
      BY <2>1, <3>1, <3>2, <3>3
  <2>3. AllKept
    BY <2>1, <2>2 DEF AllKept
  <2> QED
    BY <1>0, <1>1, <1>4, <1>5, <2>3 DEF StopClose, Quiet, ServerOK
<1>6. ASSUME StopFinish
      PROVE  Quiet
  <2>1. conn' = [c \in Conns |-> IF c \in remaining THEN cleanupConnection(conn[c])
                                 ELSE conn[c]]
    BY <1>6 DEF StopFinish
  <2>2. ASSUME NEW c \in Conns
        PROVE  /\ conn'[c] \in Connection /\ Kept(conn[c], conn'[c])
               /\ c \in remaining => conn'[c].phase # "active"
    <3>1. conn[c] \in Connection
      BY <1>1
    <3>2. /\ cleanupConnection(conn[c]) \in Connection
          /\ Kept(conn[c], cleanupConnection(conn[c]))
          /\ cleanupConnection(conn[c]).phase # "active"
      BY <3>1, CleanupKeeps
    <3>3. Kept(conn[c], conn[c])
      BY DEF Kept, Same
    <3> QED
      BY <2>1, <3>1, <3>2, <3>3
  <2>3. AllKept
    BY <2>1, <2>2 DEF AllKept
  <2>4. registry' \in Seq(Conns \union {None})
    BY <1>1, <1>6, UnregisteredIs DEF StopFinish
  <2>5. UpStaysIn
    <3>1. Registered \ remaining \subseteq Registered'
      BY <1>1, <1>6, UnregisteredIs DEF StopFinish
    <3> QED
      BY <2>2, <3>1 DEF UpStaysIn
  <2> QED
    BY <1>1, <1>6, <2>3, <2>4, <2>5 DEF StopFinish, Quiet, ServerOK
<1>7. ASSUME NEW c \in Conns,
             \/ Open(c) \/ AuthTimeout(c) \/ Hangup(c) \/ CloseCallback(c)
             \/ Fill(c) \/ Drain(c) \/ HeartbeatDead(c)
      PROVE  Quiet
  <2>1. PICK r \in Connection : r = conn[c]
    BY <1>1
  <2>2. CASE Open(c)
    <3>1. PICK r2 : /\ conn' = [conn EXCEPT ![c] = r2]
                    /\ r2 = IF server = "listening"
                            THEN [r EXCEPT !.sock = "open", !.authTimer = TRUE]
                            ELSE [r EXCEPT !.sock = "closing"]
      BY <1>1, <2>1, <2>2 DEF Open
    <3>2. r.sock = "unused"
      BY <2>1, <2>2 DEF Open
    <3>3. r2 \in Connection /\ Kept(r, r2)
      BY <3>1, <3>2 DEF Connection, Kept, Same
    <3>4. AllKept
      BY <2>1, <3>1, <3>3, OneKept
    <3> QED
      BY <1>0, <1>1, <2>2, <3>4 DEF Open, Quiet
  <2>3. CASE AuthTimeout(c)
    <3>1. PICK j : j = sendJson(r)
      OBVIOUS
    <3>2. PICK k : k = [j EXCEPT !.authTimer = FALSE]
      OBVIOUS
    <3>3. k \in Connection /\ Kept(r, k)
      <4>1. j \in Connection /\ Kept(r, j)
        BY <3>1, SendJsonKeeps
      <4>2. k \in Connection /\ Kept(j, k)
        BY <3>2, <4>1 DEF Connection, Kept, Same
      <4> QED
        BY <4>1, <4>2, KeptTransitive
    <3>4. Close(k) \in Connection /\ Kept(r, Close(k))
      BY <3>3, CloseKeeps, KeptTransitive
    <3>5. PICK m : m = [r EXCEPT !.authTimer = FALSE]
      OBVIOUS
    <3>6. m \in Connection /\ Kept(r, m)
      BY <3>5 DEF Connection, Kept, Same
    <3>7. PICK r2 : /\ conn' = [conn EXCEPT ![c] = r2]
                    /\ r2 = IF r.phase = "authenticating" THEN Close(k) ELSE m
      BY <1>1, <2>1, <2>3, <3>1, <3>2, <3>5 DEF AuthTimeout
    <3>8. r2 \in Connection /\ Kept(r, r2)
      BY <3>4, <3>6, <3>7
    <3>9. AllKept
      BY <2>1, <3>7, <3>8, OneKept
    <3> QED
      BY <1>0, <1>1, <2>3, <3>9 DEF AuthTimeout, Quiet
  <2>4. CASE Hangup(c)
    <3>1. conn' = [conn EXCEPT ![c] = Close(r)]
      BY <1>1, <2>1, <2>4 DEF Hangup
    <3>2. AllKept
      BY <2>1, <3>1, CloseKeeps, OneKept
    <3> QED
      BY <1>0, <1>1, <2>4, <3>2 DEF Hangup, Quiet
  <2>5. CASE HeartbeatDead(c)
    <3>1. conn' = [conn EXCEPT ![c] = Close(r)]
      BY <1>1, <2>1, <2>5 DEF HeartbeatDead
    <3>2. AllKept
      BY <2>1, <3>1, CloseKeeps, OneKept
    <3> QED
      BY <1>0, <1>1, <2>5, <3>2 DEF HeartbeatDead, Quiet
  <2>6. CASE CloseCallback(c)
    <3>1. PICK j : j = cleanupConnection(r)
      OBVIOUS
    <3>2. PICK r2 : r2 = [j EXCEPT !.sock = "gone"]
      OBVIOUS
    <3>3. r2 \in Connection /\ Kept(r, r2) /\ r2.phase # "active"
      <4>1. j \in Connection /\ Kept(r, j) /\ j.phase # "active"
        BY <3>1, CleanupKeeps
      <4>2. r2 \in Connection /\ Kept(j, r2) /\ r2.phase = j.phase
        BY <3>2, <4>1 DEF Connection, Kept, Same
      <4> QED
        BY <4>1, <4>2, KeptTransitive
    <3>4. conn' = [conn EXCEPT ![c] = r2]
      BY <1>1, <2>1, <2>6, <3>1, <3>2 DEF CloseCallback
    <3>5. AllKept
      BY <2>1, <3>3, <3>4, OneKept
    <3>6. registry' \in Seq(Conns \union {None})
      BY <1>1, <2>6, UnregisteredIs DEF CloseCallback
    <3>7. UpStaysIn
      <4>1. Registered \ {c} \subseteq Registered'
        BY <1>1, <2>6, UnregisteredIs DEF CloseCallback
      <4>2. conn'[c].phase # "active"
        BY <1>1, <3>3, <3>4
      <4> QED
        BY <4>1, <4>2 DEF UpStaysIn
    <3> QED
      BY <1>1, <2>6, <3>5, <3>6, <3>7 DEF CloseCallback, Quiet
  <2>7. CASE Fill(c)
    <3>1. PICK r2 : r2 = [r EXCEPT !.full = TRUE]
      OBVIOUS
    <3>2. r2 \in Connection /\ Kept(r, r2)
      BY <3>1 DEF Connection, Kept, Same
    <3>3. conn' = [conn EXCEPT ![c] = r2]
      BY <1>1, <2>1, <2>7, <3>1 DEF Fill
    <3>4. AllKept
      BY <2>1, <3>2, <3>3, OneKept
    <3> QED
      BY <1>0, <1>1, <2>7, <3>4 DEF Fill, Quiet
  <2>8. CASE Drain(c)
    <3>1. PICK r2 : r2 = [r EXCEPT !.full = FALSE, !.depth = 0, !.notified = FALSE]
      OBVIOUS
    <3>2. r2 \in Connection /\ Kept(r, r2)
      <4>1. 0 \in 0..HardLimit
        BY SizesAssumption
      <4> QED
        BY <3>1, <4>1 DEF Connection, Kept, Same
    <3>3. conn' = [conn EXCEPT ![c] = r2]
      BY <1>1, <2>1, <2>8, <3>1 DEF Drain
    <3>4. AllKept
      BY <2>1, <3>2, <3>3, OneKept
    <3> QED
      BY <1>0, <1>1, <2>8, <3>4 DEF Drain, Quiet
  <2> QED
    BY <1>7, <2>2, <2>3, <2>4, <2>5, <2>6, <2>7, <2>8
<1> QED
  BY <1>2, <1>5, <1>6, <1>7

\* A connection that is kept stays well formed.
LEMMA KeptIsOK ==
    ASSUME TypeOK, AllKept
    PROVE  ConnsOK(conn') /\ \A c \in Conns : Forth(conn[c], conn'[c])
<1>1. \A c \in Conns : ConnectionOK(conn[c]) /\ conn'[c] \in Connection
                       /\ Same(conn[c], conn'[c])
  BY DEF TypeOK, AllKept, Kept
<1>2. \A c \in Conns : ConnectionOK(conn'[c])
  BY <1>1, SameIsOK
<1>3. \A c \in Conns : Forth(conn[c], conn'[c])
  BY <1>1 DEF Same, Forth
<1> QED
  BY <1>2, <1>3 DEF AllKept, ConnsOK

\* Quiet steps keep the types.
LEMMA QuietTypes ==
    ASSUME TypeOK, Quiet
    PROVE  TypeOK'
<1>1. ConnsOK(conn') /\ \A c \in Conns : Forth(conn[c], conn'[c])
  BY KeptIsOK DEF Quiet
<1>2. gen \in Nat /\ gen <= gen
  BY TypeIs
<1>3. LookupsOK(lookups, conn', gen) /\ GreetsOK(greets, conn') /\ RoutesOK(routes, conn')
  BY <1>1, <1>2, TypeIs, InFlightStays
<1>4. /\ replay' = replay /\ policy' = policy /\ lookups' = lookups /\ greets' = greets
      /\ routes' = routes /\ pending' = pending /\ gen' = gen /\ at' = at
  BY DEF Quiet
<1> QED
  BY <1>1, <1>3, <1>4, TypeIs, TypeIsNext DEF Quiet

(***************************************************************************)
(* Steps that start a lookup.                                              *)
(***************************************************************************)
Calls(l) ==
    /\ Valid(l, conn, gen) /\ l.snap = policy[l.cred]
    /\ lookups' = Append(lookups, l)
    /\ routes' \subseteq routes
    /\ UNCHANGED <<server, registry, replay, policy, greets, pending, gen, remaining, at>>

Asks(c, id) ==
    /\ conn[c].sock = "open" /\ id \notin conn[c].asked
    /\ conn' = [conn EXCEPT ![c] = [conn[c] EXCEPT !.asked = @ \union {id}]]
    /\ \E l : Calls(l) /\ l.kind = "request" /\ l.conn = c /\ l.arg = id

\* A connection that is up has a record, and its socket was opened.
LEMMA UpIs ==
    ASSUME TypeOK, NEW c \in Conns, conn[c].phase = "active"
    PROVE  /\ conn[c].cred \in Credentials /\ conn[c].snap \in Snapshot
           /\ conn[c].sock # "unused"
BY SizesAssumption DEF TypeOK, ConnectionOK, Connection

\* What a lookup has read when it starts.
LEMMA CallIs ==
    ASSUME TypeOK, NEW kind, kind \in {"auth", "beat", "request", "resync"},
           NEW c \in Conns, NEW k \in Credentials,
           NEW arg, arg \in Nat \/ arg \in Ids \/ arg = None
    PROVE  LET l == Call(kind, c, k, arg)
           IN  /\ l \in Lookup /\ l.snap = policy[l.cred] /\ l.snap.cred = l.cred
               /\ l.kind = kind /\ l.conn = c /\ l.cred = k /\ l.arg = arg
<1>1. policy[k] \in Snapshot /\ policy[k].cred = k
  BY TypeIs DEF PolicyOK
<1>2. arg \in Nat \union Ids \union {None}
  OBVIOUS
<1> QED
  BY <1>1, <1>2 DEF Call, Lookup

\* The actions that look a credential up.
LEMMA CallingSteps ==
    ASSUME TypeOK
    PROVE  /\ \A c \in Conns, k \in Credentials : \A n \in LastSeen(k) :
                AuthFrame(c, k, n) => AllKept /\ \E l : Calls(l) /\ l.kind = "auth"
           /\ \A c \in Conns :
                HeartbeatTick(c) => AllKept /\ \E l : Calls(l) /\ l.kind = "beat"
           /\ \A q \in routes :
                RouteReturned(q, TRUE) => AllKept /\ \E l : Calls(l) /\ l.kind = "resync"
           /\ \A c \in Conns, id \in Ids : RequestFrame(c, id) => Asks(c, id)
<1>1. /\ conn \in [Conns -> Connection] /\ PolicyOK(policy)
      /\ ReplaysOK(replay) /\ RoutesOK(routes, conn)
  BY TypeIs DEF ConnsOK
<1>3. ASSUME NEW c \in Conns, NEW k \in Credentials, NEW n \in LastSeen(k),
             AuthFrame(c, k, n)
      PROVE  AllKept /\ \E l : Calls(l) /\ l.kind = "auth"
  <2>1. n \in Nat \union {None}
    <3>1. \A e \in Eras : replay[<<k, e>>].next \in Nat
      BY <1>1 DEF ReplaysOK, ReplayOK, Stream
    <3>2. CASE n # None
      <4>1. PICK e \in Eras : n \in 0..(replay[<<k, e>>].next - 1)
        BY <3>2 DEF LastSeen
      <4> QED
        BY <3>1, <4>1
    <3> QED
      BY <3>2
  <2>2. PICK l : l = Call("auth", c, k, n)
    OBVIOUS
  <2>3. /\ l \in Lookup /\ l.snap = policy[l.cred] /\ l.snap.cred = l.cred
        /\ l.kind = "auth" /\ l.conn = c /\ l.cred = k /\ l.arg = n
    BY <2>1, <2>2, CallIs
  <2>4. Valid(l, conn, gen)
    BY <1>3, <2>1, <2>3 DEF Valid, AuthFrame
  <2>5. Calls(l)
    BY <1>3, <2>2, <2>3, <2>4 DEF Calls, AuthFrame
  <2>6. PICK r2 : r2 = [conn[c] EXCEPT !.authTimer = FALSE]
    OBVIOUS
  <2>7. r2 \in Connection /\ Kept(conn[c], r2) /\ conn' = [conn EXCEPT ![c] = r2]
    BY <1>1, <1>3, <2>6, ZenonT(60) DEF AuthFrame, Connection, Kept, Same
  <2>8. AllKept
    BY <2>7, OneKept
  <2> QED
    BY <2>3, <2>5, <2>8
<1>4. ASSUME conn' = conn
      PROVE  AllKept
  BY <1>1, <1>4 DEF AllKept, Kept, Same
<1>5. ASSUME NEW c \in Conns, HeartbeatTick(c)
      PROVE  AllKept /\ \E l : Calls(l) /\ l.kind = "beat"
  <2>1. PICK k \in Credentials : k = conn[c].snap.cred
    BY <1>5, UpIs DEF HeartbeatTick, Beating, Snapshot
  <2>2. PICK l : l = Call("beat", c, k, None)
    OBVIOUS
  <2>3. /\ l \in Lookup /\ l.snap = policy[l.cred] /\ l.snap.cred = l.cred
        /\ l.kind = "beat" /\ l.conn = c /\ l.cred = k /\ l.arg = None
    BY <2>2, CallIs
  <2>4. conn[c].cred # None /\ conn[c].sock # "unused"
    BY <1>5, UpIs, SizesAssumption DEF HeartbeatTick, Beating
  <2>5. Valid(l, conn, gen)
    BY <2>3, <2>4 DEF Valid
  <2>6. Calls(l)
    BY <1>5, <2>1, <2>2, <2>3, <2>5 DEF Calls, HeartbeatTick
  <2> QED
    BY <1>4, <1>5, <2>3, <2>6 DEF HeartbeatTick
<1>6. ASSUME NEW q \in routes, RouteReturned(q, TRUE)
      PROVE  AllKept /\ \E l : Calls(l) /\ l.kind = "resync"
  <2>1. /\ q.conn \in Conns /\ q.cred \in Credentials /\ q.id \in Ids
        /\ conn[q.conn].cred # None
    BY <1>1 DEF RoutesOK
  <2>2. PICK l : l = Call("resync", q.conn, q.cred, q.id)
    OBVIOUS
  <2>3. /\ l \in Lookup /\ l.snap = policy[l.cred] /\ l.snap.cred = l.cred
        /\ l.kind = "resync" /\ l.conn = q.conn /\ l.arg = q.id
    BY <2>1, <2>2, CallIs
  <2>4. conn[q.conn].sock # "unused"
    BY <2>1 DEF TypeOK, ConnectionOK
  <2>5. Valid(l, conn, gen)
    BY <2>1, <2>3, <2>4 DEF Valid
  <2>6. Calls(l)
    BY <1>6, <2>2, <2>3, <2>5 DEF Calls, RouteReturned
  <2> QED
    BY <1>4, <1>6, <2>3, <2>6 DEF RouteReturned
<1>7. ASSUME NEW c \in Conns, NEW id \in Ids, RequestFrame(c, id)
      PROVE  Asks(c, id)
  <2>1. PICK k \in Credentials : k = conn[c].snap.cred
    BY <1>7, UpIs DEF RequestFrame, Snapshot
  <2>2. PICK l : l = Call("request", c, k, id)
    OBVIOUS
  <2>3. /\ l \in Lookup /\ l.snap = policy[l.cred] /\ l.snap.cred = l.cred
        /\ l.kind = "request" /\ l.conn = c /\ l.arg = id
    BY <2>2, CallIs
  <2>4. conn[c].cred # None /\ conn[c].sock # "unused"
    BY <1>7, UpIs, SizesAssumption DEF RequestFrame
  <2>5. Valid(l, conn, gen)
    BY <2>3, <2>4 DEF Valid
  <2>6. Calls(l)
    BY <1>7, <2>1, <2>2, <2>3, <2>5 DEF Calls, RequestFrame
  <2>7. conn' = [conn EXCEPT ![c] = [conn[c] EXCEPT !.asked = @ \union {id}]]
    BY <1>1, <1>7 DEF RequestFrame
  <2> QED
    BY <1>7, <2>3, <2>6, <2>7 DEF Asks, RequestFrame
<1> QED
  BY <1>3, <1>5, <1>6, <1>7

\* A lookup that starts keeps the types.
LEMMA CallTypes ==
    ASSUME TypeOK, NEW l, Calls(l), ConnsOK(conn'),
           \A c \in Conns : Forth(conn[c], conn'[c])
    PROVE  TypeOK'
<1>1. gen \in Nat /\ gen <= gen
  BY TypeIs
<1>2. LookupsOK(Append(lookups, l), conn, gen)
  BY TypeIs, LookupStarts DEF Calls
<1>3. /\ LookupsOK(Append(lookups, l), conn', gen)
      /\ GreetsOK(greets, conn') /\ RoutesOK(routes, conn')
  BY <1>1, <1>2, TypeIs, InFlightStays
<1>4. RoutesOK(routes', conn')
  BY <1>3 DEF Calls, RoutesOK
<1>5. /\ server' = server /\ registry' = registry /\ replay' = replay /\ policy' = policy
      /\ greets' = greets /\ pending' = pending /\ gen' = gen /\ remaining' = remaining
      /\ at' = at /\ lookups' = Append(lookups, l)
  BY DEF Calls
<1> QED
  BY <1>3, <1>4, <1>5, TypeIs, TypeIsNext

\* A request that is asked leaves the connection well formed.
LEMMA AskTypes ==
    ASSUME TypeOK, NEW c \in Conns, NEW id \in Ids, Asks(c, id)
    PROVE  /\ TypeOK'
           /\ \A d \in Conns \ {c} : conn'[d] = conn[d]
           /\ conn'[c] = [conn[c] EXCEPT !.asked = @ \union {id}]
<1>1. conn \in [Conns -> Connection] /\ ConnectionOK(conn[c])
  BY DEF TypeOK
<1>2. PICK r2 : r2 = [conn[c] EXCEPT !.asked = @ \union {id}]
  OBVIOUS
<1>3. r2 \in Connection /\ ConnectionOK(r2) /\ Forth(conn[c], r2)
  BY <1>1, <1>2 DEF Connection, ConnectionOK, Forth
<1>4. conn' = [conn EXCEPT ![c] = r2]
  BY <1>2 DEF Asks
<1>5. ConnsOK(conn') /\ \A d \in Conns : Forth(conn[d], conn'[d])
  BY <1>1, <1>3, <1>4 DEF ConnsOK, Forth, TypeOK
<1>6. TypeOK'
  BY <1>5, CallTypes DEF Asks
<1> QED
  BY <1>1, <1>2, <1>4, <1>6

(***************************************************************************)
(* Answers.                                                                *)
(***************************************************************************)
\* A response to request id, and whether a socket took it.
Responded(r, r2, id, done) ==
    /\ r2.cred = r.cred /\ r2.era = r.era /\ r2.snap = r.snap /\ r2.resume = r.resume
    /\ r2.sent = r.sent /\ r2.sock = r.sock /\ r2.phase = r.phase /\ r2.asked = r.asked
    /\ r2.inflight = r.inflight \ done
    /\ \/ r2.answered = r.answered
       \/ r2.answered = [r.answered EXCEPT ![id] = @ + 1]

\* Respond, for a request that is not in flight and for one that is.
LEMMA RespondIs ==
    ASSUME NEW r \in Connection, NEW id \in Ids, NEW done \in SUBSET Ids
    PROVE  /\ Respond([r EXCEPT !.inflight = @ \ done], id) \in Connection
           /\ Responded(r, Respond([r EXCEPT !.inflight = @ \ done], id), id, done)
<1>1. PICK k : k = [r EXCEPT !.inflight = @ \ done]
  OBVIOUS
<1>2. /\ k \in Connection /\ k.cred = r.cred /\ k.era = r.era /\ k.snap = r.snap
      /\ k.resume = r.resume /\ k.sent = r.sent /\ k.sock = r.sock /\ k.phase = r.phase
      /\ k.asked = r.asked /\ k.inflight = r.inflight \ done /\ k.answered = r.answered
  BY <1>1 DEF Connection
<1>3. PICK d : d = IF k.sock = "open" /\ k.full /\ k.depth < HardLimit
                   THEN k.depth + 1 ELSE k.depth
  OBVIOUS
<1>4. d \in 0..HardLimit
  BY <1>2, <1>3, SizesAssumption DEF Connection
<1>5. PICK a : a = IF k.sock = "open" THEN [k.answered EXCEPT ![id] = @ + 1]
                   ELSE k.answered
  OBVIOUS
<1>6. a \in [Ids -> Nat]
  BY <1>2, <1>5 DEF Connection
<1>7. PICK j : j = sendJson(k)
  OBVIOUS
<1>8. j = [k EXCEPT !.depth = d]
  BY <1>2, <1>3, <1>7 DEF sendJson, Connection
<1>9. PICK r2 : r2 = Respond(k, id)
  OBVIOUS
<1>10. r2 = [j EXCEPT !.answered = a]
  <2>1. r2 = [j EXCEPT !.answered = [j.answered EXCEPT ![id] =
                IF k.sock = "open" THEN @ + 1 ELSE @]]
    BY <1>7, <1>9 DEF Respond
  <2>2. j.answered = k.answered
    BY <1>2, <1>8 DEF Connection
  <2>3. k.answered \in [Ids -> Nat]
    BY <1>2 DEF Connection
  <2>4. [k.answered EXCEPT ![id] = IF k.sock = "open" THEN @ + 1 ELSE @] = a
    BY <1>5, <2>3
  <2> QED
    BY <2>1, <2>2, <2>4
<1>11. j \in Connection /\ j.answered = k.answered
  BY <1>2, <1>4, <1>8 DEF Connection
<1>12. r2 \in Connection
  BY <1>6, <1>10, <1>11 DEF Connection
<1>13. /\ r2.cred = k.cred /\ r2.era = k.era /\ r2.snap = k.snap /\ r2.resume = k.resume
       /\ r2.sent = k.sent /\ r2.sock = k.sock /\ r2.phase = k.phase
       /\ r2.asked = k.asked /\ r2.inflight = k.inflight /\ r2.answered = a
  BY <1>2, <1>8, <1>10 DEF Connection
<1>14. Responded(r, r2, id, done)
  BY <1>2, <1>5, <1>13 DEF Responded
<1> QED
  BY <1>1, <1>9, <1>12, <1>14

\* A request in flight is answered on its connection.
Settles(c, id) ==
    /\ id \in conn[c].inflight
    /\ \E r2 \in Connection : /\ conn' = [conn EXCEPT ![c] = r2]
                              /\ Responded(conn[c], r2, id, {id})

SettlesOnly ==
    /\ routes' \subseteq routes
    /\ UNCHANGED <<server, registry, replay, policy, lookups, greets, pending, gen,
                   remaining, at>>

\* The actions that answer a request; the answer of a handler is dropped when
\* the request is no longer in flight.
LEMMA SettlingSteps ==
    ASSUME TypeOK
    PROVE  /\ \A c \in Conns, id \in Ids :
                RequestTimeout(c, id) => Settles(c, id) /\ SettlesOnly
           /\ \A q \in routes : RouteReturned(q, FALSE) =>
                SettlesOnly /\ (conn' = conn \/ \E c \in Conns, id \in Ids : Settles(c, id))
<1>1. conn \in [Conns -> Connection] /\ RoutesOK(routes, conn)
  BY TypeIs DEF ConnsOK
<1>2. ASSUME NEW c \in Conns, NEW id \in Ids, RequestTimeout(c, id)
      PROVE  Settles(c, id) /\ SettlesOnly
  <2>1. conn' = [conn EXCEPT ![c] = Settle(conn[c], id)]
    BY <1>1, <1>2 DEF RequestTimeout
  <2>2. conn[c] \in Connection /\ {id} \in SUBSET Ids
    BY <1>1
  <2> QED
    BY <1>2, <2>1, <2>2, RespondIs DEF RequestTimeout, Settles, SettlesOnly, Settle
<1>3. ASSUME NEW q \in routes, RouteReturned(q, FALSE)
      PROVE  SettlesOnly /\ (conn' = conn \/ \E c \in Conns, id \in Ids : Settles(c, id))
  <2>1. q.conn \in Conns /\ q.id \in Ids /\ conn[q.conn] \in Connection
    BY <1>1 DEF RoutesOK
  <2>2. SettlesOnly
    BY <1>3 DEF RouteReturned, SettlesOnly
  <2>3. conn' = [conn EXCEPT ![q.conn] = Answer(conn[q.conn], q.id)]
    BY <1>1, <1>3, <2>1 DEF RouteReturned
  <2>4. CASE q.id \in conn[q.conn].inflight
    <3>1. conn' = [conn EXCEPT ![q.conn] = Settle(conn[q.conn], q.id)]
      BY <2>3, <2>4 DEF Answer
    <3>2. {q.id} \in SUBSET Ids
      BY <2>1
    <3>3. Settles(q.conn, q.id)
      BY <2>1, <2>4, <3>1, <3>2, RespondIs DEF Settles, Settle
    <3> QED
      BY <2>1, <2>2, <3>3
  <2>5. CASE q.id \notin conn[q.conn].inflight
    <3>1. conn' = conn
      BY <1>1, <2>1, <2>3, <2>5 DEF Answer
    <3> QED
      BY <2>2, <3>1
  <2> QED
    BY <2>4, <2>5
<1> QED
  BY <1>2, <1>3

\* A connection after a response is well formed.
LEMMA RespondedIsOK ==
    ASSUME NEW r, NEW r2 \in Connection, NEW id, NEW done, ConnectionOK(r),
           Responded(r, r2, id, done)
    PROVE  ConnectionOK(r2) /\ Forth(r, r2)
BY DEF ConnectionOK, Responded, Forth

\* An answer keeps the types.
LEMMA SettleTypes ==
    ASSUME TypeOK, SettlesOnly, conn' = conn \/ \E c \in Conns, id \in Ids : Settles(c, id)
    PROVE  TypeOK'
<1>1. conn \in [Conns -> Connection] /\ \A c \in Conns : ConnectionOK(conn[c])
  BY DEF TypeOK
<1>2. ConnsOK(conn') /\ \A c \in Conns : Forth(conn[c], conn'[c])
  <2>1. CASE conn' = conn
    BY <1>1, <2>1 DEF ConnsOK, Forth
  <2>2. CASE \E c \in Conns, id \in Ids : Settles(c, id)
    <3>1. PICK c \in Conns, id \in Ids, r2 \in Connection :
                 conn' = [conn EXCEPT ![c] = r2] /\ Responded(conn[c], r2, id, {id})
      BY <2>2 DEF Settles
    <3>2. ConnectionOK(r2) /\ Forth(conn[c], r2)
      BY <1>1, <3>1, RespondedIsOK
    <3> QED
      BY <1>1, <3>1, <3>2 DEF ConnsOK, Forth
  <2> QED
    BY <2>1, <2>2
<1>3. gen \in Nat /\ gen <= gen
  BY TypeIs
<1>4. LookupsOK(lookups, conn', gen) /\ GreetsOK(greets, conn') /\ RoutesOK(routes, conn')
  BY <1>2, <1>3, TypeIs, InFlightStays
<1>5. RoutesOK(routes', conn')
  BY <1>4 DEF SettlesOnly, RoutesOK
<1>6. /\ server' = server /\ registry' = registry /\ replay' = replay /\ policy' = policy
      /\ greets' = greets /\ pending' = pending /\ gen' = gen /\ remaining' = remaining
      /\ at' = at /\ lookups' = lookups
  BY DEF SettlesOnly
<1> QED
  BY <1>2, <1>4, <1>5, <1>6, TypeIs, TypeIsNext

(***************************************************************************)
(* Steps that send.                                                        *)
(***************************************************************************)
\* What was sent stays sent.
Extends(r, r2) ==
    \A i \in DOMAIN r.sent : i \in DOMAIN r2.sent /\ r2.sent[i] = r.sent[i]

Grown(r, r2) == Same(r, r2) /\ r2.phase = r.phase /\ Extends(r, r2)

Progress(st, st2) ==
    /\ Typed(st2)
    /\ \A s \in Stream : st.replay[s].next <= st2.replay[s].next
    /\ \A c \in Conns : Grown(st.conn[c], st2.conn[c])

\* Sending to nobody, and then to somebody, and then to others.
LEMMA ProgressGoesOn ==
    ASSUME NEW a, NEW b, NEW c, Typed(a)
    PROVE  Progress(a, a) /\ (Progress(a, b) /\ Progress(b, c) => Progress(a, c))
<1>1. Progress(a, a)
  <2>1. \A s \in Stream : a.replay[s].next \in Nat
    BY DEF Typed, ReplayOK
  <2> QED
    BY <2>1 DEF Progress, Grown, Same, Extends
<1>2. ASSUME Progress(a, b), Progress(b, c)
      PROVE  Progress(a, c)
  <2>1. \A s \in Stream : /\ a.replay[s].next \in Nat /\ b.replay[s].next \in Nat
                          /\ c.replay[s].next \in Nat
    BY <1>2 DEF Typed, ReplayOK, Progress
  <2>2. \A s \in Stream : a.replay[s].next <= c.replay[s].next
    BY <1>2, <2>1 DEF Progress
  <2>3. \A d \in Conns : Same(a.conn[d], c.conn[d])
    BY <1>2, KeptTransitive DEF Progress, Grown
  <2>4. \A d \in Conns : Extends(a.conn[d], c.conn[d]) /\ c.conn[d].phase = a.conn[d].phase
    BY <1>2 DEF Progress, Grown, Extends
  <2> QED
    BY <1>2, <2>2, <2>3, <2>4 DEF Progress, Grown
<1> QED
  BY <1>1, <1>2

\* A frame more at the end of what was sent.
LEMMA SentGrows ==
    ASSUME NEW r \in Connection, NEW r2, NEW f, SentOn(r, r2, f)
    PROVE  Grown(r, r2)
<1>1. r.sent \in Seq(Frame)
  BY DEF Connection
<1>2. DOMAIN r.sent = 1..Len(r.sent) /\ Len(r.sent) \in Nat
  BY <1>1, LenProperties
<1>3. /\ DOMAIN Append(r.sent, f) = 1..(Len(r.sent) + 1)
      /\ \A i \in 1..Len(r.sent) : Append(r.sent, f)[i] = r.sent[i]
  BY <1>1, <1>2
<1>4. \A i \in 1..Len(r.sent) : i \in 1..(Len(r.sent) + 1)
  BY <1>2
<1>5. Extends(r, r2)
  BY <1>2, <1>3, <1>4 DEF SentOn, Extends
<1> QED
  BY <1>5 DEF SentOn, Grown

\* sendSequenced only makes progress.
LEMMA SendingProgresses ==
    ASSUME NEW st, NEW st2, NEW to, NEW ev, Typed(st), to \subseteq Conns,
           Sending(st, st2, to, ev)
    PROVE  Progress(st, st2)
<1>1. ASSUME NEW c \in Conns
      PROVE  Grown(st.conn[c], st2.conn[c])
  <2>1. CASE c \in to
    <3>1. st.conn[c] \in Connection
      BY DEF Typed
    <3>2. \E f : SentOn(st.conn[c], st2.conn[c], f)
      BY <2>1 DEF Sending
    <3> QED
      BY <3>1, <3>2, SentGrows
  <2>2. CASE c \notin to
    BY <2>2 DEF Sending, Grown, Same, Extends
  <2> QED
    BY <2>1, <2>2
<1> QED
  BY <1>1 DEF Sending, Progress

\* A broadcast goes to connections of the credential that are registered, up, and
\* hold an active record.
LEMMA BroadcastSends ==
    ASSUME NEW st, Typed(st), registry \in Seq(Conns \union {None}),
           NEW k \in Credentials, NEW ev \in Nat
    PROVE  \E to \in SUBSET Conns :
             /\ to = {c \in Registered : st.conn[c].cred = k /\ Receives(st.conn[c])}
             /\ Sending(st, BroadcastTo(st, k, ev), to, ev)
<1>1. PICK to : to = {c \in Registered : st.conn[c].cred = k /\ Receives(st.conn[c])}
  OBVIOUS
<1>2. to \subseteq Conns
  <2>1. \A i \in DOMAIN registry : registry[i] \in Conns \union {None}
    BY LenProperties, ElementOfSeq
  <2> QED
    BY <1>1, <2>1 DEF Registered, Range
<1>3. {c \in getByCredentialId(st, k) : Receives(st.conn[c])} = to
  BY <1>1 DEF getByCredentialId
<1>4. BroadcastTo(st, k, ev) = sendSequenced(st, to, ev)
  BY <1>3 DEF BroadcastTo
<1>5. \A c \in to : st.conn[c].cred # None
  BY <1>1, SizesAssumption
<1>6. Sending(st, sendSequenced(st, to, ev), to, ev)
  BY <1>2, <1>5, SendSequencedSends
<1> QED
  BY <1>1, <1>2, <1>4, <1>6

\* Every non-empty set of naturals has a least element.
LEMMA LeastNatural ==
    ASSUME NEW A \in SUBSET Nat, A # {}
    PROVE  \E x \in A : \A y \in A : x <= y
<1>1. PICK x \in A : \A y \in A : ~(<<y, x>> \in OpToRel(<, Nat))
  BY WFMin, NatLessThanWellFounded, Zenon
<1>2. \A y \in A : ~(y < x)
  BY <1>1 DEF OpToRel
<1> QED
  BY <1>2

\* What the queue leaves after each of its first n events.
Stages(a, st, k, events, n) ==
    /\ a = [i \in 0..n |-> IF i = 0 THEN st ELSE BroadcastTo(a[i - 1], k, events[i])]

\* The recursion of Drained has a solution.
LEMMA StagesExist ==
    ASSUME NEW st, NEW k, NEW events, NEW n \in Nat
    PROVE  \E a : Stages(a, st, k, events, n)
<1> DEFINE T == {m \in Nat : ~ \E a : Stages(a, st, k, events, m)}
<1>1. SUFFICES ASSUME T # {} PROVE FALSE
  OBVIOUS
<1>2. T \in SUBSET Nat
  OBVIOUS
<1>3. PICK m \in T : \A l \in T : m <= l
  <2> HIDE DEF T
  <2> QED
    BY <1>1, <1>2, LeastNatural
<1>4. m \in Nat /\ ~ \E a : Stages(a, st, k, events, m)
  BY <1>3
<1>5. CASE m = 0
  <2>1. PICK a : a = [i \in 0..0 |-> st]
    OBVIOUS
  <2>2. Stages(a, st, k, events, 0)
    BY <2>1 DEF Stages
  <2> QED
    BY <1>4, <1>5, <2>2
<1>6. CASE m # 0
  <2>1. m - 1 \in Nat /\ m - 1 \notin T
    BY <1>3, <1>4, <1>6
  <2>2. PICK a : Stages(a, st, k, events, m - 1)
    BY <2>1
  <2>3. PICK b : b = [i \in 0..m |-> IF i = m THEN BroadcastTo(a[m - 1], k, events[m])
                                     ELSE a[i]]
    OBVIOUS
  <2>4. ASSUME NEW i \in 0..m
        PROVE  b[i] = IF i = 0 THEN st ELSE BroadcastTo(b[i - 1], k, events[i])
    <3>1. CASE i = m
      <4>1. i - 1 \in 0..m /\ i - 1 # m
        BY <1>4, <1>6, <3>1
      <4>2. b[i - 1] = a[m - 1]
        BY <2>3, <3>1, <4>1
      <4> QED
        BY <1>6, <2>3, <3>1, <4>2
    <3>2. CASE i # m
      <4>1. i \in 0..(m - 1)
        BY <1>4, <3>2
      <4>2. a[i] = IF i = 0 THEN st ELSE BroadcastTo(a[i - 1], k, events[i])
        BY <2>2, <4>1 DEF Stages
      <4>3. i # 0 => i - 1 \in 0..m /\ i - 1 # m
        BY <1>4, <4>1
      <4>4. i # 0 => b[i - 1] = a[i - 1]
        BY <2>3, <4>3
      <4> QED
        BY <2>3, <3>2, <4>2, <4>4
    <3> QED
      BY <3>1, <3>2
  <2>5. b = [i \in 0..m |-> IF i = 0 THEN st ELSE BroadcastTo(b[i - 1], k, events[i])]
    BY <2>3, <2>4
  <2> QED
    BY <1>4, <2>5 DEF Stages
<1> QED
  BY <1>5, <1>6

\* a holds the stages through which a queue of n events is let go, from st to last.
DrainsTo(a, st, k, events, n, last) ==
    /\ a[0] = st
    /\ \A i \in 1..n : a[i] = BroadcastTo(a[i - 1], k, events[i])
    /\ last = a[n]

\* Drained is the last of its stages.
LEMMA DrainedIs ==
    ASSUME NEW st, NEW k, NEW events, NEW n \in Nat, Len(events) = n
    PROVE  \E a : DrainsTo(a, st, k, events, n, Drained(st, k, events))
<1>1. PICK a : a = CHOOSE f : Stages(f, st, k, events, n)
  OBVIOUS
<1>2. Stages(a, st, k, events, n)
  BY <1>1, StagesExist
<1>3. Drained(st, k, events) = a[n]
  BY <1>1 DEF Drained, Stages
<1>4. a[0] = st /\ \A i \in 1..n : a[i] = BroadcastTo(a[i - 1], k, events[i])
  BY <1>2 DEF Stages
<1>5. DrainsTo(a, st, k, events, n, Drained(st, k, events))
  BY <1>3, <1>4 DEF DrainsTo
<1> QED
  BY <1>5

\* Draining the queue only makes progress.
LEMMA DrainedProgresses ==
    ASSUME NEW st, Typed(st), registry \in Seq(Conns \union {None}),
           NEW k \in Credentials, NEW events \in Seq(Nat)
    PROVE  Progress(st, Drained(st, k, events))
<1>1. PICK n \in Nat : n = Len(events) /\ \A i \in 1..n : events[i] \in Nat
  BY LenProperties, ElementOfSeq
<1>a. PICK a : DrainsTo(a, st, k, events, n, Drained(st, k, events))
  BY <1>1, DrainedIs, Zenon
<1>2. /\ a[0] = st
      /\ \A i \in 1..n : a[i] = BroadcastTo(a[i - 1], k, events[i])
      /\ Drained(st, k, events) = a[n]
  BY <1>a DEF DrainsTo
<1> DEFINE T == {m \in 0..n : ~ Progress(st, a[m])}
<1>3. T = {}
  <2>1. SUFFICES ASSUME T # {} PROVE FALSE
    OBVIOUS
  <2>2. T \in SUBSET Nat
    OBVIOUS
  <2>3. PICK m \in T : \A l \in T : m <= l
    <3> HIDE DEF T
    <3> QED
      BY <2>1, <2>2, LeastNatural
  <2>4. m \in 0..n /\ ~ Progress(st, a[m])
    BY <2>3
  <2>5. m # 0
    BY <1>2, <2>4, ProgressGoesOn
  <2>6. m \in 1..n /\ m - 1 \in 0..n /\ ~(m <= m - 1)
    BY <2>4, <2>5
  <2>7. Progress(st, a[m - 1])
    BY <2>3, <2>6
  <2>8. Typed(a[m - 1]) /\ events[m] \in Nat /\ a[m] = BroadcastTo(a[m - 1], k, events[m])
    BY <1>1, <1>2, <2>6, <2>7 DEF Progress
  <2>9. PICK to \in SUBSET Conns : Sending(a[m - 1], a[m], to, events[m])
    BY <2>8, BroadcastSends
  <2>10. Progress(a[m - 1], a[m])
    BY <2>8, <2>9, SendingProgresses
  <2> QED
    BY <2>4, <2>7, <2>10, ProgressGoesOn
<1> QED
  BY <1>1, <1>2, <1>3

(***************************************************************************)
(* Steps that renew a record or a resumption.                              *)
(***************************************************************************)
\* A lookup that read snap came back: the connection that stays open holds it.
Renewed(r, r2, snap) ==
    /\ r2.cred = r.cred /\ r2.era = r.era /\ r2.resume = r.resume /\ r2.sent = r.sent
    /\ r2.phase = r.phase /\ r2.asked = r.asked /\ r2.answered = r.answered
    /\ r2.inflight = r.inflight
    /\ r2.snap \in {r.snap, snap}
    /\ r2.sock = "open" => r.sock = "open" /\ r2.snap = snap
    /\ r2.sock = "unused" <=> r.sock = "unused"

\* Refreshed, the closing of a connection whose lookup failed, and the record
\* alone.
LEMMA RenewIs ==
    ASSUME NEW r \in Connection, NEW snap \in Snapshot
    PROVE  /\ Refreshed(r, snap) \in Connection /\ Renewed(r, Refreshed(r, snap), snap)
           /\ CloseAndStopHeartbeat(r) \in Connection
           /\ Renewed(r, CloseAndStopHeartbeat(r), snap)
           /\ [r EXCEPT !.snap = snap] \in Connection
           /\ Renewed(r, [r EXCEPT !.snap = snap], snap)
<1>1. ASSUME NEW k \in Connection, NEW j, j = CloseAndStopHeartbeat(k)
      PROVE  /\ j \in Connection /\ j.sock # "open"
             /\ j.cred = k.cred /\ j.era = k.era /\ j.resume = k.resume /\ j.sent = k.sent
             /\ j.phase = k.phase /\ j.asked = k.asked /\ j.answered = k.answered
             /\ j.inflight = k.inflight /\ j.snap = k.snap
             /\ j.sock = "unused" <=> k.sock = "unused"
  <2>1. PICK m : m = [k EXCEPT !.sock = IF k.sock = "open" THEN "closing" ELSE k.sock]
    OBVIOUS
  <2>2. /\ m \in Connection /\ m.sock # "open"
        /\ m.cred = k.cred /\ m.era = k.era /\ m.resume = k.resume /\ m.sent = k.sent
        /\ m.phase = k.phase /\ m.asked = k.asked /\ m.answered = k.answered
        /\ m.inflight = k.inflight /\ m.snap = k.snap
        /\ m.sock = "unused" <=> k.sock = "unused"
    BY <2>1, ZenonT(60) DEF Connection
  <2>3. j = [m EXCEPT !.beating = FALSE]
    BY <1>1, <2>1 DEF CloseAndStopHeartbeat, Close
  <2> QED
    BY <2>2, <2>3 DEF Connection
<1>2. PICK k : k = [r EXCEPT !.snap = snap]
  OBVIOUS
<1>3. k \in Connection /\ Renewed(r, k, snap)
  BY <1>2 DEF Connection, Renewed
<1>4. PICK j : j = CloseAndStopHeartbeat(k)
  OBVIOUS
<1>5. j \in Connection /\ Renewed(r, j, snap)
  BY <1>1, <1>3, <1>4 DEF Renewed
<1>6. Refreshed(r, snap) = k \/ Refreshed(r, snap) = j
  BY <1>2, <1>4 DEF Refreshed
<1>7. PICK m : m = CloseAndStopHeartbeat(r)
  OBVIOUS
<1>8. m \in Connection /\ Renewed(r, m, snap)
  BY <1>1, <1>7 DEF Renewed
<1> QED
  BY <1>2, <1>3, <1>5, <1>6, <1>7, <1>8

\* A connection with a new record is well formed.
LEMMA RenewedIsOK ==
    ASSUME NEW r, ConnectionOK(r), NEW snap \in Snapshot, NEW r2 \in Connection,
           Renewed(r, r2, snap)
    PROVE  ConnectionOK(r2) /\ Forth(r, r2)
BY DEF ConnectionOK, Renewed, Forth

\* What progress leaves as it was.
LEMMA GrownGoesForth ==
    ASSUME NEW r, NEW r2, Grown(r, r2)
    PROVE  Forth(r, r2)
BY DEF Grown, Same, Forth

\* Typed states are what the type invariant says of connections and replay states.
LEMMA TypedIs ==
    \A st : Typed(st) <=> ConnsOK(st.conn) /\ ReplaysOK(st.replay)
BY DEF Typed, ConnsOK, ReplaysOK

\* One connection changes.
LEMMA OneChanges ==
    ASSUME TypeOK, NEW c \in Conns, NEW r2, ConnectionOK(r2), Forth(conn[c], r2), NEW cn,
           cn = [conn EXCEPT ![c] = r2]
    PROVE  /\ ConnsOK(cn) /\ cn[c] = r2
           /\ \A d \in Conns : d # c => cn[d] = conn[d]
           /\ \A d \in Conns : Forth(conn[d], cn[d])
<1>1. conn \in [Conns -> Connection] /\ \A d \in Conns : ConnectionOK(conn[d])
  BY DEF TypeOK
<1>2. r2 \in Connection
  BY DEF ConnectionOK
<1> QED
  BY <1>1, <1>2 DEF ConnsOK, Forth

(***************************************************************************)
(* The welcome of a connection that authenticated.                         *)
(***************************************************************************)
ResumptionOf(g) == [cred |-> g.cred, era |-> g.era, lastSeen |-> g.lastSeen,
                    upto |-> g.upto, recovery |-> g.recovery]

Replayed(g, n) == [cred |-> g.cred, era |-> g.era, seq |-> n, ev |-> 0,
                   under |-> None, version |-> 0, live |-> FALSE]

ReplayedFrames(g) == [i \in 1..Len(g.frames) |-> Replayed(g, g.frames[i])]

\* All but the resumption stays.
Welcomed(r, r2, g) ==
    /\ r2.cred = r.cred /\ r2.era = r.era /\ r2.snap = r.snap /\ r2.sent = r.sent
    /\ r2.phase = r.phase /\ r2.asked = r.asked /\ r2.answered = r.answered
    /\ r2.inflight = r.inflight /\ r2.sock = r.sock
    /\ r2.resume = ResumptionOf(g)

\* The frames of a replay are frames.
LEMMA ReplayedIs ==
    ASSUME NEW g \in Greeting
    PROVE  /\ ReplayedFrames(g) \in Seq(Frame) /\ Len(ReplayedFrames(g)) = Len(g.frames)
           /\ DOMAIN ReplayedFrames(g) = DOMAIN g.frames
           /\ \A i \in DOMAIN g.frames : ReplayedFrames(g)[i] = Replayed(g, g.frames[i])
<1>1. g.frames \in Seq(Nat) /\ g.cred \in Credentials /\ g.era \in Eras
  BY DEF Greeting
<1>2. PICK n \in Nat : n = Len(g.frames) /\ DOMAIN g.frames = 1..n
                       /\ \A i \in 1..n : g.frames[i] \in Nat
  BY <1>1, LenProperties, ElementOfSeq
<1>3. \A i \in 1..n : Replayed(g, g.frames[i]) \in Frame
  BY <1>1, <1>2 DEF Replayed, Frame
<1>4. PICK fs : fs = [i \in 1..n |-> Replayed(g, g.frames[i])]
  OBVIOUS
<1>5. fs \in Seq(Frame) /\ Len(fs) = n /\ DOMAIN fs = 1..n
  BY <1>3, <1>4
<1>6. fs = ReplayedFrames(g)
  BY <1>2, <1>4 DEF ReplayedFrames
<1> QED
  BY <1>2, <1>4, <1>5, <1>6

\* The welcome: the recovery event as a sequenced frame, or the replay.
LEMMA GreetIs ==
    ASSUME TypeOK, NEW g \in greets, Greet(g)
    PROVE  \E r2, st :
             /\ r2 \in Connection
             /\ g \in Greeting /\ Welcomed(conn[g.conn], r2, g) /\ ConnectionOK(r2)
             /\ st = [conn |-> [conn EXCEPT ![g.conn] = r2], replay |-> replay]
             /\ Typed(st)
             /\ \/ /\ g.recovery
                   /\ Sending(st, [conn |-> conn', replay |-> replay'], {g.conn}, 0)
                \/ /\ ~g.recovery
                   /\ replay' = replay
                   /\ conn' = [conn EXCEPT ![g.conn] = sendFrames(r2, ReplayedFrames(g))]
<1>1. /\ conn \in [Conns -> Connection] /\ GreetsOK(greets, conn) /\ ReplaysOK(replay)
  BY TypeIs DEF ConnsOK
<1>2. PICK c \in Conns : c = g.conn /\ g \in Greeting /\ conn[c].cred # None
  BY <1>1 DEF GreetsOK, Greeting
<1>3. ConnectionOK(conn[c]) /\ conn[c] \in Connection
  BY DEF TypeOK
<1>4. PICK j : j = sendJson(conn[c])
  OBVIOUS
<1>5. PICK r2 : r2 = [j EXCEPT !.beating = TRUE, !.resume = ResumptionOf(g)]
  OBVIOUS
<1>6. ResumptionOf(g) \in Resumption
  BY <1>2 DEF ResumptionOf, Resumption, Greeting
<1>7. r2 \in Connection /\ Welcomed(conn[c], r2, g)
  <2>1. PICK d : d = IF conn[c].sock = "open" /\ conn[c].full /\ conn[c].depth < HardLimit
                     THEN conn[c].depth + 1 ELSE conn[c].depth
    OBVIOUS
  <2>2. d \in 0..HardLimit
    BY <1>3, <2>1, SizesAssumption DEF Connection
  <2>3. j = [conn[c] EXCEPT !.depth = d]
    BY <1>3, <1>4, <2>1 DEF sendJson, Connection
  <2>4. j \in Connection
    BY <1>3, <2>2, <2>3 DEF Connection
  <2>5. r2 \in Connection
    BY <1>5, <1>6, <2>4 DEF Connection
  <2> QED
    BY <1>3, <1>5, <2>3, <2>5 DEF Connection, Welcomed
<1>8. ConnectionOK(r2)
  BY <1>2, <1>3, <1>7 DEF ConnectionOK, Welcomed
<1>9. PICK cn : cn = [conn EXCEPT ![c] = r2]
  OBVIOUS
<1>10. cn \in [Conns -> Connection] /\ cn[c] = r2 /\ \A d \in Conns : ConnectionOK(cn[d])
  BY <1>1, <1>7, <1>8, <1>9 DEF TypeOK
<1>11. PICK st : st = [conn |-> cn, replay |-> replay]
  OBVIOUS
<1>12. st.conn = cn /\ st.replay = replay
  BY <1>11
<1>13. Typed(st)
  BY <1>1, <1>10, <1>12 DEF Typed, ReplaysOK
<1>14. [Now EXCEPT !.conn[c] =
           [j EXCEPT !.beating = TRUE, !.resume = ResumptionOf(g)]] = st
  BY <1>5, <1>9, <1>11 DEF Now
<1>15. conn' = Greeted(g).conn /\ replay' = Greeted(g).replay
  BY DEF Greet, SetStreams
<1>16. CASE g.recovery
  <2>1. Greeted(g) = sendSequenced(st, {c}, 0)
    BY <1>2, <1>4, <1>14, <1>16 DEF Greeted, ResumptionOf
  <2>2. Sending(st, sendSequenced(st, {c}, 0), {c}, 0)
    <3>1. {c} \subseteq Conns /\ \A d \in {c} : st.conn[d].cred # None
      BY <1>2, <1>7, <1>10, <1>12 DEF Welcomed
    <3> QED
      BY <1>13, <3>1, SendSequencedSends
  <2>3. PICK st2 : st2 = sendSequenced(st, {c}, 0)
    OBVIOUS
  <2>4. conn' = st2.conn /\ replay' = st2.replay
    BY <1>15, <2>1, <2>3
  <2>5. Sending(st, [conn |-> conn', replay |-> replay'], {c}, 0)
    <3>1. PICK st3 : st3 = [conn |-> conn', replay |-> replay']
      OBVIOUS
    <3>2. st3.conn = st2.conn /\ st3.replay = st2.replay
      BY <2>4, <3>1
    <3>3. Sending(st, st3, {c}, 0)
      BY <2>2, <2>3, <3>2 DEF Sending, Typed
    <3> QED
      BY <3>1, <3>3
  <2> QED
    BY <1>2, <1>7, <1>8, <1>9, <1>11, <1>13, <1>16, <2>5
<1>17. CASE ~g.recovery
  <2>1. Greeted(g) = [st EXCEPT !.conn[c] = sendFrames(@, ReplayedFrames(g))]
    BY <1>2, <1>4, <1>14, <1>17 DEF Greeted, ResumptionOf, ReplayedFrames, Replayed
  <2>2. Greeted(g) = [conn |-> [cn EXCEPT ![c] = sendFrames(r2, ReplayedFrames(g))],
                      replay |-> replay]
    BY <1>10, <1>11, <2>1
  <2>3. conn' = [cn EXCEPT ![c] = sendFrames(r2, ReplayedFrames(g))] /\ replay' = replay
    BY <1>15, <2>2
  <2>4. conn' = [conn EXCEPT ![c] = sendFrames(r2, ReplayedFrames(g))]
    BY <1>9, <2>3
  <2> QED
    BY <1>2, <1>7, <1>8, <1>9, <1>11, <1>13, <1>17, <2>3, <2>4
<1> QED
  BY <1>16, <1>17

\* A connection after a welcome is well formed and goes forth.
LEMMA WelcomedGoesForth ==
    ASSUME NEW r, NEW r2, NEW g, Welcomed(r, r2, g)
    PROVE  Forth(r, r2)
BY DEF Welcomed, Forth

\* Going forth twice.
LEMMA ForthGoesOn ==
    ASSUME NEW a, NEW b, NEW c, Forth(a, b), Forth(b, c)
    PROVE  Forth(a, c)
BY DEF Forth

\* What every step that sends leaves typed: the connections and replay states, and
\* what is in flight for the connections.
LEMMA StreamsTypes ==
    ASSUME TypeOK, ConnsOK(conn'), ReplaysOK(replay'),
           \A c \in Conns : Forth(conn[c], conn'[c])
    PROVE  /\ LookupsOK(lookups, conn', gen) /\ GreetsOK(greets, conn')
           /\ RoutesOK(routes, conn')
<1>1. gen \in Nat /\ gen <= gen
  BY TypeIs
<1> QED
  BY <1>1, TypeIs, InFlightStays

\* The welcome keeps the types.
LEMMA GreetTypes ==
    ASSUME TypeOK, NEW g \in greets, Greet(g)
    PROVE  TypeOK'
<1>1. PICK r2, st :
             /\ r2 \in Connection
             /\ g \in Greeting /\ Welcomed(conn[g.conn], r2, g) /\ ConnectionOK(r2)
             /\ st = [conn |-> [conn EXCEPT ![g.conn] = r2], replay |-> replay]
             /\ Typed(st)
             /\ \/ /\ g.recovery
                   /\ Sending(st, [conn |-> conn', replay |-> replay'], {g.conn}, 0)
                \/ /\ ~g.recovery
                   /\ replay' = replay
                   /\ conn' = [conn EXCEPT ![g.conn] = sendFrames(r2, ReplayedFrames(g))]
  BY GreetIs
<1> r2 \in Connection
  BY <1>1
<1>2. PICK c \in Conns : c = g.conn
  BY <1>1 DEF Greeting
<1>3. PICK cn : cn = [conn EXCEPT ![c] = r2]
  OBVIOUS
<1>4. st.conn = cn /\ st.replay = replay
  BY <1>1, <1>2, <1>3
<1>5. Forth(conn[c], r2)
  BY <1>1, <1>2, WelcomedGoesForth
<1>6. ConnsOK(cn) /\ \A d \in Conns : Forth(conn[d], cn[d])
  BY <1>1, <1>3, <1>5, OneChanges
<1>7. ConnsOK(conn') /\ ReplaysOK(replay') /\ \A d \in Conns : Forth(conn[d], conn'[d])
  <2>1. CASE g.recovery
    <3>1. PICK st2 : st2 = [conn |-> conn', replay |-> replay']
      OBVIOUS
    <3>2. st2.conn = conn' /\ st2.replay = replay'
      BY <3>1
    <3>3. Sending(st, st2, {c}, 0) /\ {c} \subseteq Conns
      BY <1>1, <1>2, <2>1, <3>1
    <3>4. Progress(st, st2)
      BY <1>1, <3>3, SendingProgresses
    <3>5. ConnsOK(conn') /\ ReplaysOK(replay')
      BY <3>2, <3>4, TypedIs DEF Progress
    <3>6. \A d \in Conns : Forth(cn[d], conn'[d])
      BY <1>4, <3>2, <3>4, GrownGoesForth DEF Progress
    <3> QED
      BY <1>6, <3>5, <3>6, ForthGoesOn
  <2>2. CASE ~g.recovery
    <3>1. ReplayedFrames(g) \in Seq(Frame)
      BY <1>1, ReplayedIs
    <3>2. PICK r3 : r3 = sendFrames(r2, ReplayedFrames(g))
      OBVIOUS
    <3>3. r3 \in Connection /\ Same(r2, r3)
      BY <3>1, <3>2, SendFramesKeeps
    <3>4. ConnectionOK(r3)
      BY <1>1, <3>3, SameIsOK
    <3>5. Forth(r2, r3)
      BY <3>3 DEF Same, Forth
    <3>6. Forth(conn[c], r3)
      BY <1>5, <3>5, ForthGoesOn
    <3>7. conn' = [conn EXCEPT ![c] = r3]
      BY <1>1, <1>2, <2>2, <3>2
    <3>8. ConnsOK(conn') /\ \A d \in Conns : Forth(conn[d], conn'[d])
      BY <3>4, <3>6, <3>7, OneChanges
    <3> QED
      BY <1>1, <2>2, <3>8, TypeIs
  <2> QED
    BY <2>1, <2>2
<1>8. LookupsOK(lookups, conn', gen) /\ GreetsOK(greets, conn') /\ RoutesOK(routes, conn')
  BY <1>7, StreamsTypes
<1>9. /\ server' = server /\ registry' = registry /\ policy' = policy
      /\ lookups' = lookups /\ routes' = routes /\ pending' = pending /\ gen' = gen
      /\ remaining' = remaining /\ at' = at /\ greets' = greets \ {g}
  BY DEF Greet
<1>10. GreetsOK(greets', conn')
  BY <1>8, <1>9 DEF GreetsOK
<1> QED
  BY <1>7, <1>8, <1>9, <1>10, TypeIs, TypeIsNext

(***************************************************************************)
(* Broadcasts, policy changes and the begin of stop().                     *)
(***************************************************************************)
\* The present state of connections and replay states is typed.
LEMMA NowIsTyped ==
    ASSUME TypeOK
    PROVE  Typed(Now) /\ Now.conn = conn /\ Now.replay = replay
BY TypeIs, TypedIs DEF Now

\* The broadcast of an event that is not queued.
LEMMA BroadcastIs ==
    ASSUME TypeOK, NEW k \in Credentials, Broadcast(k), ~(pending[k].refcount > 0)
    PROVE  \E st2, to :
             /\ to \in SUBSET Conns /\ to = {c \in Registered : conn[c].cred = k /\ Receives(conn[c])}
             /\ Sending(Now, st2, to, Len(at) + 1)
             /\ conn' = st2.conn /\ replay' = st2.replay /\ pending' = pending
<1>1. Len(at) + 1 \in Nat
  BY TypeIs, LenProperties
<1>2. registry \in Seq(Conns \union {None})
  BY TypeIs
<1>3. PICK to \in SUBSET Conns :
             /\ to = {c \in Registered : Now.conn[c].cred = k /\ Receives(Now.conn[c])}
             /\ Sending(Now, BroadcastTo(Now, k, Len(at) + 1), to, Len(at) + 1)
  BY <1>1, <1>2, NowIsTyped, BroadcastSends
<1>4. PICK st2 : st2 = BroadcastTo(Now, k, Len(at) + 1)
  OBVIOUS
<1>5. conn' = st2.conn /\ replay' = st2.replay /\ pending' = pending
  BY <1>4 DEF Broadcast, SetStreams
<1>6. to = {c \in Registered : conn[c].cred = k /\ Receives(conn[c])}
  BY <1>3, NowIsTyped
<1> QED
  BY <1>3, <1>4, <1>5, <1>6

\* Sending keeps what is in flight valid.
LEMMA ProgressTypes ==
    ASSUME TypeOK, NEW st2, Progress(Now, st2), conn' = st2.conn, replay' = st2.replay
    PROVE  /\ ConnsOK(conn') /\ ReplaysOK(replay')
           /\ \A c \in Conns : Forth(conn[c], conn'[c]) /\ Grown(conn[c], conn'[c])
<1>1. ConnsOK(conn') /\ ReplaysOK(replay')
  BY TypedIs DEF Progress
<1>2. \A c \in Conns : Grown(conn[c], conn'[c])
  BY NowIsTyped DEF Progress
<1> QED
  BY <1>1, <1>2, GrownGoesForth

\* A broadcast keeps the types.
LEMMA BroadcastTypes ==
    ASSUME TypeOK, NEW k \in Credentials, Broadcast(k)
    PROVE  TypeOK'
<1>1. /\ server' = server /\ registry' = registry /\ policy' = policy
      /\ lookups' = lookups /\ greets' = greets /\ routes' = routes /\ gen' = gen
      /\ remaining' = remaining /\ at' = Append(at, policy[k].version)
  BY DEF Broadcast
<1>2. at' \in Seq(Nat)
  BY <1>1, TypeIs, AppendProperties, SizesAssumption DEF PolicyOK, Snapshot
<1>3. CASE pending[k].refcount > 0
  <2>1. /\ conn' = conn /\ replay' = replay
        /\ pending' = [pending EXCEPT ![k].events = Append(@, Len(at) + 1)]
    BY <1>3 DEF Broadcast
  <2>2. Len(at) + 1 \in Nat /\ pending[k].events \in Seq(Nat)
    BY TypeIs, LenProperties DEF PendingOK
  <2>3. Append(pending[k].events, Len(at) + 1) \in Seq(Nat)
    BY <2>2, AppendProperties
  <2>4. PendingOK(pending')
    BY <2>1, <2>3, TypeIs DEF PendingOK
  <2> QED
    BY <1>1, <1>2, <2>1, <2>4, TypeIs, TypeIsNext
<1>4. CASE ~(pending[k].refcount > 0)
  <2>1. PICK st2, to :
               /\ to \in SUBSET Conns /\ Sending(Now, st2, to, Len(at) + 1)
               /\ conn' = st2.conn /\ replay' = st2.replay /\ pending' = pending
    BY <1>4, BroadcastIs
  <2>2. Progress(Now, st2)
    BY <2>1, NowIsTyped, SendingProgresses
  <2>3. ConnsOK(conn') /\ ReplaysOK(replay') /\ \A c \in Conns : Forth(conn[c], conn'[c])
    BY <2>1, <2>2, ProgressTypes
  <2>4. LookupsOK(lookups, conn', gen) /\ GreetsOK(greets, conn') /\ RoutesOK(routes, conn')
    BY <2>3, StreamsTypes
  <2> QED
    BY <1>1, <1>2, <2>1, <2>3, <2>4, TypeIs, TypeIsNext
<1> QED
  BY <1>3, <1>4

\* The lookup of an invalidation, and what a policy change leaves alone.
Invalidates(l, k) ==
    /\ l \in Lookup /\ l.kind = "invalidate" /\ l.cred = k /\ l.arg = gen + 1
    /\ l.snap = policy'[k]
    /\ lookups' = Append(lookups, l)
    /\ policy' \in [Credentials -> Snapshot] /\ policy'[k].cred = k
    /\ policy'[k].version = policy[k].version + 1
    /\ \A j \in Credentials \ {k} : policy'[j] = policy[j]
    /\ gen' = gen + 1
    /\ pending' = [pending EXCEPT ![k] = [refcount |-> pending[k].refcount + 1,
                                          generation |-> gen + 1,
                                          events |-> pending[k].events]]
    /\ UNCHANGED <<server, conn, registry, replay, greets, routes, remaining, at>>

\* A policy change starts an invalidation.
LEMMA MutateIs ==
    ASSUME TypeOK, NEW k \in Credentials, NEW status \in {"active", "revoked"},
           Mutate(k, status)
    PROVE  \E l : Invalidates(l, k)
<1>1. /\ policy \in [Credentials -> Snapshot] /\ gen \in Nat /\ PendingOK(pending)
      /\ MaxVersion \in Nat
  BY TypeIs, SizesAssumption DEF PolicyOK
<1>2. PICK p : p = [cred |-> k, version |-> policy[k].version + 1, status |-> status]
  OBVIOUS
<1>3. policy' = [policy EXCEPT ![k] = p]
  BY <1>1, <1>2 DEF Mutate
<1>4. p \in Snapshot
  <2>1. policy[k].version \in 1..(MaxVersion + 1) /\ policy[k].version <= MaxVersion
    BY <1>1 DEF Mutate, Snapshot
  <2>2. policy[k].version + 1 \in 1..(MaxVersion + 1)
    BY <1>1, <2>1
  <2> QED
    BY <1>2, <2>2 DEF Snapshot
<1>5. PICK l : l = [kind |-> "invalidate", conn |-> None, cred |-> k, snap |-> p,
                    arg |-> gen + 1]
  OBVIOUS
<1>6. l \in Lookup
  <2>1. gen + 1 \in Nat \union Ids \union {None}
    BY <1>1
  <2> QED
    BY <1>4, <1>5, <2>1 DEF Lookup
<1>7. lookups' = Append(lookups, l)
  <2>1. lookups' = Append(lookups,
                     [Call("invalidate", None, k, gen + 1) EXCEPT !.snap = policy'[k]])
    BY DEF Mutate
  <2>2. [Call("invalidate", None, k, gen + 1) EXCEPT !.snap = policy'[k]] = l
    BY <1>1, <1>3, <1>5 DEF Call
  <2> QED
    BY <2>1, <2>2
<1>8. pending' = [pending EXCEPT ![k] = [refcount |-> pending[k].refcount + 1,
                                         generation |-> gen + 1,
                                         events |-> pending[k].events]]
  BY <1>1 DEF Mutate, PendingOK
<1>9. /\ policy' \in [Credentials -> Snapshot] /\ policy'[k] = p
      /\ \A j \in Credentials \ {k} : policy'[j] = policy[j]
  BY <1>1, <1>3, <1>4
<1>10. p.cred = k /\ p.version = policy[k].version + 1
  BY <1>2
<1>11. l.kind = "invalidate" /\ l.cred = k /\ l.arg = gen + 1 /\ l.snap = p
  BY <1>5
<1>12. /\ gen' = gen + 1
       /\ UNCHANGED <<server, conn, registry, replay, greets, routes, remaining, at>>
  BY DEF Mutate
<1> QED
  BY <1>6, <1>7, <1>8, <1>9, <1>10, <1>11, <1>12 DEF Invalidates

\* A policy change keeps the types.
LEMMA MutateTypes ==
    ASSUME TypeOK, NEW k \in Credentials, NEW l, Invalidates(l, k)
    PROVE  TypeOK'
<1>1. gen \in Nat /\ gen + 1 \in Nat /\ gen <= gen + 1 /\ gen + 1 \in 1..(gen + 1)
  BY TypeIs
<1>2. \A c \in Conns : Forth(conn[c], conn[c])
  BY DEF Forth
<1>3. LookupsOK(lookups, conn, gen + 1)
  BY <1>1, <1>2, TypeIs, InFlightStays
<1>4. Valid(l, conn, gen + 1)
  BY <1>1 DEF Valid, Invalidates
<1>5. LookupsOK(Append(lookups, l), conn, gen + 1)
  BY <1>3, <1>4, LookupStarts
<1>6. PolicyOK(policy')
  BY TypeIs DEF PolicyOK, Invalidates
<1>7. PendingOK(pending')
  <2>1. pending \in [Credentials ->
                       [refcount : Nat, generation : Nat, events : Seq(Nat)]]
    BY TypeIs DEF PendingOK
  <2>2. pending[k].refcount + 1 \in Nat /\ pending[k].events \in Seq(Nat)
    BY <2>1
  <2> QED
    BY <1>1, <2>1, <2>2 DEF PendingOK, Invalidates
<1>8. /\ server' = server /\ conn' = conn /\ registry' = registry /\ replay' = replay
      /\ greets' = greets /\ routes' = routes /\ remaining' = remaining /\ at' = at
      /\ gen' = gen + 1 /\ lookups' = Append(lookups, l)
  BY DEF Invalidates
<1> QED
  BY <1>1, <1>5, <1>6, <1>7, <1>8, TypeIs, TypeIsNext

\* stop() tells the connections that are up, and drains them.
LEMMA StopBeginIs ==
    ASSUME TypeOK, StopBegin
    PROVE  \E st2, to :
             /\ to \in SUBSET Conns /\ to = {c \in Registered : conn[c].phase = "active"}
             /\ Sending(Now, st2, to, 0)
             /\ replay' = st2.replay
             /\ conn' = [c \in Conns |-> IF c \in to THEN transition(st2.conn[c], "draining")
                                         ELSE st2.conn[c]]
<1>1. PICK to : to = {c \in Registered : conn[c].phase = "active"}
  OBVIOUS
<1>2. \A i \in DOMAIN registry : registry[i] \in Conns \union {None}
  BY TypeIs, LenProperties, ElementOfSeq
<1>3. to \in SUBSET Conns
  BY <1>1, <1>2 DEF Registered, Range
<1>4. \A c \in to : Now.conn[c].cred # None
  BY <1>1, <1>3, NowIsTyped, UpIs, SizesAssumption
<1>5. PICK st2 : st2 = sendSequenced(Now, to, 0)
  OBVIOUS
<1>6. Sending(Now, st2, to, 0)
  BY <1>3, <1>4, <1>5, NowIsTyped, SendSequencedSends
<1>7. PICK cn : cn = [c \in Conns |-> IF c \in to THEN transition(st2.conn[c], "draining")
                                      ELSE st2.conn[c]]
  OBVIOUS
<1>8. st2 = [conn |-> st2.conn, replay |-> st2.replay]
  BY <1>5 DEF sendSequenced
<1>9. conn' = cn /\ replay' = st2.replay
  <2>1. [st2 EXCEPT !.conn = cn].conn = cn /\ [st2 EXCEPT !.conn = cn].replay = st2.replay
    BY <1>8
  <2>2. SetStreams([st2 EXCEPT !.conn = cn])
    BY <1>1, <1>5, <1>7 DEF StopBegin
  <2> QED
    BY <2>1, <2>2 DEF SetStreams
<1> QED
  BY <1>1, <1>3, <1>6, <1>7, <1>9

\* What a connection is after stop() told it.
LEMMA StopBeginGrows ==
    ASSUME TypeOK, StopBegin
    PROVE  /\ ConnsOK(conn') /\ ReplaysOK(replay')
           /\ \A c \in Conns : /\ Forth(conn[c], conn'[c])
                               /\ Same(conn[c], conn'[c]) /\ Extends(conn[c], conn'[c])
<1>1. PICK st2, to :
             /\ to \in SUBSET Conns /\ Sending(Now, st2, to, 0)
             /\ replay' = st2.replay
             /\ conn' = [c \in Conns |-> IF c \in to THEN transition(st2.conn[c], "draining")
                                         ELSE st2.conn[c]]
  BY StopBeginIs
<1>2. Progress(Now, st2)
  BY <1>1, NowIsTyped, SendingProgresses
<1>3. ASSUME NEW c \in Conns
      PROVE  /\ conn'[c] \in Connection /\ ConnectionOK(conn'[c])
             /\ Same(conn[c], conn'[c]) /\ Extends(conn[c], conn'[c])
  <2>1. PICK r2 : r2 = st2.conn[c]
    OBVIOUS
  <2>2. /\ r2 \in Connection /\ ConnectionOK(r2) /\ Same(conn[c], r2) /\ Extends(conn[c], r2)
    BY <1>2, <2>1, NowIsTyped DEF Progress, Typed, Grown
  <2>3. PICK r3 : r3 = transition(r2, "draining")
    OBVIOUS
  <2>4. r3 \in Connection /\ Same(r2, r3) /\ r3.sent = r2.sent
    BY <2>2, <2>3 DEF transition, canTransition, Connection, Same
  <2>5. Same(conn[c], r3) /\ ConnectionOK(r3) /\ Extends(conn[c], r3)
    BY <2>2, <2>4, SameIsOK, KeptTransitive DEF Extends
  <2>6. conn'[c] = r2 \/ conn'[c] = r3
    BY <1>1, <2>1, <2>3
  <2> QED
    BY <2>2, <2>4, <2>5, <2>6
<1>4. ReplaysOK(replay')
  BY <1>1, <1>2, TypedIs DEF Progress
<1>5. conn' \in [Conns -> Connection]
  BY <1>1, <1>3
<1> QED
  BY <1>3, <1>4, <1>5 DEF ConnsOK, Same, Forth

\* The begin of stop() keeps the types.
LEMMA StopBeginTypes ==
    ASSUME TypeOK, StopBegin
    PROVE  TypeOK'
<1>1. ConnsOK(conn') /\ ReplaysOK(replay') /\ \A c \in Conns : Forth(conn[c], conn'[c])
  BY StopBeginGrows
<1>2. LookupsOK(lookups, conn', gen) /\ GreetsOK(greets, conn') /\ RoutesOK(routes, conn')
  BY <1>1, StreamsTypes
<1>3. /\ ServerOK(server') /\ registry' = registry /\ policy' = policy
      /\ lookups' = lookups /\ greets' = greets /\ routes' = routes /\ gen' = gen
      /\ remaining' = remaining /\ at' = at /\ pending' = pending
  BY DEF StopBegin, ServerOK
<1> QED
  BY <1>1, <1>2, <1>3, TypeIs, TypeIsNext

(***************************************************************************)
(* Lookups that return.                                                    *)
(***************************************************************************)
\* What a client that saw frame n last is told, of "upto" frames.
Tells(recovery, frames, upto, n) ==
    n # None =>
        /\ recovery <=> upto - n > BufferSize
        /\ recovery \/ \A s \in (n + 1)..upto : \E i \in DOMAIN frames : frames[i] = s

\* The replay of a handshake: a client is told to recover exactly when more
\* frames were sent than the buffer holds, and gets all later ones otherwise.
LEMMA ReplayFramesIs ==
    ASSUME NEW state, ReplayOK(state), NEW n, n \in Nat \union {None}
    PROVE  /\ ReplayFrames(state.buffer, n) \in Seq(Nat)
           /\ NeedsRecovery(state.buffer, n) \in BOOLEAN
           /\ Tells(NeedsRecovery(state.buffer, n), ReplayFrames(state.buffer, n),
                    state.next - 1, n)
<1> USE SizesAssumption
<1>1. NeedsRecovery(state.buffer, n) \in BOOLEAN
  BY DEF NeedsRecovery
<1>6. PICK b : b = state.buffer
  OBVIOUS
<1>2. PICK m \in Nat, t \in Nat \ {0}, x \in Int :
             /\ t = state.next /\ x = t - 1 - m
             /\ Run(b, m, x) /\ m <= BufferSize /\ (m = BufferSize \/ m = t - 1)
  <2>1. PICK m \in Nat : /\ Run(state.buffer, m, state.next - 1 - m)
                         /\ m <= BufferSize
                         /\ m = BufferSize \/ m = state.next - 1
    BY ReplayIs
  <2>2. state.next \in Nat \ {0} /\ state.next - 1 - m \in Int
    BY ReplayIs
  <2> QED
    BY <1>6, <2>1, <2>2
<1>3. b \in Seq(Nat) /\ Len(b) = m /\ DOMAIN b = 1..m /\ \A i \in 1..m : b[i] = x + i
  BY <1>2, LenProperties DEF Run
<1>4. CASE n = None \/ NeedsRecovery(b, n)
  <2>1. ReplayFrames(b, n) = <<>>
    BY <1>4 DEF ReplayFrames
  <2>2. ReplayFrames(b, n) \in Seq(Nat)
    BY <2>1
  <2>3. ASSUME n # None
        PROVE  t - 1 - n > BufferSize
    <3>1. n \in Nat /\ b # <<>> /\ Head(b) > n + 1
      BY <1>4, <2>3 DEF NeedsRecovery
    <3>2. m # 0
      BY <1>3, <3>1
    <3>3. Head(b) = b[1] /\ 1 \in 1..m
      BY <1>3, <3>1, <3>2, HeadTailProperties
    <3>4. Head(b) = x + 1
      BY <1>3, <3>3
    <3>5. x > n
      BY <3>1, <3>4
    <3> QED
      BY <1>2, <3>1, <3>5, SMTT(60)
  <2>4. PICK y : y = NeedsRecovery(b, n)
    OBVIOUS
  <2>5. y \in BOOLEAN
    BY <1>1, <1>6, <2>4
  <2>6. n # None => y
    BY <1>4, <2>4
  <2>7. Tells(y, ReplayFrames(b, n), t - 1, n)
    BY <2>3, <2>5, <2>6 DEF Tells
  <2> QED
    BY <1>1, <1>2, <1>6, <2>2, <2>4, <2>7
<1>5. CASE n # None /\ ~NeedsRecovery(b, n)
  <2>0. n \in Nat
    BY <1>5
  <2>1. m = 0 \/ x <= n
    <3>1. CASE m # 0
      <4>1. b # <<>> /\ Head(b) = b[1] /\ 1 \in 1..m
        BY <1>3, <3>1, HeadTailProperties
      <4>2. Head(b) = x + 1
        BY <1>3, <4>1
      <4>3. ~(x + 1 > n + 1)
        BY <1>5, <4>1, <4>2 DEF NeedsRecovery
      <4> QED
        BY <2>0, <4>3
    <3> QED
      BY <3>1
  <2>2. ~(t - 1 - n > BufferSize)
    BY <1>2, <2>0, <2>1
  <2>3. PICK d \in 0..m : \A i \in 1..m : x + i <= n <=> i <= d
    <3>1. CASE m = 0
      BY <3>1
    <3>2. CASE m # 0 /\ n - x < m
      <4>1. n - x \in 0..m /\ \A i \in 1..m : x + i <= n <=> i <= n - x
        BY <2>0, <2>1, <3>2
      <4> QED
        BY <4>1
    <3>3. CASE m # 0 /\ ~(n - x < m)
      <4>1. m \in 0..m /\ \A i \in 1..m : x + i <= n <=> i <= m
        BY <2>0, <3>3
      <4> QED
        BY <4>1
    <3> QED
      BY <3>1, <3>2, <3>3
  <2>4. {i \in DOMAIN b : b[i] <= n} = 1..d
    <3>1. \A i \in 1..m : b[i] <= n <=> i <= d
      BY <1>3, <2>3
    <3>2. \A i \in 1..d : i \in 1..m
      OBVIOUS
    <3> QED
      BY <1>3, <3>1, <3>2, SMTT(60)
  <2>5. Cardinality(1..d) = d
    <3>1. d \in Int /\ 1 \in Int
      OBVIOUS
    <3>2. Cardinality(1..d) = IF 1 > d THEN 0 ELSE d - 1 + 1
      BY <3>1, FS_Interval
    <3> QED
      BY <3>2
  <2>6. PICK q : q = SubSeq(b, d + 1, m)
    OBVIOUS
  <2>7. ReplayFrames(b, n) = q
    BY <1>3, <1>5, <2>4, <2>5, <2>6 DEF ReplayFrames
  <2>8. Run(q, m - (d + 1) + 1, x + (d + 1) - 1)
    <3>1. d + 1 \in 1..m + 1
      OBVIOUS
    <3> QED
      BY <1>2, <2>6, <3>1, RunEnds
  <2>9. q \in Seq(Nat) /\ DOMAIN q = 1..(m - d) /\ \A i \in 1..(m - d) : q[i] = x + (d + i)
    <3>1. m - (d + 1) + 1 = m - d
          /\ \A i \in 1..(m - d) : x + (d + 1) - 1 + i = x + (d + i)
      OBVIOUS
    <3> QED
      BY <2>8, <3>1, LenProperties DEF Run
  <2>10. ASSUME NEW s \in (n + 1)..(t - 1)
         PROVE  \E i \in DOMAIN q : q[i] = s
    <3>1. s - x \in 1..m /\ x + (s - x) = s /\ ~(s <= n)
      BY <1>2, <2>0, <2>1
    <3>2. ~(s - x <= d)
      BY <2>3, <3>1
    <3>3. s - x - d \in 1..(m - d) /\ d + (s - x - d) = s - x
      BY <3>1, <3>2
    <3>4. q[s - x - d] = x + (d + (s - x - d))
      BY <2>9, <3>3
    <3> QED
      BY <2>9, <3>1, <3>3, <3>4
  <2>11. PICK y : y = NeedsRecovery(b, n)
    OBVIOUS
  <2>12. y \in BOOLEAN
    BY <1>1, <1>6, <2>11
  <2>13. ~y
    BY <1>5, <2>11
  <2>14. Tells(y, q, t - 1, n)
    BY <2>2, <2>10, <2>12, <2>13 DEF Tells
  <2> QED
    BY <1>1, <1>2, <1>6, <2>7, <2>9, <2>11, <2>14
<1> QED
  BY <1>4, <1>5

\* Lookup l, the i-th in flight, is answered; kind by kind below.
Returns(i, l) ==
    /\ i \in DOMAIN lookups /\ l = lookups[i]
    /\ lookups' = RemoveAt(lookups, i)
    /\ UNCHANGED <<server, policy, gen, remaining, at>>

\* What is known of a lookup that returns.
LEMMA ReturnsIs ==
    ASSUME TypeOK, NEW i, NEW l, Returns(i, l)
    PROVE  Valid(l, conn, gen) /\ l.snap \in Snapshot /\ l.cred \in Credentials
           /\ LookupsOK(lookups', conn, gen)
<1>1. LookupsOK(lookups, conn, gen)
  BY TypeIs
<1>2. Valid(l, conn, gen)
  BY <1>1 DEF LookupsOK, Returns
<1>3. LookupsOK(lookups', conn, gen)
  BY <1>1, LookupReturns DEF Returns
<1> QED
  BY <1>2, <1>3 DEF Valid, Lookup

\* A lookup that returned leaves the rest typed.
LEMMA ReturnTypes ==
    ASSUME TypeOK, NEW i, NEW l, Returns(i, l),
           ConnsOK(conn'), ReplaysOK(replay'), \A c \in Conns : Forth(conn[c], conn'[c]),
           registry' \in Seq(Conns \union {None}), PendingOK(pending'),
           GreetsOK(greets', conn'), RoutesOK(routes', conn')
    PROVE  TypeOK'
<1>1. gen \in Nat /\ gen <= gen
  BY TypeIs
<1>2. LookupsOK(lookups', conn', gen)
  BY <1>1, ReturnsIs, InFlightStays
<1>3. /\ server' = server /\ policy' = policy /\ gen' = gen /\ remaining' = remaining
      /\ at' = at
  BY DEF Returns
<1> QED
  BY <1>2, <1>3, TypeIs, TypeIsNext

\* A connection comes up under the record and credential of l.
Entered(r, r2, l, era) ==
    /\ r2.cred = l.cred /\ r2.era = era /\ r2.snap = l.snap
    /\ r2.resume = r.resume /\ r2.sent = r.sent /\ r2.sock = r.sock
    /\ r2.asked = r.asked /\ r2.answered = r.answered /\ r2.inflight = r.inflight
    /\ r2.phase = IF r.phase = "authenticating" THEN "active" ELSE r.phase

\* The greeting of a connection that came up.
Greets(g, l) ==
    /\ g \in Greeting /\ g.conn = l.conn /\ g.cred = l.cred /\ g.era = Era
    /\ g.lastSeen = l.arg
    /\ g.upto = replay[<<l.cred, Era>>].next - 1
    /\ g.recovery = NeedsRecovery(replay[<<l.cred, Era>>].buffer, l.arg)
    /\ g.frames = ReplayFrames(replay[<<l.cred, Era>>].buffer, l.arg)

\* The lookup of an auth frame returns.
LEMMA AuthIs ==
    ASSUME TypeOK, NEW i, NEW l, Returns(i, l), l.kind = "auth",
           NEW outcome, AuthResumed(l, outcome)
    PROVE  \/ AllKept /\ UNCHANGED <<registry, greets>>
           \/ \E r2 \in Connection : \E g :
                /\ l.conn \in Conns /\ Entered(conn[l.conn], r2, l, Era) /\ ConnectionOK(r2)
                /\ conn' = [conn EXCEPT ![l.conn] = r2]
                /\ registry' = IF l.conn \in Registered THEN registry
                               ELSE Append(registry, l.conn)
                /\ Greets(g, l) /\ greets' = greets \union {g}
<1>1. /\ conn \in [Conns -> Connection] /\ ReplaysOK(replay)
  BY TypeIs DEF ConnsOK
<1>2. /\ l.conn \in Conns /\ conn[l.conn].sock # "unused" /\ l.snap \in Snapshot
      /\ l.cred \in Credentials /\ l.arg \in Nat \union {None}
  BY ReturnsIs DEF Valid
<1>3. PICK r \in Connection : r = conn[l.conn]
  BY <1>1, <1>2
<1>4. CASE outcome = "error" \/ l.snap.status # "active"
  <2>1. conn' = [conn EXCEPT ![l.conn] = Close(sendJson(r))] /\ UNCHANGED <<registry, greets>>
    BY <1>3, <1>4 DEF AuthResumed
  <2>2. sendJson(r) \in Connection /\ Kept(r, sendJson(r))
    BY SendJsonKeeps
  <2>3. Close(sendJson(r)) \in Connection /\ Kept(sendJson(r), Close(sendJson(r)))
    BY <2>2, CloseKeeps
  <2>4. Kept(r, Close(sendJson(r)))
    BY <2>2, <2>3, KeptTransitive
  <2>5. AllKept
    BY <1>2, <1>3, <2>1, <2>3, <2>4, OneKept
  <2> QED
    BY <2>1, <2>5
<1>5. CASE ~(outcome = "error" \/ l.snap.status # "active")
  <2>1. PICK m : m = transition(r, "active")
    OBVIOUS
  <2>2. PICK r2 : r2 = [m EXCEPT !.cred = l.cred, !.era = Era, !.snap = l.snap]
    OBVIOUS
  <2>3. Era \in Eras
    BY DEF Era, Eras
  <2>4. /\ m \in Connection /\ m.resume = r.resume /\ m.sent = r.sent /\ m.sock = r.sock
        /\ m.asked = r.asked /\ m.answered = r.answered /\ m.inflight = r.inflight
        /\ m.phase = IF r.phase = "authenticating" THEN "active" ELSE r.phase
    BY <2>1 DEF transition, canTransition, Connection
  <2>5. r2 \in Connection /\ Entered(r, r2, l, Era)
    BY <1>2, <2>2, <2>3, <2>4 DEF Connection, Entered
  <2>6. ConnectionOK(r2)
    BY <1>2, <1>3, <2>5, SizesAssumption DEF Entered, ConnectionOK
  <2>7. conn' = [conn EXCEPT ![l.conn] = r2]
    BY <1>3, <1>5, <2>1, <2>2 DEF AuthResumed
  <2>8. PICK s : s = replay[<<l.cred, Era>>]
    OBVIOUS
  <2>9. ReplayOK(s) /\ s.next - 1 \in Nat
    BY <1>1, <1>2, <2>3, <2>8 DEF ReplaysOK, Stream, ReplayOK
  <2>10. PICK g : g = [conn |-> l.conn, cred |-> l.cred, era |-> Era, lastSeen |-> l.arg,
                       upto |-> s.next - 1,
                       recovery |-> NeedsRecovery(s.buffer, l.arg),
                       frames |-> ReplayFrames(s.buffer, l.arg)]
    OBVIOUS
  <2>11. /\ ReplayFrames(s.buffer, l.arg) \in Seq(Nat)
         /\ NeedsRecovery(s.buffer, l.arg) \in BOOLEAN
    BY <1>2, <2>9, ReplayFramesIs
  <2>12. Greets(g, l)
    BY <1>2, <2>3, <2>8, <2>9, <2>10, <2>11 DEF Greets, Greeting
  <2>13. /\ greets' = greets \union {g}
         /\ registry' = IF l.conn \in Registered THEN registry
                        ELSE Append(registry, l.conn)
    BY <1>5, <2>8, <2>10 DEF AuthResumed
  <2> QED
    BY <1>2, <1>3, <2>5, <2>6, <2>7, <2>12, <2>13
<1> QED
  BY <1>4, <1>5

\* The lookup of an auth frame keeps the types.
LEMMA AuthTypes ==
    ASSUME TypeOK, NEW i, NEW l, Returns(i, l), l.kind = "auth",
           NEW outcome, AuthResumed(l, outcome), UNCHANGED <<replay, routes, pending>>
    PROVE  TypeOK'
<1>1. CASE AllKept /\ UNCHANGED <<registry, greets>>
  <2>1. ConnsOK(conn') /\ \A c \in Conns : Forth(conn[c], conn'[c])
    BY <1>1, KeptIsOK
  <2>2. ReplaysOK(replay') /\ PendingOK(pending') /\ registry' \in Seq(Conns \union {None})
    BY <1>1, TypeIs
  <2>3. GreetsOK(greets, conn') /\ RoutesOK(routes, conn')
    BY <2>1, <2>2, StreamsTypes
  <2> QED
    BY <1>1, <2>1, <2>2, <2>3, ReturnTypes
<1>2. ASSUME NEW r2 \in Connection, NEW g,
             /\ l.conn \in Conns /\ Entered(conn[l.conn], r2, l, Era) /\ ConnectionOK(r2)
             /\ conn' = [conn EXCEPT ![l.conn] = r2]
             /\ registry' = IF l.conn \in Registered THEN registry
                            ELSE Append(registry, l.conn)
             /\ Greets(g, l) /\ greets' = greets \union {g}
      PROVE  TypeOK'
  <2>1. Forth(conn[l.conn], r2) /\ r2.cred # None
    BY <1>2, ReturnsIs, SizesAssumption DEF Entered, Forth
  <2>2. /\ ConnsOK(conn') /\ conn'[l.conn] = r2
        /\ \A c \in Conns : Forth(conn[c], conn'[c])
    <3>1. PICK c \in Conns : c = l.conn
      BY <1>2
    <3>2. Forth(conn[c], r2) /\ ConnectionOK(r2) /\ conn' = [conn EXCEPT ![c] = r2]
      BY <1>2, <2>1, <3>1
    <3>3. ConnsOK(conn') /\ \A d \in Conns : Forth(conn[d], conn'[d])
      BY <3>2, OneChanges
    <3> QED
      BY <3>1, <3>2, <3>3, TypeIs DEF ConnsOK
  <2>3. ReplaysOK(replay') /\ PendingOK(pending')
    BY TypeIs
  <2>4. registry' \in Seq(Conns \union {None})
    BY <1>2, TypeIs, AppendProperties
  <2>5. GreetsOK(greets, conn') /\ RoutesOK(routes, conn')
    BY <2>2, <2>3, StreamsTypes
  <2>6. GreetsOK(greets', conn')
    BY <1>2, <2>1, <2>2, <2>5 DEF GreetsOK, Greets
  <2> QED
    BY <2>2, <2>3, <2>4, <2>5, <2>6, ReturnTypes
<1> QED
  BY <1>1, <1>2, AuthIs

\* The lookup of a heartbeat returns: the record, and a heartbeat frame.
LEMMA BeatIs ==
    ASSUME TypeOK, NEW i, NEW l, Returns(i, l), l.kind = "beat",
           NEW outcome, BeatResumed(l, outcome)
    PROVE  \E r2, st, st2 :
             /\ r2 \in Connection
             /\ l.conn \in Conns /\ Renewed(conn[l.conn], r2, l.snap) /\ ConnectionOK(r2)
             /\ st = [conn |-> [conn EXCEPT ![l.conn] = r2], replay |-> replay]
             /\ Typed(st)
             /\ st2 = st \/ Sending(st, st2, {l.conn}, 0)
             /\ conn' = st2.conn /\ replay' = st2.replay
<1>1. /\ conn \in [Conns -> Connection] /\ ReplaysOK(replay)
  BY TypeIs DEF ConnsOK
<1>2. /\ l.conn \in Conns /\ conn[l.conn].cred # None /\ l.snap \in Snapshot
  BY ReturnsIs DEF Valid
<1>3. PICK r \in Connection : r = conn[l.conn] /\ ConnectionOK(r)
  BY <1>1, <1>2 DEF TypeOK
<1>4. PICK r2 : r2 = IF outcome = "error" THEN CloseAndStopHeartbeat(r)
                     ELSE Refreshed(r, l.snap)
  OBVIOUS
<1>5. r2 \in Connection /\ Renewed(r, r2, l.snap)
  BY <1>2, <1>4, RenewIs
<1>6. ConnectionOK(r2) /\ Forth(r, r2)
  BY <1>2, <1>3, <1>5, RenewedIsOK
<1>7. PICK cn : cn = [conn EXCEPT ![l.conn] = r2]
  OBVIOUS
<1>8. ConnsOK(cn) /\ cn[l.conn] = r2
  <2>1. PICK c \in Conns : c = l.conn
    BY <1>2
  <2>2. Forth(conn[c], r2) /\ ConnectionOK(r2) /\ cn = [conn EXCEPT ![c] = r2]
    BY <1>3, <1>6, <1>7, <2>1
  <2>3. ConnsOK(cn)
    BY <2>2, OneChanges
  <2> QED
    BY <1>1, <2>1, <2>2, <2>3
<1>9. PICK st : st = [conn |-> cn, replay |-> replay]
  OBVIOUS
<1>10. st.conn = cn /\ st.replay = replay /\ Typed(st)
  BY <1>1, <1>8, <1>9, TypedIs
<1>11. [Now EXCEPT !.conn[l.conn] = IF outcome = "error" THEN CloseAndStopHeartbeat(@)
                                    ELSE Refreshed(@, l.snap)] = st
  BY <1>3, <1>4, <1>7, <1>9 DEF Now
<1>12. {l.conn} \subseteq Conns /\ \A c \in {l.conn} : st.conn[c].cred # None
  BY <1>2, <1>3, <1>5, <1>8, <1>10 DEF Renewed
<1>13. Sending(st, sendSequenced(st, {l.conn}, 0), {l.conn}, 0)
  BY <1>10, <1>12, SendSequencedSends
<1>14. PICK st2 : st2 = IF outcome = "ok" /\ l.snap.status = "active"
                        THEN sendSequenced(st, {l.conn}, 0) ELSE st
  OBVIOUS
<1>15. conn' = st2.conn /\ replay' = st2.replay
  BY <1>11, <1>14 DEF BeatResumed, SetStreams
<1>16. st2 = st \/ Sending(st, st2, {l.conn}, 0)
  BY <1>13, <1>14
<1> QED
  BY <1>2, <1>3, <1>5, <1>6, <1>7, <1>9, <1>10, <1>15, <1>16

\* The lookup of a heartbeat keeps the types.
LEMMA BeatTypes ==
    ASSUME TypeOK, NEW i, NEW l, Returns(i, l), l.kind = "beat",
           NEW outcome, BeatResumed(l, outcome),
           UNCHANGED <<registry, greets, routes, pending>>
    PROVE  TypeOK'
<1>1. PICK r2, st, st2 :
             /\ r2 \in Connection
             /\ l.conn \in Conns /\ Renewed(conn[l.conn], r2, l.snap) /\ ConnectionOK(r2)
             /\ st = [conn |-> [conn EXCEPT ![l.conn] = r2], replay |-> replay]
             /\ Typed(st)
             /\ st2 = st \/ Sending(st, st2, {l.conn}, 0)
             /\ conn' = st2.conn /\ replay' = st2.replay
  BY BeatIs
<1> r2 \in Connection
  BY <1>1
<1>2. Forth(conn[l.conn], r2)
  BY <1>1, ReturnsIs, RenewedIsOK DEF TypeOK
<1>3. PICK cn : cn = [conn EXCEPT ![l.conn] = r2]
  OBVIOUS
<1>4. st.conn = cn /\ st.replay = replay
  BY <1>1, <1>3
<1>5. \A c \in Conns : Forth(conn[c], cn[c])
  BY <1>1, <1>2, <1>3, OneChanges
<1>6. Progress(st, st2)
  BY <1>1, ProgressGoesOn, SendingProgresses
<1>7. ConnsOK(conn') /\ ReplaysOK(replay') /\ \A c \in Conns : Forth(cn[c], conn'[c])
  BY <1>1, <1>4, <1>6, TypedIs, GrownGoesForth DEF Progress
<1>8. \A c \in Conns : Forth(conn[c], conn'[c])
  BY <1>5, <1>7, ForthGoesOn
<1>9. /\ registry' \in Seq(Conns \union {None}) /\ PendingOK(pending')
      /\ GreetsOK(greets', conn') /\ RoutesOK(routes', conn')
  BY <1>7, <1>8, StreamsTypes, TypeIs
<1> QED
  BY <1>7, <1>8, <1>9, ReturnTypes

\* A request that was accepted, and the handler that works on it.
Accepted(r, r2, id) ==
    /\ r2.cred = r.cred /\ r2.era = r.era /\ r2.snap = r.snap /\ r2.resume = r.resume
    /\ r2.sent = r.sent /\ r2.sock = r.sock /\ r2.phase = r.phase /\ r2.asked = r.asked
    /\ r2.answered = r.answered /\ r2.inflight = r.inflight \union {id}

\* The lookup of a request returns: the connection is closed or renewed, and the
\* request answered at once or in flight.
LEMMA RequestIs ==
    ASSUME TypeOK, NEW i, NEW l, Returns(i, l), l.kind = "request",
           NEW outcome, NEW malformed, RequestResumed(l, outcome, malformed)
    PROVE  \E r1 \in Connection, r2 \in Connection :
             /\ l.conn \in Conns /\ l.arg \in Ids /\ conn' = [conn EXCEPT ![l.conn] = r2]
             /\ Renewed(conn[l.conn], r1, l.snap) /\ ConnectionOK(r2)
             /\ Forth(conn[l.conn], r2)
             /\ \/ r2 = r1 /\ routes' = routes
                \/ Responded(r1, r2, l.arg, {}) /\ routes' = routes
                \/ /\ Accepted(r1, r2, l.arg)
                   /\ routes' = routes \union {[conn |-> l.conn, cred |-> l.cred, id |-> l.arg]}
<1>1. conn \in [Conns -> Connection]
  BY TypeIs DEF ConnsOK
<1>2. /\ l.conn \in Conns /\ l.snap \in Snapshot /\ l.arg \in Ids
  BY ReturnsIs DEF Valid
<1>3. PICK r \in Connection : r = conn[l.conn] /\ ConnectionOK(r)
  BY <1>1, <1>2 DEF TypeOK
<1>4. PICK r1 : r1 = IF outcome = "error" THEN CloseAndStopHeartbeat(r)
                     ELSE Refreshed(r, l.snap)
  OBVIOUS
<1>5. r1 \in Connection /\ Renewed(r, r1, l.snap)
  BY <1>2, <1>4, RenewIs
<1>6. ConnectionOK(r1) /\ Forth(r, r1)
  BY <1>2, <1>3, <1>5, RenewedIsOK
<1>7. CASE outcome = "error" \/ l.snap.status # "active"
  <2>1. conn' = [conn EXCEPT ![l.conn] = r1] /\ routes' = routes
    BY <1>3, <1>4, <1>7 DEF RequestResumed
  <2> QED
    BY <1>2, <1>3, <1>5, <1>6, <2>1
<1>8. CASE ~(outcome = "error" \/ l.snap.status # "active") /\ malformed
  <2>1. PICK r2 : r2 = Respond(r1, l.arg)
    OBVIOUS
  <2>2. conn' = [conn EXCEPT ![l.conn] = r2] /\ routes' = routes
    BY <1>3, <1>4, <1>8, <2>1 DEF RequestResumed
  <2>3. [r1 EXCEPT !.inflight = @ \ {}] = r1
    BY <1>5 DEF Connection
  <2>4. {} \in SUBSET Ids
    OBVIOUS
  <2>5. r2 \in Connection /\ Responded(r1, r2, l.arg, {})
    BY <1>2, <1>5, <2>1, <2>3, <2>4, RespondIs
  <2>6. ConnectionOK(r2) /\ Forth(r1, r2)
    BY <1>6, <2>5, RespondedIsOK
  <2>7. Forth(r, r2)
    BY <1>6, <2>6, ForthGoesOn
  <2> QED
    BY <1>2, <1>3, <1>5, <2>2, <2>5, <2>6, <2>7
<1>9. CASE ~(outcome = "error" \/ l.snap.status # "active") /\ ~malformed
  <2>1. PICK r2 : r2 = [r1 EXCEPT !.inflight = @ \union {l.arg}]
    OBVIOUS
  <2>2. /\ conn' = [conn EXCEPT ![l.conn] = r2]
        /\ routes' = routes \union {[conn |-> l.conn, cred |-> l.cred, id |-> l.arg]}
    BY <1>3, <1>4, <1>9, <2>1 DEF RequestResumed
  <2>3. r2 \in Connection /\ Accepted(r1, r2, l.arg)
    BY <1>2, <1>5, <2>1 DEF Connection, Accepted
  <2>4. ConnectionOK(r2) /\ Forth(r1, r2)
    BY <1>6, <2>3 DEF ConnectionOK, Accepted, Forth
  <2>5. Forth(r, r2)
    BY <1>6, <2>4, ForthGoesOn
  <2> QED
    BY <1>2, <1>3, <1>5, <2>2, <2>3, <2>4, <2>5
<1> QED
  BY <1>7, <1>8, <1>9

\* One connection changes in a step that returns from a lookup.
LEMMA OneReturnTypes ==
    ASSUME TypeOK, NEW i, NEW l, Returns(i, l), NEW c \in Conns, NEW r2,
           ConnectionOK(r2), Forth(conn[c], r2), conn' = [conn EXCEPT ![c] = r2],
           UNCHANGED <<registry, replay, greets, pending>>,
           RoutesOK(routes, conn') => RoutesOK(routes', conn')
    PROVE  TypeOK'
<1>1. ConnsOK(conn') /\ \A d \in Conns : Forth(conn[d], conn'[d])
  BY OneChanges
<1>2. ReplaysOK(replay') /\ PendingOK(pending') /\ registry' \in Seq(Conns \union {None})
  BY TypeIs
<1>3. GreetsOK(greets, conn') /\ RoutesOK(routes, conn')
  BY <1>1, <1>2, StreamsTypes
<1>4. GreetsOK(greets', conn') /\ RoutesOK(routes', conn')
  BY <1>3
<1> QED
  BY <1>1, <1>2, <1>4, ReturnTypes

\* The lookup of a request keeps the types.
LEMMA RequestTypes ==
    ASSUME TypeOK, NEW i, NEW l, Returns(i, l), l.kind = "request",
           NEW outcome, NEW malformed, RequestResumed(l, outcome, malformed),
           UNCHANGED <<registry, replay, greets, pending>>
    PROVE  TypeOK'
<1>1. PICK r1 \in Connection, r2 \in Connection :
             /\ l.conn \in Conns /\ l.arg \in Ids /\ conn' = [conn EXCEPT ![l.conn] = r2]
             /\ Renewed(conn[l.conn], r1, l.snap) /\ ConnectionOK(r2)
             /\ Forth(conn[l.conn], r2)
             /\ \/ r2 = r1 /\ routes' = routes
                \/ Responded(r1, r2, l.arg, {}) /\ routes' = routes
                \/ /\ Accepted(r1, r2, l.arg)
                   /\ routes' = routes \union {[conn |-> l.conn, cred |-> l.cred, id |-> l.arg]}
  BY RequestIs
<1>2. PICK c \in Conns : c = l.conn
  BY <1>1
<1>3. Valid(l, conn, gen) /\ l.cred \in Credentials /\ conn[c].cred # None
  BY <1>2, ReturnsIs DEF Valid
<1>4. conn'[c] = r2 /\ conn' = [conn EXCEPT ![c] = r2] /\ Forth(conn[c], r2)
  BY <1>1, <1>2, TypeIs DEF ConnsOK
<1>5. r2.cred # None
  BY <1>3, <1>4 DEF Forth
<1>6. RoutesOK(routes, conn') => RoutesOK(routes', conn')
  <2>1. CASE routes' = routes
    BY <2>1
  <2>2. CASE routes' = routes \union {[conn |-> l.conn, cred |-> l.cred, id |-> l.arg]}
    BY <1>1, <1>2, <1>3, <1>4, <1>5, <2>2 DEF RoutesOK
  <2> QED
    BY <1>1, <2>1, <2>2
<1> QED
  BY <1>1, <1>4, <1>6, OneReturnTypes

\* The second lookup of a request that changed the policy returns.
LEMMA ResyncIs ==
    ASSUME TypeOK, NEW i, NEW l, Returns(i, l), l.kind = "resync",
           NEW outcome, ResyncResumed(l, outcome)
    PROVE  \E r1 \in Connection, r2 \in Connection :
             /\ l.conn \in Conns /\ l.arg \in Ids /\ conn' = [conn EXCEPT ![l.conn] = r2]
             /\ ConnectionOK(r2) /\ Forth(conn[l.conn], r2)
             /\ r1 = conn[l.conn] \/ Renewed(conn[l.conn], r1, l.snap)
             /\ \/ r2 = r1
                \/ l.arg \in r1.inflight /\ Responded(r1, r2, l.arg, {l.arg})
<1>1. conn \in [Conns -> Connection]
  BY TypeIs DEF ConnsOK
<1>2. /\ l.conn \in Conns /\ l.snap \in Snapshot /\ l.arg \in Ids
  BY ReturnsIs DEF Valid
<1>3. PICK r \in Connection : r = conn[l.conn] /\ ConnectionOK(r)
  BY <1>1, <1>2 DEF TypeOK
<1>4. PICK r1 : r1 = IF outcome = "ok" THEN [r EXCEPT !.snap = l.snap] ELSE r
  OBVIOUS
<1>5. r1 \in Connection /\ (r1 = r \/ Renewed(r, r1, l.snap))
  BY <1>2, <1>4, RenewIs
<1>6. ConnectionOK(r1) /\ Forth(r, r1)
  BY <1>2, <1>3, <1>5, RenewedIsOK DEF Forth
<1>7. PICK r2 : r2 = Answer(r1, l.arg)
  OBVIOUS
<1>8. conn' = [conn EXCEPT ![l.conn] = r2]
  BY <1>3, <1>4, <1>7 DEF ResyncResumed
<1>9. r2 = r1 \/ (l.arg \in r1.inflight /\ r2 \in Connection
                  /\ Responded(r1, r2, l.arg, {l.arg}))
  <2>1. {l.arg} \in SUBSET Ids
    BY <1>2
  <2> QED
    BY <1>2, <1>5, <1>7, <2>1, RespondIs DEF Answer, Settle
<1>10. r2 \in Connection /\ ConnectionOK(r2) /\ Forth(r, r2)
  BY <1>5, <1>6, <1>9, RespondedIsOK, ForthGoesOn
<1> QED
  BY <1>2, <1>3, <1>5, <1>8, <1>9, <1>10

\* That lookup keeps the types.
LEMMA ResyncTypes ==
    ASSUME TypeOK, NEW i, NEW l, Returns(i, l), l.kind = "resync",
           NEW outcome, ResyncResumed(l, outcome),
           UNCHANGED <<registry, replay, greets, routes, pending>>
    PROVE  TypeOK'
<1>1. PICK r2 \in Connection :
             /\ l.conn \in Conns /\ conn' = [conn EXCEPT ![l.conn] = r2]
             /\ ConnectionOK(r2) /\ Forth(conn[l.conn], r2)
  BY ResyncIs
<1>2. PICK c \in Conns : c = l.conn
  BY <1>1
<1>3. ConnectionOK(r2) /\ Forth(conn[c], r2) /\ conn' = [conn EXCEPT ![c] = r2]
  BY <1>1, <1>2
<1>4. RoutesOK(routes, conn') => RoutesOK(routes', conn')
  OBVIOUS
<1> QED
  BY <1>3, <1>4, OneReturnTypes

\* The connections an invalidation writes.
Writes(l, c) == /\ pending[l.cred].generation = l.arg
                /\ c \in Registered /\ conn[c].cred = l.cred /\ conn[c].phase = "active"

\* The lookup of an invalidation returns: the newest one writes the record; the
\* last one in flight lets the queue go.
LEMMA InvalidateIs ==
    ASSUME TypeOK, NEW i, NEW l, Returns(i, l), l.kind = "invalidate",
           NEW outcome, InvalidateResumed(l, outcome)
    PROVE  \E cn :
             /\ ConnsOK(cn) /\ \A c \in Conns : Forth(conn[c], cn[c])
             /\ \A c \in Conns : /\ Writes(l, c) => Renewed(conn[c], cn[c], l.snap)
                                 /\ ~Writes(l, c) => cn[c] = conn[c]
             /\ \/ /\ pending[l.cred].refcount - 1 > 0
                   /\ pending' = [pending EXCEPT ![l.cred].refcount =
                                    pending[l.cred].refcount - 1]
                   /\ conn' = cn /\ replay' = replay
                \/ /\ ~(pending[l.cred].refcount - 1 > 0)
                   /\ pending' = [pending EXCEPT ![l.cred] = NoInvalidation]
                   /\ \E st, st2 :
                        /\ st.conn = cn /\ st.replay = replay /\ Typed(st)
                        /\ st2 = Drained(st, l.cred, pending[l.cred].events)
                        /\ conn' = st2.conn /\ replay' = st2.replay
<1>1. /\ conn \in [Conns -> Connection] /\ ReplaysOK(replay)
      /\ \A c \in Conns : ConnectionOK(conn[c])
  BY TypeIs DEF ConnsOK
<1>2. l.snap \in Snapshot /\ l.cred \in Credentials
  BY ReturnsIs
<1>3. PICK cn : cn = [c \in Conns |->
                        IF Writes(l, c)
                        THEN IF outcome = "error" THEN CloseAndStopHeartbeat(conn[c])
                             ELSE Refreshed(conn[c], l.snap)
                        ELSE conn[c]]
  OBVIOUS
<1>4. ASSUME NEW c \in Conns
      PROVE  /\ cn[c] \in Connection /\ ConnectionOK(cn[c]) /\ Forth(conn[c], cn[c])
             /\ Writes(l, c) => Renewed(conn[c], cn[c], l.snap)
             /\ ~Writes(l, c) => cn[c] = conn[c]
  <2>1. PICK r \in Connection : r = conn[c] /\ ConnectionOK(r)
    BY <1>1
  <2>2. CASE Writes(l, c)
    <3>1. PICK r2 : r2 = IF outcome = "error" THEN CloseAndStopHeartbeat(r)
                         ELSE Refreshed(r, l.snap)
      OBVIOUS
    <3>2. cn[c] = r2
      BY <1>3, <2>1, <2>2, <3>1
    <3>3. r2 \in Connection /\ Renewed(r, r2, l.snap)
      BY <1>2, <3>1, RenewIs
    <3>4. ConnectionOK(r2) /\ Forth(r, r2)
      BY <1>2, <2>1, <3>3, RenewedIsOK
    <3> QED
      BY <2>1, <2>2, <3>2, <3>3, <3>4
  <2>3. CASE ~Writes(l, c)
    <3>1. cn[c] = conn[c]
      BY <1>3, <2>3
    <3> QED
      BY <2>1, <2>3, <3>1 DEF Forth
  <2> QED
    BY <2>2, <2>3
<1>5. ConnsOK(cn)
  BY <1>3, <1>4 DEF ConnsOK
<1>6. PICK st : st = [conn |-> cn, replay |-> replay]
  OBVIOUS
<1>7. st.conn = cn /\ st.replay = replay /\ Typed(st)
  BY <1>1, <1>5, <1>6, TypedIs
<1>8. [c \in Conns |->
         IF /\ pending[l.cred].generation = l.arg
            /\ c \in getByCredentialId(Now, l.cred) /\ conn[c].phase = "active"
         THEN IF outcome = "error" THEN CloseAndStopHeartbeat(conn[c])
              ELSE Refreshed(conn[c], l.snap)
         ELSE conn[c]] = cn
  <2>1. Now.conn = conn
    BY NowIsTyped
  <2>2. ASSUME NEW c \in Conns
        PROVE  (/\ pending[l.cred].generation = l.arg
                /\ c \in getByCredentialId(Now, l.cred) /\ conn[c].phase = "active")
               <=> Writes(l, c)
    BY <2>1 DEF Writes, getByCredentialId
  <2> QED
    BY <1>3, <2>2, Zenon
<1>9. CASE pending[l.cred].refcount - 1 > 0
  <2>1. /\ pending' = [pending EXCEPT ![l.cred].refcount = pending[l.cred].refcount - 1]
        /\ conn' = cn /\ replay' = replay
    BY <1>6, <1>7, <1>8, <1>9 DEF InvalidateResumed, Released, SetStreams
  <2> QED
    BY <1>4, <1>5, <1>9, <2>1
<1>10. CASE ~(pending[l.cred].refcount - 1 > 0)
  <2>1. PICK st2 : st2 = Drained(st, l.cred, pending[l.cred].events)
    OBVIOUS
  <2>2. /\ pending' = [pending EXCEPT ![l.cred] = NoInvalidation]
        /\ conn' = st2.conn /\ replay' = st2.replay
    BY <1>6, <1>8, <1>10, <2>1 DEF InvalidateResumed, Released, SetStreams
  <2> QED
    BY <1>4, <1>5, <1>7, <1>10, <2>1, <2>2
<1> QED
  BY <1>9, <1>10

\* An invalidation that returns keeps the types.
LEMMA InvalidateTypes ==
    ASSUME TypeOK, NEW i, NEW l, Returns(i, l), l.kind = "invalidate",
           NEW outcome, InvalidateResumed(l, outcome), UNCHANGED <<registry, greets, routes>>
    PROVE  TypeOK'
<1>1. PICK cn :
             /\ ConnsOK(cn) /\ \A c \in Conns : Forth(conn[c], cn[c])
             /\ \/ /\ pending[l.cred].refcount - 1 > 0
                   /\ pending' = [pending EXCEPT ![l.cred].refcount =
                                    pending[l.cred].refcount - 1]
                   /\ conn' = cn /\ replay' = replay
                \/ /\ pending' = [pending EXCEPT ![l.cred] = NoInvalidation]
                   /\ \E st, st2 :
                        /\ st.conn = cn /\ st.replay = replay /\ Typed(st)
                        /\ st2 = Drained(st, l.cred, pending[l.cred].events)
                        /\ conn' = st2.conn /\ replay' = st2.replay
  BY InvalidateIs
<1>2. l.cred \in Credentials
  BY ReturnsIs
<1>3. /\ PendingOK(pending) /\ pending[l.cred].refcount \in Nat
      /\ pending[l.cred].events \in Seq(Nat)
  BY <1>2, TypeIs DEF PendingOK
<1>4. PendingOK(pending')
  <2>1. CASE /\ pending[l.cred].refcount - 1 > 0
             /\ pending' = [pending EXCEPT ![l.cred].refcount =
                              pending[l.cred].refcount - 1]
    <3>1. pending[l.cred].refcount - 1 \in Nat
      BY <1>3, <2>1
    <3> QED
      BY <1>2, <1>3, <2>1, <3>1 DEF PendingOK
  <2>2. CASE pending' = [pending EXCEPT ![l.cred] = NoInvalidation]
    <3>1. NoInvalidation \in [refcount : Nat, generation : Nat, events : Seq(Nat)]
      BY DEF NoInvalidation
    <3> QED
      BY <1>2, <1>3, <2>2, <3>1 DEF PendingOK
  <2> QED
    BY <1>1, <2>1, <2>2
<1>5. ConnsOK(conn') /\ ReplaysOK(replay') /\ \A c \in Conns : Forth(conn[c], conn'[c])
  <2>1. CASE conn' = cn /\ replay' = replay
    BY <1>1, <2>1, TypeIs
  <2>2. ASSUME NEW st, NEW st2,
               /\ st.conn = cn /\ st.replay = replay /\ Typed(st)
               /\ st2 = Drained(st, l.cred, pending[l.cred].events)
               /\ conn' = st2.conn /\ replay' = st2.replay
        PROVE  ConnsOK(conn') /\ ReplaysOK(replay') /\ \A c \in Conns : Forth(conn[c], conn'[c])
    <3>1. registry \in Seq(Conns \union {None})
      BY TypeIs
    <3>2. Progress(st, st2)
      BY <1>2, <1>3, <2>2, <3>1, DrainedProgresses
    <3>3. ConnsOK(conn') /\ ReplaysOK(replay')
      BY <2>2, <3>2, TypedIs DEF Progress
    <3>4. \A c \in Conns : Forth(cn[c], conn'[c])
      BY <2>2, <3>2, GrownGoesForth DEF Progress
    <3> QED
      BY <1>1, <3>3, <3>4, ForthGoesOn
  <2> QED
    BY <1>1, <2>1, <2>2
<1>6. /\ registry' \in Seq(Conns \union {None})
      /\ GreetsOK(greets', conn') /\ RoutesOK(routes', conn')
  BY <1>5, StreamsTypes, TypeIs
<1> QED
  BY <1>4, <1>5, <1>6, ReturnTypes

(***************************************************************************)
(* The steps, by what they do to the connections and to what is in flight. *)
(***************************************************************************)
Resumes(l, outcome, malformed) ==
    \/ /\ l.kind = "auth" /\ AuthResumed(l, outcome)
       /\ UNCHANGED <<replay, routes, pending>>
    \/ /\ l.kind = "beat" /\ BeatResumed(l, outcome)
       /\ UNCHANGED <<registry, greets, routes, pending>>
    \/ /\ l.kind = "request" /\ RequestResumed(l, outcome, malformed)
       /\ UNCHANGED <<registry, replay, greets, pending>>
    \/ /\ l.kind = "resync" /\ ResyncResumed(l, outcome)
       /\ UNCHANGED <<registry, replay, greets, routes, pending>>
    \/ /\ l.kind = "invalidate" /\ InvalidateResumed(l, outcome)
       /\ UNCHANGED <<registry, greets, routes>>

Settling == /\ SettlesOnly
            /\ conn' = conn \/ \E c \in Conns, id \in Ids : Settles(c, id)

Calling == AllKept /\ \E l : Calls(l) /\ l.kind \in {"auth", "beat", "resync"}

Step ==
    \/ Quiet
    \/ Calling
    \/ \E c \in Conns, id \in Ids : Asks(c, id)
    \/ Settling
    \/ \E g \in greets : Greet(g)
    \/ \E k \in Credentials : Broadcast(k)
    \/ \E k \in Credentials : \E l : Invalidates(l, k)
    \/ StopBegin
    \/ \E i, l, outcome, malformed : Returns(i, l) /\ Resumes(l, outcome, malformed)

\* A lookup is answered: in order, when lookups are.
LEMMA ResumeIs ==
    ASSUME NEW i, NEW outcome, NEW malformed, Resume(i, outcome, malformed)
    PROVE  Returns(i, lookups[i]) /\ Resumes(lookups[i], outcome, malformed)
           /\ (InOrder => i = 1)
BY DEF Resume, Answerable, Returns, Resumes

\* What the actions are, a lookup that is answered left as it is.
LEMMA NextIs ==
    ASSUME TypeOK, Next
    PROVE  \/ Quiet \/ Calling \/ Settling \/ StopBegin \/ ResumeSome
           \/ \E g \in greets : Greet(g)
           \/ \E k \in Credentials : Broadcast(k)
           \/ \E k \in Credentials : \E l : Invalidates(l, k)
           \/ \E c \in Conns, id \in Ids : Asks(c, id)
<1>1. Start \/ StopFinish \/ (\E d \in BOOLEAN : StopClose(d)) => Quiet
  BY QuietSteps
<1>2. \A c \in Conns : \/ Open(c) \/ AuthTimeout(c) \/ Hangup(c) \/ CloseCallback(c)
                       \/ Fill(c) \/ Drain(c) \/ HeartbeatDead(c)
                       => Quiet
  BY QuietSteps
<1>3. \A c \in Conns : /\ HeartbeatTick(c) => Calling
                       /\ \A k \in Credentials : \A n \in LastSeen(k) :
                            AuthFrame(c, k, n) => Calling
  BY CallingSteps DEF Calling
<1>4. \A c \in Conns, id \in Ids : /\ RequestFrame(c, id) => Asks(c, id)
                                   /\ RequestTimeout(c, id) => Settling
  BY CallingSteps, SettlingSteps DEF Settling
<1>5. \A q \in routes, mutating \in BOOLEAN : RouteReturned(q, mutating) => Calling \/ Settling
  BY CallingSteps, SettlingSteps DEF Calling, Settling
<1>6. \A k \in Credentials, status \in {"active", "revoked"} :
         Mutate(k, status) => \E l : Invalidates(l, k)
  BY MutateIs
<1> QED
  BY <1>1, <1>2, <1>3, <1>4, <1>5, <1>6 DEF Next

\* Every step is one of these.
LEMMA NextIsStep ==
    ASSUME TypeOK, Next
    PROVE  Step
<1>1. ASSUME ResumeSome
      PROVE  \E i, l, outcome, malformed : Returns(i, l) /\ Resumes(l, outcome, malformed)
  <2>1. PICK i, outcome, malformed : Resume(i, outcome, malformed)
    BY <1>1 DEF ResumeSome
  <2> QED
    BY <2>1, ResumeIs
<1> QED
  BY <1>1, NextIs DEF Step

\* Every step keeps the types.
LEMMA StepTypes ==
    ASSUME TypeOK, Step
    PROVE  TypeOK'
<1>1. CASE Quiet
  BY <1>1, QuietTypes
<1>2. CASE Calling
  BY <1>2, KeptIsOK, CallTypes DEF Calling
<1>3. CASE \E c \in Conns, id \in Ids : Asks(c, id)
  BY <1>3, AskTypes
<1>4. CASE Settling
  BY <1>4, SettleTypes DEF Settling
<1>5. CASE \E g \in greets : Greet(g)
  BY <1>5, GreetTypes
<1>6. CASE \E k \in Credentials : Broadcast(k)
  BY <1>6, BroadcastTypes
<1>7. CASE \E k \in Credentials : \E l : Invalidates(l, k)
  BY <1>7, MutateTypes
<1>8. CASE StopBegin
  BY <1>8, StopBeginTypes
<1>9. ASSUME NEW i, NEW l, NEW outcome, NEW malformed,
             Returns(i, l), Resumes(l, outcome, malformed)
      PROVE  TypeOK'
  BY <1>9, AuthTypes, BeatTypes, RequestTypes, ResyncTypes, InvalidateTypes DEF Resumes
<1> QED
  BY <1>1, <1>2, <1>3, <1>4, <1>5, <1>6, <1>7, <1>8, <1>9 DEF Step

\* The initial state is typed.
LEMMA InitTypes == Init => TypeOK
<1> SUFFICES ASSUME Init PROVE TypeOK
  OBVIOUS
<1>1. FreshConnection \in Connection /\ ConnectionOK(FreshConnection)
  <2>1. 0 \in 0..HardLimit /\ <<>> \in Seq(Frame) /\ [i \in Ids |-> 0] \in [Ids -> Nat]
    BY SizesAssumption
  <2>2. FreshConnection \in Connection
    BY <2>1 DEF FreshConnection, Connection, Eras
  <2> QED
    BY <2>2 DEF FreshConnection, ConnectionOK
<1>2. ConnsOK(conn)
  BY <1>1 DEF Init, ConnsOK
<1>3. ReplayOK(FreshReplay)
  <2>1. FreshReplay.next = 1 /\ FreshReplay.buffer = <<>>
    BY DEF FreshReplay
  <2>2. Len(FreshReplay.buffer) = 0 /\ DOMAIN FreshReplay.buffer = {}
    BY <2>1
  <2>3. FreshReplay \in [next : Nat \ {0}, buffer : Seq(Nat)]
    BY DEF FreshReplay
  <2> QED
    BY <2>1, <2>2, <2>3, SizesAssumption DEF ReplayOK
<1>4. ReplaysOK(replay)
  BY <1>3 DEF Init, ReplaysOK
<1>5. PolicyOK(policy)
  <2>1. 1 \in 1..(MaxVersion + 1)
    BY SizesAssumption
  <2> QED
    BY <2>1 DEF Init, PolicyOK, Snapshot
<1>6. PendingOK(pending)
  BY DEF Init, PendingOK, NoInvalidation
<1>7. /\ LookupsOK(lookups, conn, gen) /\ GreetsOK(greets, conn) /\ RoutesOK(routes, conn)
      /\ registry \in Seq(Conns \union {None}) /\ at \in Seq(Nat)
  BY DEF Init, LookupsOK, GreetsOK, RoutesOK
<1>8. ServerOK(server) /\ gen \in Nat /\ remaining \subseteq Conns
  BY DEF Init, ServerOK
<1> QED
  BY <1>2, <1>4, <1>5, <1>6, <1>7, <1>8, TypeIs

\* A step that changes nothing keeps the types.
LEMMA TypeInductive == TypeOK /\ [Next]_vars => TypeOK'
<1>1. ASSUME TypeOK, Next
      PROVE  TypeOK'
  BY <1>1, NextIsStep, StepTypes
<1>2. ASSUME TypeOK, UNCHANGED vars
      PROVE  TypeOK'
  BY <1>2, TypeIs, TypeIsNext DEF vars
<1> QED
  BY <1>1, <1>2

\* In every state the server's tables have their types, a connection that is up
\* has a credential and a record, and a replay buffer holds the last frames of
\* its stream without a gap.
THEOREM WsTypeCorrect == Spec => []TypeOK
<1>1. Init => TypeOK
  BY InitTypes
<1>2. TypeOK /\ [Next]_vars => TypeOK'
  BY TypeInductive
<1> QED
  BY <1>1, <1>2, PTL DEF Spec

(***************************************************************************)
(* Answers: at most one to a request.  A request that waits for its lookup *)
(* is neither answered nor in flight, and waits once; one that is in       *)
(* flight is not answered.                                                 *)
(***************************************************************************)
AskedOK(r) ==
    \A id \in Ids : /\ r.answered[id] <= 1
                    /\ r.answered[id] > 0 => id \in r.asked
                    /\ id \in r.inflight => id \in r.asked /\ r.answered[id] = 0

Waits(l, cn) ==
    l.kind = "request" => /\ l.arg \in cn[l.conn].asked
                          /\ cn[l.conn].answered[l.arg] = 0
                          /\ l.arg \notin cn[l.conn].inflight

Twice(l, m) ==
    l.kind = "request" /\ m.kind = "request" /\ l.conn = m.conn /\ l.arg = m.arg

WaitingOK(lk, cn) ==
    /\ \A i \in DOMAIN lk : Waits(lk[i], cn)
    /\ \A i \in DOMAIN lk : \A j \in DOMAIN lk : i # j => ~Twice(lk[i], lk[j])

AskedAll(cn) == \A c \in Conns : AskedOK(cn[c])

AskInv == AskedAll(conn) /\ WaitingOK(lookups, conn)

\* A step that neither asks nor answers.
SameAnswers(r, r2) ==
    r2.asked = r.asked /\ r2.answered = r.answered /\ r2.inflight \subseteq r.inflight

\* Nothing is answered, and the lookups in flight stay.
LEMMA AnswersStay ==
    ASSUME NEW cn, NEW cn2, \A c \in Conns : SameAnswers(cn[c], cn2[c])
    PROVE  /\ AskedAll(cn) => AskedAll(cn2)
           /\ \A l : (l.kind = "request" => l.conn \in Conns) /\ Waits(l, cn) => Waits(l, cn2)
<1>1. ASSUME AskedAll(cn) PROVE AskedAll(cn2)
  BY <1>1 DEF AskedAll, AskedOK, SameAnswers
<1>2. ASSUME NEW l, l.kind = "request" => l.conn \in Conns, Waits(l, cn)
      PROVE  Waits(l, cn2)
  <2>1. SUFFICES ASSUME l.kind = "request" PROVE Waits(l, cn2)
    BY DEF Waits
  <2>2. SameAnswers(cn[l.conn], cn2[l.conn])
    BY <1>2, <2>1
  <2> QED
    BY <1>2, <2>1, <2>2 DEF Waits, SameAnswers
<1> QED
  BY <1>1, <1>2

\* The connections a lookup of a request is for.
LEMMA RequestOf ==
    ASSUME TypeOK, NEW i \in DOMAIN lookups
    PROVE  lookups[i].kind = "request" => lookups[i].conn \in Conns /\ lookups[i].arg \in Ids
BY TypeIs DEF LookupsOK, Valid

\* One request less waits.
LEMMA RemovedWaits ==
    ASSUME TypeOK, NEW i \in DOMAIN lookups, NEW cn,
           \A j \in DOMAIN lookups : j # i => Waits(lookups[j], cn),
           WaitingOK(lookups, conn)
    PROVE  WaitingOK(RemoveAt(lookups, i), cn)
<1>1. PICK q : q = RemoveAt(lookups, i)
  OBVIOUS
<1>2. LookupsOK(lookups, conn, gen)
  BY TypeIs
<1>3. /\ DOMAIN q \subseteq Nat /\ i \in Nat
      /\ \A j \in DOMAIN q : /\ Former(i, j) \in DOMAIN lookups \ {i}
                             /\ q[j] = lookups[Former(i, j)]
  BY <1>1, <1>2, LookupReturns
<1>4. \A j \in DOMAIN q : \A m \in DOMAIN q : j # m => Former(i, j) # Former(i, m)
  BY <1>3 DEF Former
<1>5. \A j \in DOMAIN q : Waits(q[j], cn)
  BY <1>3
<1>6. \A j \in DOMAIN q : \A m \in DOMAIN q : j # m => ~Twice(q[j], q[m])
  BY <1>3, <1>4 DEF WaitingOK
<1> QED
  BY <1>1, <1>5, <1>6 DEF WaitingOK

\* One lookup more.
LEMMA LookupAdded ==
    ASSUME TypeOK, NEW l \in Lookup, lookups' = Append(lookups, l)
    PROVE  /\ DOMAIN lookups' = DOMAIN lookups \union {Len(lookups) + 1}
           /\ lookups'[Len(lookups) + 1] = l /\ Len(lookups) + 1 \notin DOMAIN lookups
           /\ \A i \in DOMAIN lookups : lookups'[i] = lookups[i]
<1>1. lookups \in Seq(Lookup)
  BY TypeIs DEF LookupsOK
<1>2. /\ lookups' \in Seq(Lookup) /\ Len(lookups') = Len(lookups) + 1
      /\ \A i \in 1..Len(lookups) : lookups'[i] = lookups[i]
      /\ lookups'[Len(lookups) + 1] = l
  BY <1>1, AppendProperties
<1>3. /\ Len(lookups) \in Nat /\ DOMAIN lookups = 1..Len(lookups)
      /\ DOMAIN lookups' = 1..(Len(lookups) + 1)
  BY <1>1, <1>2, LenProperties
<1>4. 1..(Len(lookups) + 1) = (1..Len(lookups)) \union {Len(lookups) + 1}
      /\ Len(lookups) + 1 \notin 1..Len(lookups)
  BY <1>3
<1> QED
  BY <1>2, <1>3, <1>4

\* The lookups in flight stay, and one that is not a request's is added.
LEMMA WaitingStays ==
    ASSUME TypeOK, AskInv, \A c \in Conns : SameAnswers(conn[c], conn'[c]),
           \/ lookups' = lookups
           \/ \E l \in Lookup : l.kind # "request" /\ lookups' = Append(lookups, l)
           \/ \E i \in DOMAIN lookups : lookups' = RemoveAt(lookups, i)
    PROVE  AskInv'
<1>1. AskedAll(conn')
  BY AnswersStay DEF AskInv
<1>2. \A i \in DOMAIN lookups : Waits(lookups[i], conn')
  BY RequestOf, AnswersStay DEF AskInv, WaitingOK
<1>4. CASE lookups' = lookups
  BY <1>1, <1>2, <1>4 DEF AskInv, WaitingOK
<1>5. ASSUME NEW l \in Lookup, l.kind # "request", lookups' = Append(lookups, l)
      PROVE  WaitingOK(lookups', conn')
  <2>1. /\ DOMAIN lookups' = DOMAIN lookups \union {Len(lookups) + 1}
        /\ lookups'[Len(lookups) + 1] = l /\ Len(lookups) + 1 \notin DOMAIN lookups
        /\ \A i \in DOMAIN lookups : lookups'[i] = lookups[i]
    BY <1>5, LookupAdded
  <2>2. PICK n : n = Len(lookups) + 1
    OBVIOUS
  <2>3. Waits(l, conn') /\ \A m : ~Twice(l, m) /\ ~Twice(m, l)
    BY <1>5 DEF Waits, Twice
  <2>4. \A i \in DOMAIN lookups' : Waits(lookups'[i], conn')
    BY <1>2, <2>1, <2>2, <2>3
  <2>5. \A i \in DOMAIN lookups' : \A j \in DOMAIN lookups' :
           i # j => ~Twice(lookups'[i], lookups'[j])
    BY <2>1, <2>2, <2>3 DEF AskInv, WaitingOK
  <2> QED
    BY <2>4, <2>5 DEF WaitingOK
<1>6. ASSUME NEW i \in DOMAIN lookups, lookups' = RemoveAt(lookups, i)
      PROVE  WaitingOK(lookups', conn')
  BY <1>2, <1>6, RemovedWaits DEF AskInv
<1> QED
  BY <1>1, <1>4, <1>5, <1>6 DEF AskInv

\* Steps that keep, renew, welcome, bring up or send neither ask nor answer.
LEMMA SameAnswersIs ==
    ASSUME NEW r, NEW r2
    PROVE  /\ Same(r, r2) => SameAnswers(r, r2)
           /\ \A snap : Renewed(r, r2, snap) => SameAnswers(r, r2)
           /\ \A g : Welcomed(r, r2, g) => SameAnswers(r, r2)
           /\ \A l, era : Entered(r, r2, l, era) => SameAnswers(r, r2)
           /\ \A r3 : SameAnswers(r, r2) /\ SameAnswers(r2, r3) => SameAnswers(r, r3)
           /\ SameAnswers(r, r)
BY DEF Same, Renewed, Welcomed, Entered, SameAnswers

\* A request is asked.
LEMMA AskAsks ==
    ASSUME TypeOK, AskInv, NEW c \in Conns, NEW id \in Ids, Asks(c, id)
    PROVE  AskInv'
<1>1. /\ \A d \in Conns \ {c} : conn'[d] = conn[d]
      /\ conn'[c] = [conn[c] EXCEPT !.asked = @ \union {id}]
  BY AskTypes
<1>2. conn[c] \in Connection /\ id \notin conn[c].asked
  BY DEF TypeOK, Asks
<1>3. /\ conn'[c].asked = conn[c].asked \union {id} /\ conn'[c].answered = conn[c].answered
      /\ conn'[c].inflight = conn[c].inflight
  <2>1. PICK r \in Connection : r = conn[c]
    BY <1>2
  <2>2. PICK r2 : r2 = [r EXCEPT !.asked = r.asked \union {id}]
    OBVIOUS
  <2>3. r2.asked = r.asked \union {id} /\ r2.answered = r.answered /\ r2.inflight = r.inflight
    BY <2>2 DEF Connection
  <2>4. conn'[c] = r2
    BY <1>1, <2>1, <2>2
  <2> QED
    BY <2>1, <2>3, <2>4
<1>4. AskedAll(conn')
  <2>1. AskedOK(conn[c])
    BY DEF AskInv, AskedAll
  <2>2. AskedOK(conn'[c])
    BY <1>3, <2>1 DEF AskedOK
  <2>3. \A d \in Conns \ {c} : AskedOK(conn'[d])
    BY <1>1 DEF AskInv, AskedAll
  <2> QED
    BY <2>2, <2>3 DEF AskedAll
<1>5. \A i \in DOMAIN lookups : Waits(lookups[i], conn')
  BY <1>1, <1>3, RequestOf, ZenonT(60) DEF AskInv, WaitingOK, Waits
<1>6. PICK l : Valid(l, conn, gen) /\ lookups' = Append(lookups, l)
               /\ l.kind = "request" /\ l.conn = c /\ l.arg = id
  BY DEF Asks, Calls
<1>7. Waits(l, conn')
  <2>1. id \in conn'[c].asked /\ conn'[c].answered[id] = 0 /\ id \notin conn'[c].inflight
    <3>1. conn[c].answered[id] \in Nat
      BY <1>2 DEF Connection
    <3>2. ~(conn[c].answered[id] > 0) /\ id \notin conn[c].inflight
      BY <1>2 DEF AskInv, AskedAll, AskedOK
    <3> QED
      BY <1>3, <3>1, <3>2
  <2> QED
    BY <1>6, <2>1 DEF Waits
<1>8. \A i \in DOMAIN lookups : ~Twice(lookups[i], l) /\ ~Twice(l, lookups[i])
  BY <1>2, <1>6 DEF AskInv, WaitingOK, Waits, Twice
<1>9. LookupsOK(lookups, conn, gen)
  BY TypeIs
<1>10. /\ DOMAIN lookups' = DOMAIN lookups \union {Len(lookups) + 1}
       /\ lookups'[Len(lookups) + 1] = l /\ Len(lookups) + 1 \notin DOMAIN lookups
       /\ \A i \in DOMAIN lookups : lookups'[i] = lookups[i]
  BY <1>6, <1>9, LookupStarts
<1>11. PICK n : n = Len(lookups) + 1
  OBVIOUS
<1>12. \A i \in DOMAIN lookups' : Waits(lookups'[i], conn')
  BY <1>5, <1>7, <1>10, <1>11
<1>13. \A i \in DOMAIN lookups' : \A j \in DOMAIN lookups' :
          i # j => ~Twice(lookups'[i], lookups'[j])
  BY <1>8, <1>10, <1>11 DEF AskInv, WaitingOK
<1> QED
  BY <1>4, <1>12, <1>13 DEF AskInv, WaitingOK

\* A request in flight is answered.
LEMMA AskSettles ==
    ASSUME TypeOK, AskInv, NEW c \in Conns, NEW id \in Ids, Settles(c, id),
           lookups' = lookups
    PROVE  AskInv'
<1>1. PICK r2 \in Connection : conn' = [conn EXCEPT ![c] = r2]
                               /\ Responded(conn[c], r2, id, {id})
  BY DEF Settles
<1>2. conn \in [Conns -> Connection] /\ id \in conn[c].inflight
  BY TypeIs DEF ConnsOK, Settles
<1>3. AskedOK(conn[c]) /\ conn[c].answered \in [Ids -> Nat]
  BY <1>2 DEF AskInv, AskedAll, Connection
<1>4. AskedOK(r2) /\ r2.asked = conn[c].asked /\ r2.inflight = conn[c].inflight \ {id}
      /\ \A j \in Ids \ {id} : r2.answered[j] = conn[c].answered[j]
  BY <1>1, <1>2, <1>3 DEF AskedOK, Responded
<1>5. AskedAll(conn')
  BY <1>1, <1>2, <1>4 DEF AskInv, AskedAll
<1>6. ASSUME NEW i \in DOMAIN lookups
      PROVE  Waits(lookups[i], conn')
  <2>1. SUFFICES ASSUME lookups[i].kind = "request", lookups[i].conn = c
                 PROVE  Waits(lookups[i], conn')
    BY <1>1, <1>2, RequestOf DEF AskInv, WaitingOK, Waits
  <2>2. lookups[i].arg \in Ids /\ Waits(lookups[i], conn)
    BY <2>1, RequestOf DEF AskInv, WaitingOK
  <2>3. lookups[i].arg # id
    BY <1>2, <2>1, <2>2 DEF Waits
  <2>4. conn'[c] = r2
    BY <1>1, <1>2
  <2> QED
    BY <1>4, <2>1, <2>2, <2>3, <2>4 DEF Waits
<1> QED
  BY <1>5, <1>6 DEF AskInv, WaitingOK

\* The lookup of a request returns: its connection is renewed, and the request is
\* answered at once or in flight.
LEMMA AskRequest ==
    ASSUME TypeOK, AskInv, NEW i, NEW l, Returns(i, l), l.kind = "request",
           NEW outcome, NEW malformed, RequestResumed(l, outcome, malformed)
    PROVE  AskInv'
<1>1. PICK r1 \in Connection, r2 \in Connection :
             /\ l.conn \in Conns /\ l.arg \in Ids /\ conn' = [conn EXCEPT ![l.conn] = r2]
             /\ Renewed(conn[l.conn], r1, l.snap)
             /\ \/ r2 = r1
                \/ Responded(r1, r2, l.arg, {})
                \/ Accepted(r1, r2, l.arg)
  BY RequestIs
<1>2. PICK c \in Conns, id \in Ids : c = l.conn /\ id = l.arg
  BY <1>1
<1>3. /\ conn \in [Conns -> Connection] /\ AskedOK(conn[c])
      /\ conn' = [conn EXCEPT ![c] = r2] /\ Renewed(conn[c], r1, l.snap)
  BY <1>1, <1>2, TypeIs DEF ConnsOK, AskInv, AskedAll
<1>4. /\ id \in r1.asked /\ r1.answered[id] = 0 /\ id \notin r1.inflight /\ AskedOK(r1)
      /\ r1.asked = conn[c].asked /\ r1.answered = conn[c].answered
      /\ r1.inflight = conn[c].inflight
  <2>1. Waits(l, conn)
    BY DEF AskInv, WaitingOK, Returns
  <2> QED
    BY <1>2, <1>3, <2>1 DEF Waits, Renewed, AskedOK
<1>5. /\ AskedOK(r2) /\ r2.asked = r1.asked
      /\ \A j \in Ids \ {id} : r2.answered[j] = r1.answered[j]
                               /\ (j \in r2.inflight <=> j \in r1.inflight)
  <2>1. r1.answered \in [Ids -> Nat]
    BY DEF Connection
  <2>2. CASE r2 = r1
    BY <1>4, <2>2
  <2>3. CASE Responded(r1, r2, id, {})
    BY <1>4, <2>1, <2>3 DEF AskedOK, Responded
  <2>4. CASE Accepted(r1, r2, id)
    BY <1>4, <2>1, <2>4 DEF AskedOK, Accepted
  <2> QED
    BY <1>1, <1>2, <2>2, <2>3, <2>4
<1>6. AskedAll(conn')
  BY <1>3, <1>5 DEF AskInv, AskedAll
<1>7. ASSUME NEW j \in DOMAIN lookups, j # i
      PROVE  Waits(lookups[j], conn')
  <2>1. SUFFICES ASSUME lookups[j].kind = "request", lookups[j].conn = c
                 PROVE  Waits(lookups[j], conn')
    BY <1>3, RequestOf DEF AskInv, WaitingOK, Waits
  <2>2. lookups[j].arg \in Ids /\ Waits(lookups[j], conn)
    BY <2>1, RequestOf DEF AskInv, WaitingOK
  <2>3. ~Twice(lookups[j], l)
    BY <1>7 DEF AskInv, WaitingOK, Returns
  <2>4. lookups[j].arg # id /\ conn'[c] = r2
    BY <1>2, <1>3, <2>1, <2>3 DEF Twice
  <2> QED
    BY <1>4, <1>5, <2>1, <2>2, <2>4 DEF Waits
<1>8. WaitingOK(lookups', conn')
  BY <1>7, RemovedWaits DEF AskInv, Returns
<1> QED
  BY <1>6, <1>8 DEF AskInv

\* The second lookup of a request returns: the answer goes out if the request is
\* still in flight.
LEMMA AskResync ==
    ASSUME TypeOK, AskInv, NEW i, NEW l, Returns(i, l), l.kind = "resync",
           NEW outcome, ResyncResumed(l, outcome)
    PROVE  AskInv'
<1>1. PICK r1 \in Connection, r2 \in Connection :
             /\ l.conn \in Conns /\ l.arg \in Ids /\ conn' = [conn EXCEPT ![l.conn] = r2]
             /\ r1 = conn[l.conn] \/ Renewed(conn[l.conn], r1, l.snap)
             /\ \/ r2 = r1
                \/ l.arg \in r1.inflight /\ Responded(r1, r2, l.arg, {l.arg})
  BY ResyncIs
<1>2. PICK c \in Conns, id \in Ids : c = l.conn /\ id = l.arg
  BY <1>1
<1>3. /\ conn \in [Conns -> Connection] /\ AskedOK(conn[c])
      /\ conn' = [conn EXCEPT ![c] = r2]
      /\ r1 = conn[c] \/ Renewed(conn[c], r1, l.snap)
  BY <1>1, <1>2, TypeIs DEF ConnsOK, AskInv, AskedAll
<1>4. /\ AskedOK(r1) /\ r1.asked = conn[c].asked /\ r1.answered = conn[c].answered
      /\ r1.inflight = conn[c].inflight
  BY <1>3 DEF Renewed, AskedOK
<1>5. /\ AskedOK(r2) /\ r2.asked = r1.asked /\ r2.inflight \subseteq r1.inflight
      /\ \A j \in Ids : j \notin r1.inflight => r2.answered[j] = r1.answered[j]
  <2>1. r1.answered \in [Ids -> Nat]
    BY DEF Connection
  <2>2. CASE r2 = r1
    BY <1>4, <2>2
  <2>3. CASE id \in r1.inflight /\ Responded(r1, r2, id, {id})
    BY <1>4, <2>1, <2>3 DEF AskedOK, Responded
  <2> QED
    BY <1>1, <1>2, <2>2, <2>3
<1>6. AskedAll(conn')
  BY <1>3, <1>5 DEF AskInv, AskedAll
<1>7. ASSUME NEW j \in DOMAIN lookups
      PROVE  Waits(lookups[j], conn')
  <2>1. SUFFICES ASSUME lookups[j].kind = "request", lookups[j].conn = c
                 PROVE  Waits(lookups[j], conn')
    BY <1>3, RequestOf DEF AskInv, WaitingOK, Waits
  <2>2. lookups[j].arg \in Ids /\ Waits(lookups[j], conn)
    BY <2>1, RequestOf DEF AskInv, WaitingOK
  <2>3. conn'[c] = r2
    BY <1>3
  <2> QED
    BY <1>4, <1>5, <2>1, <2>2, <2>3 DEF Waits
<1>8. WaitingOK(lookups', conn')
  BY <1>7, RemovedWaits DEF AskInv, Returns
<1> QED
  BY <1>6, <1>8 DEF AskInv

\* Sending neither asks nor answers.
LEMMA ProgressAnswers ==
    ASSUME NEW st, NEW st2, Progress(st, st2)
    PROVE  \A c \in Conns : SameAnswers(st.conn[c], st2.conn[c])
BY SameAnswersIs DEF Progress, Grown

\* A connection changes without an answer, and then there are sends.
LEMMA OneSameAnswers ==
    ASSUME TypeOK, NEW c \in Conns, NEW r2 \in Connection, SameAnswers(conn[c], r2),
           NEW cn, cn = [conn EXCEPT ![c] = r2]
    PROVE  \A d \in Conns : SameAnswers(conn[d], cn[d])
BY TypeIs, SameAnswersIs DEF ConnsOK

\* The welcome, a broadcast and the begin of stop() neither ask nor answer.
LEMMA SendsSameAnswers ==
    ASSUME TypeOK
    PROVE  /\ \A g \in greets : Greet(g) => \A c \in Conns : SameAnswers(conn[c], conn'[c])
           /\ \A k \in Credentials :
                Broadcast(k) => \A c \in Conns : SameAnswers(conn[c], conn'[c])
           /\ StopBegin => \A c \in Conns : SameAnswers(conn[c], conn'[c])
<1>1. ASSUME NEW g \in greets, Greet(g), NEW c \in Conns
      PROVE  SameAnswers(conn[c], conn'[c])
  <2>1. PICK r2, st :
               /\ r2 \in Connection
               /\ g \in Greeting /\ Welcomed(conn[g.conn], r2, g)
               /\ st = [conn |-> [conn EXCEPT ![g.conn] = r2], replay |-> replay]
               /\ Typed(st)
               /\ \/ Sending(st, [conn |-> conn', replay |-> replay'], {g.conn}, 0)
                  \/ conn' = [conn EXCEPT ![g.conn] = sendFrames(r2, ReplayedFrames(g))]
    BY <1>1, GreetIs
  <2> r2 \in Connection
    BY <2>1
  <2>2. PICK d \in Conns : d = g.conn
    BY <2>1 DEF Greeting
  <2>3. PICK cn : cn = [conn EXCEPT ![d] = r2]
    OBVIOUS
  <2>4. SameAnswers(conn[d], r2)
    BY <2>1, <2>2, SameAnswersIs
  <2>5. \A e \in Conns : SameAnswers(conn[e], cn[e])
    BY <2>3, <2>4, OneSameAnswers
  <2>6. CASE Sending(st, [conn |-> conn', replay |-> replay'], {g.conn}, 0)
    <3>1. PICK st2 : st2 = [conn |-> conn', replay |-> replay']
      OBVIOUS
    <3>2. Progress(st, st2)
      BY <2>1, <2>2, <2>6, <3>1, SendingProgresses
    <3>3. st.conn = cn /\ st2.conn = conn'
      BY <2>1, <2>2, <2>3, <3>1
    <3>4. SameAnswers(cn[c], conn'[c])
      BY <3>2, <3>3, ProgressAnswers
    <3> QED
      BY <2>5, <3>4, SameAnswersIs
  <2>7. CASE conn' = [conn EXCEPT ![g.conn] = sendFrames(r2, ReplayedFrames(g))]
    <3>1. PICK r3 : r3 = sendFrames(r2, ReplayedFrames(g))
      OBVIOUS
    <3>2. r3 \in Connection /\ Same(r2, r3)
      BY <2>1, <3>1, ReplayedIs, SendFramesKeeps
    <3>3. SameAnswers(conn[d], r3)
      BY <2>4, <3>2, SameAnswersIs
    <3>4. conn' = [conn EXCEPT ![d] = r3]
      BY <2>2, <2>7, <3>1
    <3> QED
      BY <3>2, <3>3, <3>4, OneSameAnswers
  <2> QED
    BY <2>1, <2>6, <2>7
<1>2. ASSUME NEW k \in Credentials, Broadcast(k), NEW c \in Conns
      PROVE  SameAnswers(conn[c], conn'[c])
  <2>1. CASE pending[k].refcount > 0
    BY <1>2, <2>1, SameAnswersIs DEF Broadcast
  <2>2. CASE ~(pending[k].refcount > 0)
    <3>1. PICK st2, to : /\ to \in SUBSET Conns /\ Sending(Now, st2, to, Len(at) + 1)
                         /\ conn' = st2.conn
      BY <1>2, <2>2, BroadcastIs
    <3>2. Progress(Now, st2)
      BY <3>1, NowIsTyped, SendingProgresses
    <3> QED
      BY <3>1, <3>2, NowIsTyped, ProgressAnswers
  <2> QED
    BY <2>1, <2>2
<1>3. ASSUME StopBegin, NEW c \in Conns
      PROVE  SameAnswers(conn[c], conn'[c])
  BY <1>3, StopBeginGrows, SameAnswersIs
<1> QED
  BY <1>1, <1>2, <1>3

\* Neither do the lookups of auth frames, heartbeats and invalidations.
LEMMA ReturnsSameAnswers ==
    ASSUME TypeOK, NEW i, NEW l, Returns(i, l), NEW outcome,
           \/ l.kind = "auth" /\ AuthResumed(l, outcome)
           \/ l.kind = "beat" /\ BeatResumed(l, outcome)
           \/ l.kind = "invalidate" /\ InvalidateResumed(l, outcome),
           NEW c \in Conns
    PROVE  SameAnswers(conn[c], conn'[c])
<1>1. CASE l.kind = "auth" /\ AuthResumed(l, outcome)
  <2>1. CASE AllKept
    BY <2>1, SameAnswersIs DEF AllKept, Kept
  <2>2. ASSUME NEW r2 \in Connection, l.conn \in Conns, Entered(conn[l.conn], r2, l, Era),
               conn' = [conn EXCEPT ![l.conn] = r2]
        PROVE  SameAnswers(conn[c], conn'[c])
    <3>1. PICK d \in Conns : d = l.conn
      BY <2>2
    <3>2. SameAnswers(conn[d], r2) /\ conn' = [conn EXCEPT ![d] = r2]
      BY <2>2, <3>1, SameAnswersIs
    <3> QED
      BY <3>2, OneSameAnswers
  <2> QED
    BY <1>1, <2>1, <2>2, AuthIs
<1>2. CASE l.kind = "beat" /\ BeatResumed(l, outcome)
  <2>1. PICK r2, st, st2 :
               /\ r2 \in Connection
               /\ l.conn \in Conns /\ Renewed(conn[l.conn], r2, l.snap)
               /\ st = [conn |-> [conn EXCEPT ![l.conn] = r2], replay |-> replay]
               /\ Typed(st)
               /\ st2 = st \/ Sending(st, st2, {l.conn}, 0)
               /\ conn' = st2.conn
    BY <1>2, BeatIs
  <2> r2 \in Connection
    BY <2>1
  <2>2. PICK d \in Conns : d = l.conn
    BY <2>1
  <2>3. PICK cn : cn = [conn EXCEPT ![d] = r2]
    OBVIOUS
  <2>4. SameAnswers(conn[d], r2)
    BY <2>1, <2>2, SameAnswersIs
  <2>5. SameAnswers(conn[c], cn[c])
    BY <2>3, <2>4, OneSameAnswers
  <2>6. Progress(st, st2)
    BY <2>1, ProgressGoesOn, SendingProgresses
  <2>7. SameAnswers(cn[c], conn'[c])
    <3>1. st.conn = cn
      BY <2>1, <2>2, <2>3
    <3> QED
      BY <2>1, <2>6, <3>1, ProgressAnswers
  <2> QED
    BY <2>5, <2>7, SameAnswersIs
<1>3. CASE l.kind = "invalidate" /\ InvalidateResumed(l, outcome)
  <2>1. PICK cn :
               /\ ConnsOK(cn) /\ \A d \in Conns : Forth(conn[d], cn[d])
               /\ \A d \in Conns : /\ Writes(l, d) => Renewed(conn[d], cn[d], l.snap)
                                   /\ ~Writes(l, d) => cn[d] = conn[d]
               /\ \/ /\ pending[l.cred].refcount - 1 > 0
                     /\ pending' = [pending EXCEPT ![l.cred].refcount =
                                      pending[l.cred].refcount - 1]
                     /\ conn' = cn /\ replay' = replay
                  \/ /\ ~(pending[l.cred].refcount - 1 > 0)
                     /\ pending' = [pending EXCEPT ![l.cred] = NoInvalidation]
                     /\ \E st, st2 :
                          /\ st.conn = cn /\ st.replay = replay /\ Typed(st)
                          /\ st2 = Drained(st, l.cred, pending[l.cred].events)
                          /\ conn' = st2.conn /\ replay' = st2.replay
    BY <1>3, InvalidateIs
  <2>2. SameAnswers(conn[c], cn[c])
    BY <2>1, SameAnswersIs
  <2>3. CASE conn' = cn
    BY <2>2, <2>3
  <2>4. ASSUME NEW st, NEW st2, st.conn = cn, Typed(st), conn' = st2.conn,
               st2 = Drained(st, l.cred, pending[l.cred].events)
        PROVE  SameAnswers(conn[c], conn'[c])
    <3>1. /\ registry \in Seq(Conns \union {None}) /\ l.cred \in Credentials
          /\ pending[l.cred].events \in Seq(Nat)
      BY ReturnsIs, TypeIs DEF PendingOK
    <3>2. Progress(st, st2)
      BY <2>4, <3>1, DrainedProgresses
    <3>3. SameAnswers(cn[c], conn'[c])
      BY <2>4, <3>2, ProgressAnswers
    <3> QED
      BY <2>2, <3>3, SameAnswersIs
  <2> QED
    BY <2>1, <2>3, <2>4
<1> QED
  BY <1>1, <1>2, <1>3

\* Every step keeps the account of what was asked and answered.
LEMMA StepAsks ==
    ASSUME TypeOK, AskInv, Step
    PROVE  AskInv'
<1>1. CASE Quiet
  BY <1>1, WaitingStays, SameAnswersIs DEF Quiet, AllKept, Kept
<1>2. CASE Calling
  BY <1>2, WaitingStays, SameAnswersIs DEF Calling, Calls, Valid, AllKept, Kept
<1>3. CASE \E c \in Conns, id \in Ids : Asks(c, id)
  BY <1>3, AskAsks
<1>4. CASE Settling
  <2>1. lookups' = lookups
    BY <1>4 DEF Settling, SettlesOnly
  <2>2. CASE conn' = conn
    BY <2>1, <2>2, WaitingStays, SameAnswersIs
  <2> QED
    BY <1>4, <2>1, <2>2, AskSettles DEF Settling
<1>5. CASE \E g \in greets : Greet(g)
  BY <1>5, WaitingStays, SendsSameAnswers DEF Greet
<1>6. CASE \E k \in Credentials : Broadcast(k)
  BY <1>6, WaitingStays, SendsSameAnswers DEF Broadcast
<1>7. CASE \E k \in Credentials : \E l : Invalidates(l, k)
  <2>1. PICK k, l : k \in Credentials /\ Invalidates(l, k)
    BY <1>7
  <2>2. /\ \A c \in Conns : SameAnswers(conn[c], conn'[c])
        /\ lookups' = Append(lookups, l) /\ l \in Lookup /\ l.kind # "request"
    BY <2>1, SameAnswersIs DEF Invalidates
  <2> QED
    BY <2>2, WaitingStays
<1>8. CASE StopBegin
  BY <1>8, WaitingStays, SendsSameAnswers DEF StopBegin
<1>9. ASSUME NEW i, NEW l, NEW outcome, NEW malformed,
             Returns(i, l), Resumes(l, outcome, malformed)
      PROVE  AskInv'
  <2>1. i \in DOMAIN lookups /\ lookups' = RemoveAt(lookups, i)
    BY <1>9 DEF Returns
  <2>2. CASE l.kind \in {"auth", "beat", "invalidate"}
    <3>1. \A c \in Conns : SameAnswers(conn[c], conn'[c])
      BY <1>9, <2>2, ReturnsSameAnswers DEF Resumes
    <3> QED
      BY <2>1, <3>1, WaitingStays
  <2>3. CASE l.kind = "request"
    BY <1>9, <2>3, AskRequest DEF Resumes
  <2>4. CASE l.kind = "resync"
    BY <1>9, <2>4, AskResync DEF Resumes
  <2> QED
    BY <1>9, <2>2, <2>3, <2>4 DEF Resumes
<1> QED
  BY <1>1, <1>2, <1>3, <1>4, <1>5, <1>6, <1>7, <1>8, <1>9 DEF Step

\* Whatever the handler, the timer and the second lookup of a request do, in
\* whatever order they come, the request is answered at most once.
THEOREM WsAnsweredOnce == Spec => []AnsweredOnce
<1>1. Init => AskInv
  <2>1. SUFFICES ASSUME Init PROVE AskInv
    OBVIOUS
  <2>2. AskedOK(FreshConnection)
    BY DEF FreshConnection, AskedOK
  <2>3. AskedAll(conn)
    BY <2>1, <2>2 DEF Init, AskedAll
  <2>4. DOMAIN lookups = {}
    BY <2>1 DEF Init
  <2> QED
    BY <2>3, <2>4 DEF AskInv, WaitingOK
<1>2. TypeOK /\ AskInv /\ [Next]_vars => AskInv'
  <2>1. ASSUME TypeOK, AskInv, Next
        PROVE  AskInv'
    BY <2>1, NextIsStep, StepAsks
  <2>2. ASSUME AskInv, UNCHANGED vars
        PROVE  AskInv'
    BY <2>2 DEF vars, AskInv, AskedAll, WaitingOK
  <2> QED
    BY <2>1, <2>2
<1>3. AskInv => AnsweredOnce
  BY DEF AskInv, AskedAll, AskedOK, AnsweredOnce
<1> QED
  BY <1>1, <1>2, <1>3, WsTypeCorrect, PTL DEF Spec

(***************************************************************************)
(* Resumptions: from the handshake on, what a client was told and what it  *)
(* was sent agree.                                                         *)
(***************************************************************************)
Complete(r) ==
    r.resume # None /\ r.sock = "open" /\ r.resume.lastSeen # None =>
        /\ r.resume.recovery = (r.resume.upto - r.resume.lastSeen > BufferSize)
        /\ r.resume.recovery \/
             \A s \in (r.resume.lastSeen + 1)..r.resume.upto :
               \E i \in DOMAIN r.sent : /\ r.sent[i].cred = r.resume.cred
                                        /\ r.sent[i].era = r.resume.era
                                        /\ r.sent[i].seq = s

\* The same of a greeting that waits for the fingerprint of its token.
Prepared(g) ==
    g.lastSeen # None =>
        /\ g.recovery = (g.upto - g.lastSeen > BufferSize)
        /\ g.recovery \/ \A s \in (g.lastSeen + 1)..g.upto :
                            \E i \in DOMAIN g.frames : g.frames[i] = s

ResumeInv == (\A c \in Conns : Complete(conn[c])) /\ \A g \in greets : Prepared(g)

\* A connection that goes on as it was, with more frames.
Continues(r, r2) ==
    /\ r2.resume = r.resume /\ Extends(r, r2)
    /\ r2.sock = "open" => r.sock = "open" \/ r.resume = None

\* A connection that goes on stays complete.
LEMMA ContinuesIs ==
    ASSUME NEW r, NEW r2, Continues(r, r2)
    PROVE  /\ Complete(r) => Complete(r2)
           /\ \A r3 : Continues(r2, r3) => Continues(r, r3)
<1>1. ASSUME Complete(r) PROVE Complete(r2)
  <2>1. SUFFICES ASSUME r2.resume # None, r2.sock = "open", r2.resume.lastSeen # None
                 PROVE  Complete(r2)
    BY DEF Complete
  <2>2. PICK q : q = r.resume
    OBVIOUS
  <2>3. /\ r2.resume = q /\ q.recovery = (q.upto - q.lastSeen > BufferSize)
        /\ q.recovery \/ \A s \in (q.lastSeen + 1)..q.upto :
               \E i \in DOMAIN r.sent : /\ r.sent[i].cred = q.cred
                                        /\ r.sent[i].era = q.era
                                        /\ r.sent[i].seq = s
    BY <1>1, <2>1, <2>2 DEF Complete, Continues
  <2>4. q.recovery \/ \A s \in (q.lastSeen + 1)..q.upto :
               \E i \in DOMAIN r2.sent : /\ r2.sent[i].cred = q.cred
                                         /\ r2.sent[i].era = q.era
                                         /\ r2.sent[i].seq = s
    BY <2>3 DEF Continues, Extends
  <2> QED
    BY <2>3, <2>4 DEF Complete
<1>2. ASSUME NEW r3, Continues(r2, r3)
      PROVE  Continues(r, r3)
  BY <1>2 DEF Continues, Extends
<1> QED
  BY <1>1, <1>2

\* Steps that keep, grow, renew, bring up, answer or accept let a connection go on.
LEMMA GoesOn ==
    ASSUME NEW r, ConnectionOK(r), NEW r2
    PROVE  /\ Same(r, r2) /\ Extends(r, r2) => Continues(r, r2)
           /\ Kept(r, r2) => Continues(r, r2)
           /\ Grown(r, r2) => Continues(r, r2)
           /\ \A snap : Renewed(r, r2, snap) => Continues(r, r2)
           /\ \A l, era : Entered(r, r2, l, era) => Continues(r, r2)
           /\ \A id, done : Responded(r, r2, id, done) => Continues(r, r2)
           /\ \A id : Accepted(r, r2, id) => Continues(r, r2)
           /\ r2 = r => Continues(r, r2)
<1>1. r2.sent = r.sent => Extends(r, r2)
  BY DEF Extends
<1>2. Same(r, r2) /\ Extends(r, r2) => Continues(r, r2)
  BY DEF Same, Continues, ConnectionOK
<1>3. Kept(r, r2) \/ Grown(r, r2) => Continues(r, r2)
  BY <1>1, <1>2 DEF Kept, Grown
<1>4. \A snap : Renewed(r, r2, snap) => Continues(r, r2)
  BY <1>1 DEF Renewed, Continues
<1>5. \A l, era : Entered(r, r2, l, era) => Continues(r, r2)
  BY <1>1 DEF Entered, Continues
<1>6. \A id, done : Responded(r, r2, id, done) => Continues(r, r2)
  BY <1>1 DEF Responded, Continues
<1>7. \A id : Accepted(r, r2, id) => Continues(r, r2)
  BY <1>1 DEF Accepted, Continues
<1>8. r2 = r => Continues(r, r2)
  BY <1>1 DEF Continues
<1> QED
  BY <1>2, <1>3, <1>4, <1>5, <1>6, <1>7, <1>8

\* One connection goes on.
LEMMA OneGoesOn ==
    ASSUME TypeOK, NEW c \in Conns, NEW r2, Continues(conn[c], r2),
           NEW cn, cn = [conn EXCEPT ![c] = r2]
    PROVE  \A d \in Conns : Continues(conn[d], cn[d])
<1>1. conn \in [Conns -> Connection] /\ \A d \in Conns : ConnectionOK(conn[d])
  BY DEF TypeOK
<1> QED
  BY <1>1, GoesOn

\* So does every one when frames are sent.
LEMMA ProgressContinues ==
    ASSUME NEW st, NEW st2, Typed(st), Progress(st, st2)
    PROVE  \A c \in Conns : Continues(st.conn[c], st2.conn[c])
BY GoesOn DEF Progress, Typed

\* The lookups that return let every connection go on.
LEMMA ReturnsContinue ==
    ASSUME TypeOK, NEW i, NEW l, Returns(i, l), NEW outcome, NEW malformed,
           Resumes(l, outcome, malformed), NEW c \in Conns
    PROVE  Continues(conn[c], conn'[c])
<1>0. \A d \in Conns : ConnectionOK(conn[d])
  BY DEF TypeOK
<1>1. CASE l.kind = "auth" /\ AuthResumed(l, outcome)
  <2>1. CASE AllKept
    BY <1>0, <2>1, GoesOn DEF AllKept
  <2>2. ASSUME NEW r2 \in Connection, l.conn \in Conns, Entered(conn[l.conn], r2, l, Era),
               conn' = [conn EXCEPT ![l.conn] = r2]
        PROVE  Continues(conn[c], conn'[c])
    <3>1. PICK d \in Conns : d = l.conn
      BY <2>2
    <3>2. Continues(conn[d], r2) /\ conn' = [conn EXCEPT ![d] = r2]
      BY <1>0, <2>2, <3>1, GoesOn
    <3> QED
      BY <3>2, OneGoesOn
  <2> QED
    BY <1>1, <2>1, <2>2, AuthIs
<1>2. CASE l.kind = "beat" /\ BeatResumed(l, outcome)
  <2>1. PICK r2, st, st2 :
               /\ r2 \in Connection
               /\ l.conn \in Conns /\ Renewed(conn[l.conn], r2, l.snap)
               /\ st = [conn |-> [conn EXCEPT ![l.conn] = r2], replay |-> replay]
               /\ Typed(st)
               /\ st2 = st \/ Sending(st, st2, {l.conn}, 0)
               /\ conn' = st2.conn
    BY <1>2, BeatIs
  <2> r2 \in Connection
    BY <2>1
  <2>2. PICK d \in Conns : d = l.conn
    BY <2>1
  <2>3. PICK cn : cn = [conn EXCEPT ![d] = r2]
    OBVIOUS
  <2>4. Continues(conn[d], r2)
    BY <1>0, <2>1, <2>2, GoesOn
  <2>5. Continues(conn[c], cn[c])
    BY <2>3, <2>4, OneGoesOn
  <2>6. Progress(st, st2)
    BY <2>1, ProgressGoesOn, SendingProgresses
  <2>7. st.conn = cn
    BY <2>1, <2>2, <2>3
  <2>8. Continues(cn[c], conn'[c])
    BY <2>1, <2>6, <2>7, ProgressContinues
  <2> QED
    BY <2>5, <2>8, ContinuesIs
<1>3. CASE l.kind = "request" /\ RequestResumed(l, outcome, malformed)
  <2>1. PICK r1 \in Connection, r2 \in Connection :
               /\ l.conn \in Conns /\ conn' = [conn EXCEPT ![l.conn] = r2]
               /\ Renewed(conn[l.conn], r1, l.snap)
               /\ \/ r2 = r1
                  \/ Responded(r1, r2, l.arg, {})
                  \/ Accepted(r1, r2, l.arg)
    BY <1>3, RequestIs
  <2>2. PICK d \in Conns : d = l.conn
    BY <2>1
  <2>3. Continues(conn[d], r1) /\ ConnectionOK(r1)
    BY <1>0, <2>1, <2>2, ReturnsIs, RenewedIsOK, GoesOn
  <2>4. Continues(r1, r2)
    BY <2>1, <2>3, GoesOn
  <2>5. Continues(conn[d], r2) /\ conn' = [conn EXCEPT ![d] = r2]
    BY <2>1, <2>2, <2>3, <2>4, ContinuesIs
  <2> QED
    BY <2>5, OneGoesOn
<1>4. CASE l.kind = "resync" /\ ResyncResumed(l, outcome)
  <2>1. PICK r1 \in Connection, r2 \in Connection :
               /\ l.conn \in Conns /\ conn' = [conn EXCEPT ![l.conn] = r2]
               /\ r1 = conn[l.conn] \/ Renewed(conn[l.conn], r1, l.snap)
               /\ \/ r2 = r1
                  \/ l.arg \in r1.inflight /\ Responded(r1, r2, l.arg, {l.arg})
    BY <1>4, ResyncIs
  <2>2. PICK d \in Conns : d = l.conn
    BY <2>1
  <2>3. Continues(conn[d], r1) /\ ConnectionOK(r1)
    BY <1>0, <2>1, <2>2, ReturnsIs, RenewedIsOK, GoesOn
  <2>4. Continues(r1, r2)
    BY <2>1, <2>3, GoesOn
  <2>5. Continues(conn[d], r2) /\ conn' = [conn EXCEPT ![d] = r2]
    BY <2>1, <2>2, <2>3, <2>4, ContinuesIs
  <2> QED
    BY <2>5, OneGoesOn
<1>5. CASE l.kind = "invalidate" /\ InvalidateResumed(l, outcome)
  <2>1. PICK cn :
               /\ ConnsOK(cn) /\ \A d \in Conns : Forth(conn[d], cn[d])
               /\ \A d \in Conns : /\ Writes(l, d) => Renewed(conn[d], cn[d], l.snap)
                                   /\ ~Writes(l, d) => cn[d] = conn[d]
               /\ \/ /\ pending[l.cred].refcount - 1 > 0
                     /\ pending' = [pending EXCEPT ![l.cred].refcount =
                                      pending[l.cred].refcount - 1]
                     /\ conn' = cn /\ replay' = replay
                  \/ /\ ~(pending[l.cred].refcount - 1 > 0)
                     /\ pending' = [pending EXCEPT ![l.cred] = NoInvalidation]
                     /\ \E st, st2 :
                          /\ st.conn = cn /\ st.replay = replay /\ Typed(st)
                          /\ st2 = Drained(st, l.cred, pending[l.cred].events)
                          /\ conn' = st2.conn /\ replay' = st2.replay
    BY <1>5, InvalidateIs
  <2>2. Continues(conn[c], cn[c])
    BY <1>0, <2>1, GoesOn
  <2>3. CASE conn' = cn
    BY <2>2, <2>3
  <2>4. ASSUME NEW st, NEW st2, st.conn = cn, Typed(st), conn' = st2.conn,
               st2 = Drained(st, l.cred, pending[l.cred].events)
        PROVE  Continues(conn[c], conn'[c])
    <3>1. /\ registry \in Seq(Conns \union {None}) /\ l.cred \in Credentials
          /\ pending[l.cred].events \in Seq(Nat)
      BY ReturnsIs, TypeIs DEF PendingOK
    <3>2. Progress(st, st2)
      BY <2>4, <3>1, DrainedProgresses
    <3>3. Continues(cn[c], conn'[c])
      BY <2>4, <3>2, ProgressContinues
    <3> QED
      BY <2>2, <3>3, ContinuesIs
  <2> QED
    BY <2>1, <2>3, <2>4
<1> QED
  BY <1>1, <1>2, <1>3, <1>4, <1>5 DEF Resumes

\* Every element of the second of two sequences is one of both together.
LEMMA ConcatHas ==
    ASSUME NEW S, NEW p \in Seq(S), NEW q \in Seq(S), NEW i \in DOMAIN q
    PROVE  \E j \in DOMAIN (p \o q) : (p \o q)[j] = q[i]
<1>1. PICK n \in Nat, m \in Nat : n = Len(p) /\ m = Len(q) /\ DOMAIN q = 1..m
  BY LenProperties
<1>2. p \o q \in Seq(S) /\ Len(p \o q) = n + m
      /\ \A j \in 1..n + m : (p \o q)[j] = IF j <= n THEN p[j] ELSE q[j - n]
  BY <1>1, ConcatProperties
<1>3. DOMAIN (p \o q) = 1..n + m
  BY <1>2, LenProperties
<1>4. i \in 1..m /\ n + i \in 1..n + m /\ ~(n + i <= n) /\ (n + i) - n = i
  BY <1>1
<1>5. (p \o q)[n + i] = q[i]
  BY <1>2, <1>4
<1> QED
  BY <1>3, <1>4, <1>5

\* A welcome makes the connection complete.
LEMMA GreetCompletes ==
    ASSUME TypeOK, ResumeInv, NEW g \in greets, Greet(g), NEW c \in Conns
    PROVE  Complete(conn'[c])
<1>1. PICK r2, st :
             /\ r2 \in Connection
             /\ g \in Greeting /\ Welcomed(conn[g.conn], r2, g) /\ ConnectionOK(r2)
             /\ st = [conn |-> [conn EXCEPT ![g.conn] = r2], replay |-> replay]
             /\ Typed(st)
             /\ \/ /\ g.recovery
                   /\ Sending(st, [conn |-> conn', replay |-> replay'], {g.conn}, 0)
                \/ /\ ~g.recovery
                   /\ replay' = replay
                   /\ conn' = [conn EXCEPT ![g.conn] = sendFrames(r2, ReplayedFrames(g))]
  BY GreetIs
<1> r2 \in Connection
  BY <1>1
<1>2. PICK d \in Conns : d = g.conn
  BY <1>1 DEF Greeting
<1>3. PICK cn : cn = [conn EXCEPT ![d] = r2]
  OBVIOUS
<1>4. /\ st.conn = cn /\ cn[d] = r2 /\ \A e \in Conns : e # d => cn[e] = conn[e]
  BY <1>1, <1>2, <1>3, TypeIs DEF ConnsOK
<1>5. PICK q : q = ResumptionOf(g)
  OBVIOUS
<1>6. /\ r2.resume = q /\ q.cred = g.cred /\ q.era = g.era /\ q.lastSeen = g.lastSeen
      /\ q.upto = g.upto /\ q.recovery = g.recovery /\ Prepared(g)
  BY <1>1, <1>5 DEF Welcomed, ResumptionOf, ResumeInv
<1>7. CASE g.recovery
  <2>1. PICK st2 : st2 = [conn |-> conn', replay |-> replay']
    OBVIOUS
  <2>2. st2.conn = conn' /\ Progress(st, st2)
    BY <1>1, <1>2, <1>7, <2>1, SendingProgresses
  <2>3. Continues(cn[c], conn'[c])
    BY <1>1, <1>4, <2>2, ProgressContinues
  <2>4. Complete(r2)
    BY <1>6, <1>7 DEF Complete, Prepared
  <2>5. Complete(cn[c])
    BY <1>4, <2>4 DEF ResumeInv
  <2> QED
    BY <2>3, <2>5, ContinuesIs
<1>8. CASE ~g.recovery
  <2>1. PICK fs : fs = ReplayedFrames(g)
    OBVIOUS
  <2>2. /\ fs \in Seq(Frame) /\ Len(fs) = Len(g.frames) /\ DOMAIN fs = DOMAIN g.frames
        /\ \A i \in DOMAIN g.frames : fs[i] = Replayed(g, g.frames[i])
    BY <1>1, <2>1, ReplayedIs
  <2>3. PICK r3 : r3 = sendFrames(r2, fs)
    OBVIOUS
  <2>4. /\ r3.sock = r2.sock /\ r3.resume = q
        /\ r3.sent = IF r2.sock = "open" THEN r2.sent \o fs ELSE r2.sent
    BY <1>6, <2>2, <2>3, SendFramesKeeps DEF Same
  <2>5. ASSUME r3.sock = "open", g.lastSeen # None, NEW s \in (g.lastSeen + 1)..g.upto
        PROVE  \E i \in DOMAIN r3.sent : /\ r3.sent[i].cred = g.cred
                                         /\ r3.sent[i].era = g.era
                                         /\ r3.sent[i].seq = s
    <3>1. PICK i \in DOMAIN g.frames : g.frames[i] = s
      BY <1>6, <1>8, <2>5 DEF Prepared
    <3>2. PICK p \in Seq(Frame) : p = r2.sent
      BY DEF Connection
    <3>3. r3.sent = p \o fs /\ i \in DOMAIN fs
      BY <2>2, <2>4, <2>5, <3>1, <3>2
    <3>4. PICK j \in DOMAIN (p \o fs) : (p \o fs)[j] = fs[i]
      <4>1. \A x \in Seq(Frame), y \in Seq(Frame) : \A h \in DOMAIN y :
               \E j \in DOMAIN (x \o y) : (x \o y)[j] = y[h]
        BY ConcatHas
      <4>2. fs \in Seq(Frame) /\ p \in Seq(Frame) /\ i \in DOMAIN fs
        BY <2>2, <3>2, <3>3
      <4>3. \A h \in DOMAIN fs : \E j \in DOMAIN (p \o fs) : (p \o fs)[j] = fs[h]
        BY <4>1, <4>2
      <4> QED
        BY <4>2, <4>3
    <3>5. j \in DOMAIN r3.sent /\ r3.sent[j] = fs[i]
      BY <3>3, <3>4
    <3>6. fs[i] = Replayed(g, s)
      BY <2>2, <3>1
    <3>7. r3.sent[j].cred = g.cred /\ r3.sent[j].era = g.era /\ r3.sent[j].seq = s
      BY <3>5, <3>6 DEF Replayed
    <3> QED
      BY <3>5, <3>7
  <2>6. Complete(r3)
    <3>1. SUFFICES ASSUME r3.sock = "open", q.lastSeen # None
                   PROVE  Complete(r3)
      BY <2>4 DEF Complete
    <3>2. q.recovery = (q.upto - q.lastSeen > BufferSize)
      BY <1>6, <3>1 DEF Prepared
    <3>3. \A s \in (q.lastSeen + 1)..q.upto :
             \E i \in DOMAIN r3.sent : /\ r3.sent[i].cred = q.cred
                                       /\ r3.sent[i].era = q.era
                                       /\ r3.sent[i].seq = s
      BY <1>6, <2>5, <3>1
    <3> QED
      BY <2>4, <3>2, <3>3 DEF Complete
  <2>7. conn' = [conn EXCEPT ![d] = r3]
    BY <1>1, <1>2, <1>8, <2>1, <2>3
  <2>8. conn'[d] = r3 /\ \A e \in Conns : e # d => conn'[e] = conn[e]
    BY <2>7, TypeIs DEF ConnsOK
  <2> QED
    BY <2>6, <2>8 DEF ResumeInv
<1> QED
  BY <1>7, <1>8

\* A handshake prepares what its client misses.
LEMMA AuthPrepares ==
    ASSUME TypeOK, NEW i, NEW l, Returns(i, l), l.kind = "auth", NEW g, Greets(g, l)
    PROVE  Prepared(g)
<1>1. PICK state : state = replay[<<l.cred, Era>>]
  OBVIOUS
<1>2. l.cred \in Credentials /\ l.arg \in Nat \union {None}
  BY ReturnsIs DEF Valid
<1>3. ReplayOK(state)
  <2>1. Era \in Eras
    BY DEF Era, Eras
  <2>2. <<l.cred, Era>> \in Stream
    BY <1>2, <2>1 DEF Stream
  <2> QED
    BY <1>1, <2>2, TypeIs DEF ReplaysOK
<1>4. PICK n : n = l.arg
  OBVIOUS
<1>5. /\ n \in Nat \union {None} /\ g.lastSeen = n /\ g.upto = state.next - 1
      /\ g.recovery = NeedsRecovery(state.buffer, n)
      /\ g.frames = ReplayFrames(state.buffer, n)
  BY <1>1, <1>2, <1>4 DEF Greets
<1>6. g.recovery \in BOOLEAN /\ Tells(g.recovery, g.frames, g.upto, n)
  BY <1>3, <1>5, ReplayFramesIs
<1>7. CASE n # None
  <2>1. (g.recovery <=> g.upto - n > BufferSize)
        /\ (g.recovery \/ \A s \in (n + 1)..g.upto :
                            \E j \in DOMAIN g.frames : g.frames[j] = s)
    BY <1>6, <1>7 DEF Tells
  <2>2. g.recovery = (g.upto - n > BufferSize)
    BY <1>6, <2>1
  <2> QED
    BY <1>5, <2>1, <2>2 DEF Prepared
<1>8. CASE n = None
  BY <1>5, <1>8 DEF Prepared
<1> QED
  BY <1>7, <1>8

\* Connections that go on, and no new greeting.
LEMMA ResumeStays ==
    ASSUME ResumeInv, \A c \in Conns : Continues(conn[c], conn'[c]),
           greets' \subseteq greets
    PROVE  ResumeInv'
BY ContinuesIs DEF ResumeInv

\* Every step keeps what was promised to clients that resume.
LEMMA StepResumes ==
    ASSUME TypeOK, ResumeInv, Step
    PROVE  ResumeInv'
<1>0. conn \in [Conns -> Connection] /\ \A c \in Conns : ConnectionOK(conn[c])
  BY DEF TypeOK
<1>1. CASE Quiet
  BY <1>0, <1>1, ResumeStays, GoesOn DEF Quiet, AllKept
<1>2. CASE Calling
  BY <1>0, <1>2, ResumeStays, GoesOn DEF Calling, Calls, AllKept
<1>3. ASSUME NEW c \in Conns, NEW id \in Ids, Asks(c, id)
      PROVE  ResumeInv'
  <2>1. PICK r2 : r2 = [conn[c] EXCEPT !.asked = @ \union {id}]
    OBVIOUS
  <2>2. conn' = [conn EXCEPT ![c] = r2] /\ greets' = greets
    BY <1>3, <2>1 DEF Asks, Calls
  <2>3. r2.resume = conn[c].resume /\ r2.sock = conn[c].sock /\ r2.sent = conn[c].sent
    BY <1>0, <2>1 DEF Connection
  <2>4. Continues(conn[c], r2)
    BY <2>3 DEF Continues, Extends
  <2>5. \A d \in Conns : Continues(conn[d], conn'[d])
    BY <2>2, <2>4, OneGoesOn
  <2> QED
    BY <2>2, <2>5, ResumeStays
<1>4. CASE Settling
  <2>1. greets' = greets
    BY <1>4 DEF Settling, SettlesOnly
  <2>2. CASE conn' = conn
    BY <1>0, <2>1, <2>2, GoesOn, ResumeStays
  <2>3. ASSUME NEW c \in Conns, NEW id \in Ids, Settles(c, id)
        PROVE  ResumeInv'
    <3>1. PICK r2 \in Connection : conn' = [conn EXCEPT ![c] = r2]
                                   /\ Responded(conn[c], r2, id, {id})
      BY <2>3 DEF Settles
    <3>2. \A d \in Conns : Continues(conn[d], conn'[d])
      BY <1>0, <3>1, GoesOn, OneGoesOn
    <3> QED
      BY <2>1, <3>2, ResumeStays
  <2> QED
    BY <1>4, <2>2, <2>3 DEF Settling
<1>5. CASE \E g \in greets : Greet(g)
  <2>1. PICK g \in greets : Greet(g)
    BY <1>5
  <2>2. greets' \subseteq greets /\ \A c \in Conns : Complete(conn'[c])
    BY <2>1, GreetCompletes DEF Greet
  <2> QED
    BY <2>2 DEF ResumeInv
<1>6. ASSUME NEW k \in Credentials, Broadcast(k)
      PROVE  ResumeInv'
  <2>1. greets' = greets
    BY <1>6 DEF Broadcast
  <2>2. \A c \in Conns : Continues(conn[c], conn'[c])
    <3>1. CASE pending[k].refcount > 0
      BY <1>0, <1>6, <3>1, GoesOn DEF Broadcast
    <3>2. CASE ~(pending[k].refcount > 0)
      <4>1. PICK st2, to : /\ to \in SUBSET Conns /\ Sending(Now, st2, to, Len(at) + 1)
                           /\ conn' = st2.conn
        BY <1>6, <3>2, BroadcastIs
      <4>2. Progress(Now, st2)
        BY <4>1, NowIsTyped, SendingProgresses
      <4> QED
        BY <4>1, <4>2, NowIsTyped, ProgressContinues
    <3> QED
      BY <3>1, <3>2
  <2> QED
    BY <2>1, <2>2, ResumeStays
<1>7. CASE \E k \in Credentials : \E l : Invalidates(l, k)
  BY <1>0, <1>7, GoesOn, ResumeStays DEF Invalidates
<1>8. CASE StopBegin
  <2>1. greets' = greets
    BY <1>8 DEF StopBegin
  <2> QED
    BY <1>0, <1>8, <2>1, StopBeginGrows, GoesOn, ResumeStays
<1>9. ASSUME NEW i, NEW l, NEW outcome, NEW malformed,
             Returns(i, l), Resumes(l, outcome, malformed)
      PROVE  ResumeInv'
  <2>1. \A c \in Conns : Continues(conn[c], conn'[c])
    BY <1>9, ReturnsContinue
  <2>2. CASE greets' = greets
    BY <2>1, <2>2, ResumeStays
  <2>3. CASE l.kind = "auth" /\ AuthResumed(l, outcome)
    <3>1. greets' = greets \/ \E g : Greets(g, l) /\ greets' = greets \union {g}
      BY <1>9, <2>3, AuthIs
    <3>2. ASSUME NEW g, Greets(g, l), greets' = greets \union {g}
          PROVE  ResumeInv'
      <4>1. Prepared(g)
        BY <1>9, <2>3, <3>2, AuthPrepares
      <4>2. \A c \in Conns : Complete(conn'[c])
        BY <2>1, ContinuesIs DEF ResumeInv
      <4> QED
        BY <3>2, <4>1, <4>2 DEF ResumeInv
    <3> QED
      BY <2>2, <3>1, <3>2
  <2> QED
    BY <1>9, <2>2, <2>3 DEF Resumes
<1> QED
  BY <1>1, <1>2, <1>3, <1>4, <1>5, <1>6, <1>7, <1>8, <1>9 DEF Step

\* A client that resumes is told to recover exactly when more frames were sent
\* than the buffer holds, and otherwise has every frame up to its handshake.
THEOREM WsResumeIsComplete == Spec => []ResumeIsComplete
<1>1. Init => ResumeInv
  <2>1. SUFFICES ASSUME Init PROVE ResumeInv
    OBVIOUS
  <2>2. Complete(FreshConnection)
    BY DEF FreshConnection, Complete
  <2> QED
    BY <2>1, <2>2 DEF Init, ResumeInv
<1>2. TypeOK /\ ResumeInv /\ [Next]_vars => ResumeInv'
  <2>1. ASSUME TypeOK, ResumeInv, Next
        PROVE  ResumeInv'
    BY <2>1, NextIsStep, StepResumes
  <2>2. ASSUME ResumeInv, UNCHANGED vars
        PROVE  ResumeInv'
    BY <2>2 DEF vars, ResumeInv
  <2> QED
    BY <2>1, <2>2
<1>3. ResumeInv => ResumeIsComplete
  BY DEF ResumeInv, Complete, ResumeIsComplete
<1> QED
  BY <1>1, <1>2, <1>3, WsTypeCorrect, PTL DEF Spec

(***************************************************************************)
(* The order of live frames.  What is sent only grows, and a live frame    *)
(* takes a number that its stream has not given out before; an event that  *)
(* waits in a queue is newer than everything sent for its credential.      *)
(***************************************************************************)
InLine(s) ==
    \A i, j \in DOMAIN s :
        i < j /\ s[i].live /\ s[j].live /\ s[i].cred = s[j].cred =>
          /\ s[i].era = s[j].era => s[i].seq < s[j].seq
          /\ s[i].ev > 0 /\ s[j].ev > 0 => s[i].ev < s[j].ev

Below(s, rp) == \A i \in DOMAIN s : s[i].live => s[i].seq < rp[StreamOf(s[i])].next

Heard(s, k, e) == \A i \in DOMAIN s : s[i].live /\ s[i].cred = k => s[i].ev <= e

Ordered(cn, rp) == \A c \in Conns : InLine(cn[c].sent) /\ Below(cn[c].sent, rp)

Upto(cn, k, e) == \A c \in Conns : Heard(cn[c].sent, k, e)

\* The queue q of credential k, after n broadcasts.
Queued(q, cn, k, n) ==
    /\ Upto(cn, k, n)
    /\ q.refcount = 0 => q.events = <<>>
    /\ \A i \in DOMAIN q.events : q.events[i] \in 1..n /\ Upto(cn, k, q.events[i] - 1)
    /\ \A i, j \in DOMAIN q.events : i < j => q.events[i] < q.events[j]

LineInv == /\ Ordered(conn, replay)
           /\ \A k \in Credentials : Queued(pending[k], conn, k, Len(at))

\* A frame that is newer than the ones of its credential keeps the line.
LEMMA NewerFrame ==
    ASSUME NEW s \in Seq(Frame), NEW f \in Frame, InLine(s),
           \A i \in DOMAIN s : s[i].live /\ s[i].cred = f.cred =>
              /\ s[i].era = f.era => s[i].seq < f.seq
              /\ f.ev > 0 => s[i].ev < f.ev
    PROVE  InLine(Append(s, f))
<1>1. PICK n \in Nat : n = Len(s) /\ DOMAIN s = 1..n
  BY LenProperties
<1>2. PICK t : t = Append(s, f)
  OBVIOUS
<1>3. DOMAIN t = 1..(n + 1) /\ t[n + 1] = f /\ \A i \in 1..n : t[i] = s[i]
  BY <1>1, <1>2
<1>4. ASSUME NEW i \in DOMAIN t, NEW j \in DOMAIN t, i < j, t[i].live, t[j].live,
             t[i].cred = t[j].cred
      PROVE  /\ t[i].era = t[j].era => t[i].seq < t[j].seq
             /\ t[i].ev > 0 /\ t[j].ev > 0 => t[i].ev < t[j].ev
  <2>1. i \in 1..n /\ (j \in 1..n \/ j = n + 1)
    BY <1>3, <1>4
  <2>2. CASE j = n + 1
    BY <1>1, <1>3, <1>4, <2>1, <2>2
  <2>3. CASE j \in 1..n
    BY <1>1, <1>3, <1>4, <2>1, <2>3 DEF InLine
  <2> QED
    BY <2>1, <2>2, <2>3
<1> QED
  BY <1>2, <1>4 DEF InLine

\* Nothing live was sent.
Silent(r, r2) ==
    \A i \in DOMAIN r2.sent :
        (i \in DOMAIN r.sent /\ r2.sent[i] = r.sent[i]) \/ ~r2.sent[i].live

\* What is said of live frames then stays.
LEMMA SilentStays ==
    ASSUME NEW r, NEW r2, Silent(r, r2)
    PROVE  /\ InLine(r.sent) => InLine(r2.sent)
           /\ \A rp : Below(r.sent, rp) => Below(r2.sent, rp)
           /\ \A k, e : Heard(r.sent, k, e) => Heard(r2.sent, k, e)
<1>1. InLine(r.sent) => InLine(r2.sent)
  BY DEF Silent, InLine
<1>2. \A rp : Below(r.sent, rp) => Below(r2.sent, rp)
  BY DEF Silent, Below
<1>3. \A k, e : Heard(r.sent, k, e) => Heard(r2.sent, k, e)
  BY DEF Silent, Heard
<1> QED
  BY <1>1, <1>2, <1>3

\* The streams give out more numbers.
LEMMA BelowStays ==
    ASSUME NEW s \in Seq(Frame), NEW rp, NEW rp2,
           \A x \in Stream : /\ rp[x].next \in Nat /\ rp2[x].next \in Nat
                             /\ rp[x].next <= rp2[x].next,
           Below(s, rp)
    PROVE  Below(s, rp2)
<1>1. ASSUME NEW i \in DOMAIN s, s[i].live
      PROVE  s[i].seq < rp2[StreamOf(s[i])].next
  <2>1. s[i] \in Frame
    BY LenProperties, ElementOfSeq
  <2>2. PICK x \in Stream : x = StreamOf(s[i])
    BY <2>1 DEF StreamOf, Stream, Frame
  <2>3. s[i].seq \in Nat /\ s[i].seq < rp[x].next
    BY <1>1, <2>1, <2>2 DEF Below, Frame
  <2> QED
    BY <2>2, <2>3
<1> QED
  BY <1>1 DEF Below

\* A frame on one connection.
LEMMA SentInLine ==
    ASSUME NEW r \in Connection, NEW r2, NEW f \in Frame, SentOn(r, r2, f), InLine(r.sent),
           \A i \in DOMAIN r.sent : r.sent[i].live /\ r.sent[i].cred = f.cred =>
              /\ r.sent[i].era = f.era => r.sent[i].seq < f.seq
              /\ f.ev > 0 => r.sent[i].ev < f.ev
    PROVE  /\ InLine(r2.sent)
           /\ \A i \in DOMAIN r2.sent :
                r2.sent[i] = f \/ (i \in DOMAIN r.sent /\ r2.sent[i] = r.sent[i])
<1>1. PICK s \in Seq(Frame) : s = r.sent
  BY DEF Connection
<1>2. PICK n \in Nat : n = Len(s) /\ DOMAIN s = 1..n
  BY LenProperties
<1>3. /\ DOMAIN Append(s, f) = 1..(n + 1) /\ Append(s, f)[n + 1] = f
      /\ \A i \in 1..n : Append(s, f)[i] = s[i]
  BY <1>2
<1>4. \A i \in 1..(n + 1) : i \in 1..n \/ i = n + 1
  BY <1>2
<1>5. InLine(Append(s, f))
  BY <1>1, NewerFrame
<1>6. r2.sent = s \/ r2.sent = Append(s, f)
  BY <1>1 DEF SentOn
<1> QED
  BY <1>1, <1>2, <1>3, <1>4, <1>5, <1>6

\* sendSequenced keeps the line, when the event is newer than what its receivers
\* heard of their credential; a credential that is not theirs hears nothing.
LEMMA SendingInLine ==
    ASSUME NEW st, NEW st2, NEW to, NEW ev \in Nat, Typed(st), to \subseteq Conns,
           Sending(st, st2, to, ev), Ordered(st.conn, st.replay),
           ev > 0 => \A c \in to : Heard(st.conn[c].sent, st.conn[c].cred, ev - 1)
    PROVE  /\ Ordered(st2.conn, st2.replay)
           /\ \A k : \A e \in Nat :
                /\ Upto(st.conn, k, e)
                /\ ev <= e \/ \A c \in to : st.conn[c].cred # k
                => Upto(st2.conn, k, e)
<1>1. \A x \in Stream : /\ st.replay[x].next \in Nat /\ st2.replay[x].next \in Nat
                        /\ st.replay[x].next <= st2.replay[x].next
  BY DEF Typed, Sending, ReplayOK
<1>2. ASSUME NEW c \in Conns
      PROVE  /\ InLine(st2.conn[c].sent) /\ Below(st2.conn[c].sent, st2.replay)
             /\ \A k : \A e \in Nat :
                  /\ Heard(st.conn[c].sent, k, e)
                  /\ ev <= e \/ (c \in to => st.conn[c].cred # k)
                  => Heard(st2.conn[c].sent, k, e)
  <2>1. PICK r \in Connection : r = st.conn[c]
    BY DEF Typed
  <2>2. /\ r.sent \in Seq(Frame) /\ InLine(r.sent) /\ Below(r.sent, st.replay)
    BY <2>1 DEF Ordered, Connection
  <2>3. Below(r.sent, st2.replay)
    BY <1>1, <2>2, BelowStays
  <2>4. CASE c \notin to
    <3>1. st2.conn[c] = r
      BY <2>1, <2>4 DEF Sending
    <3> QED
      BY <2>1, <2>2, <2>3, <3>1
  <2>5. CASE c \in to
    <3>1. PICK r2 : r2 = st2.conn[c]
      OBVIOUS
    <3>2. PICK f : /\ FrameFor(f, r, ev) /\ SentOn(r, r2, f)
                   /\ st.replay[StreamOf(f)].next <= f.seq
                   /\ f.seq < st2.replay[StreamOf(f)].next
      BY <2>1, <2>5, <3>1 DEF Sending
    <3>3. f \in Frame /\ f.cred = r.cred /\ f.ev = ev /\ f.seq \in Nat
      BY <3>2 DEF FrameFor, Frame
    <3>4. PICK x \in Stream : x = StreamOf(f)
      BY <3>3 DEF StreamOf, Stream, Frame
    <3>5. ASSUME NEW i \in DOMAIN r.sent, r.sent[i].live, r.sent[i].cred = f.cred
          PROVE  /\ r.sent[i].era = f.era => r.sent[i].seq < f.seq
                 /\ f.ev > 0 => r.sent[i].ev < f.ev
      <4>1. PICK h \in Frame : h = r.sent[i]
        BY <2>2, LenProperties, ElementOfSeq
      <4>2. h.seq \in Nat /\ h.ev \in Nat /\ h.seq < st.replay[StreamOf(h)].next
        BY <2>2, <3>5, <4>1 DEF Below, Frame
      <4>3. h.era = f.era => StreamOf(h) = x
        BY <3>4, <3>5, <4>1 DEF StreamOf
      <4>4. h.era = f.era => h.seq < f.seq
        BY <1>1, <3>2, <3>3, <3>4, <4>2, <4>3
      <4>5. f.ev > 0 => h.ev <= ev - 1
        BY <2>1, <2>5, <3>3, <3>5, <4>1 DEF Heard
      <4>6. f.ev > 0 => h.ev < f.ev
        BY <3>3, <4>2, <4>5
      <4> QED
        BY <4>1, <4>4, <4>6
    <3>6. /\ InLine(r2.sent)
          /\ \A i \in DOMAIN r2.sent :
               r2.sent[i] = f \/ (i \in DOMAIN r.sent /\ r2.sent[i] = r.sent[i])
      BY <2>2, <3>2, <3>3, <3>5, SentInLine
    <3>7. Below(r2.sent, st2.replay)
      BY <2>3, <3>2, <3>6 DEF Below
    <3>8. ASSUME NEW k, NEW e \in Nat, Heard(r.sent, k, e), ev <= e \/ r.cred # k
          PROVE  Heard(r2.sent, k, e)
      BY <3>3, <3>6, <3>8 DEF Heard
    <3> QED
      BY <2>1, <2>5, <3>1, <3>6, <3>7, <3>8
  <2> QED
    BY <2>4, <2>5
<1>3. Ordered(st2.conn, st2.replay)
  BY <1>2 DEF Ordered
<1>4. ASSUME NEW k, NEW e \in Nat, Upto(st.conn, k, e),
             ev <= e \/ \A c \in to : st.conn[c].cred # k
      PROVE  Upto(st2.conn, k, e)
  BY <1>2, <1>4 DEF Upto
<1> QED
  BY <1>3, <1>4

\* Steps that send nothing live and leave the queues alone keep the line.
LEMMA QuietInLine ==
    ASSUME TypeOK, LineInv, \A c \in Conns : Silent(conn[c], conn'[c]),
           UNCHANGED <<replay, at>>,
           \A k \in Credentials : /\ pending'[k].events = pending[k].events
                                  /\ pending'[k].refcount = 0 => pending[k].refcount = 0
    PROVE  LineInv'
<1>1. Ordered(conn', replay')
  BY SilentStays DEF LineInv, Ordered
<1>2. \A k, e : Upto(conn, k, e) => Upto(conn', k, e)
  BY SilentStays DEF Upto
<1>3. ASSUME NEW k \in Credentials
      PROVE  Queued(pending'[k], conn', k, Len(at'))
  <2>1. PICK p, q : p = pending[k] /\ q = pending'[k]
    OBVIOUS
  <2>2. q.events = p.events /\ (q.refcount = 0 => p.refcount = 0)
    BY <2>1
  <2>3. Queued(p, conn, k, Len(at)) /\ at' = at
    BY <2>1 DEF LineInv
  <2>4. Queued(q, conn', k, Len(at))
    BY <1>2, <2>2, <2>3 DEF Queued
  <2> QED
    BY <2>1, <2>3, <2>4
<1> QED
  BY <1>1, <1>3 DEF LineInv

\* So do steps that send one of the server's own frames.
LEMMA OwnInLine ==
    ASSUME TypeOK, LineInv, NEW st, NEW st2, NEW to, Typed(st), to \subseteq Conns,
           Sending(st, st2, to, 0), st.replay = replay,
           \A c \in Conns : /\ Silent(conn[c], st.conn[c])
                            /\ Silent(st2.conn[c], conn'[c]),
           replay' = st2.replay, UNCHANGED <<pending, at>>
    PROVE  LineInv'
<1>1. Ordered(st.conn, st.replay)
  BY SilentStays DEF LineInv, Ordered
<1>2. /\ Ordered(st2.conn, st2.replay)
      /\ \A k : \A e \in Nat : Upto(st.conn, k, e) => Upto(st2.conn, k, e)
  BY <1>1, SendingInLine
<1>3. Ordered(conn', replay')
  BY <1>2, SilentStays DEF Ordered
<1>4. \A k : \A e \in Nat : Upto(conn, k, e) => Upto(conn', k, e)
  <2>1. \A k, e : Upto(conn, k, e) => Upto(st.conn, k, e)
    BY SilentStays DEF Upto
  <2>2. \A k, e : Upto(st2.conn, k, e) => Upto(conn', k, e)
    BY SilentStays DEF Upto
  <2> QED
    BY <1>2, <2>1, <2>2
<1>5. Len(at) \in Nat
  BY TypeIs, LenProperties
<1>6. ASSUME NEW k \in Credentials
      PROVE  Queued(pending[k], conn', k, Len(at))
  <2>1. Queued(pending[k], conn, k, Len(at))
    BY DEF LineInv
  <2>2. PICK q, n : q = pending[k] /\ n = Len(at)
    OBVIOUS
  <2>3. \A i \in DOMAIN q.events : q.events[i] \in 1..n => q.events[i] - 1 \in Nat
    BY <1>5, <2>2
  <2> QED
    BY <1>4, <1>5, <2>1, <2>2, <2>3 DEF Queued
<1> QED
  BY <1>3, <1>6 DEF LineInv

\* What is left of a queue of n events, of which m went out.
Draining(b, st, k, events, m, n, all) ==
    /\ Typed(b) /\ Ordered(b.conn, b.replay) /\ Upto(b.conn, k, all)
    /\ \A i \in (m + 1)..n : Upto(b.conn, k, events[i] - 1)
    /\ \A j : \A e \in Nat : j # k /\ Upto(st.conn, j, e) => Upto(b.conn, j, e)

\* The next event of a queue.
LEMMA DrainsNext ==
    ASSUME NEW st, NEW b, NEW b2, NEW k \in Credentials, NEW events, NEW n \in Nat,
           NEW m \in 1..n, NEW all \in Nat,
           registry \in Seq(Conns \union {None}),
           \A i \in 1..n : events[i] \in 1..all,
           \A i \in 1..n, j \in 1..n : i < j => events[i] < events[j],
           Draining(b, st, k, events, m - 1, n, all),
           b2 = BroadcastTo(b, k, events[m])
    PROVE  Draining(b2, st, k, events, m, n, all)
<1>1. PICK ev \in Nat : ev = events[m] /\ ev > 0 /\ ev <= all
  OBVIOUS
<1>2. Typed(b) /\ Ordered(b.conn, b.replay) /\ Upto(b.conn, k, all)
  BY DEF Draining
<1>3. PICK to \in SUBSET Conns :
             /\ to = {c \in Registered : b.conn[c].cred = k /\ Receives(b.conn[c])}
             /\ Sending(b, b2, to, ev)
  BY <1>1, <1>2, BroadcastSends
<1>4. m \in ((m - 1) + 1)..n
  OBVIOUS
<1>5. Upto(b.conn, k, ev - 1)
  BY <1>1, <1>4 DEF Draining
<1>6. \A c \in to : b.conn[c].cred = k /\ Heard(b.conn[c].sent, b.conn[c].cred, ev - 1)
  BY <1>3, <1>5 DEF Upto
<1>7. /\ Ordered(b2.conn, b2.replay)
      /\ \A j : \A e \in Nat :
           /\ Upto(b.conn, j, e) /\ (ev <= e \/ \A c \in to : b.conn[c].cred # j)
           => Upto(b2.conn, j, e)
  BY <1>2, <1>3, <1>6, SendingInLine
<1>8. Typed(b2)
  BY <1>3 DEF Sending
<1>9. Upto(b2.conn, k, all)
  BY <1>1, <1>2, <1>7
<1>10. ASSUME NEW i \in (m + 1)..n
       PROVE  Upto(b2.conn, k, events[i] - 1)
  <2>1. i \in ((m - 1) + 1)..n /\ i \in 1..n /\ m < i
    OBVIOUS
  <2>2. events[i] - 1 \in Nat /\ ev <= events[i] - 1
    BY <1>1, <2>1
  <2>3. Upto(b.conn, k, events[i] - 1)
    BY <2>1 DEF Draining
  <2> QED
    BY <1>7, <2>2, <2>3
<1>11. ASSUME NEW j, NEW e \in Nat, j # k, Upto(st.conn, j, e)
       PROVE  Upto(b2.conn, j, e)
  <2>1. Upto(b.conn, j, e)
    BY <1>11 DEF Draining
  <2> QED
    BY <1>6, <1>7, <1>11, <2>1
<1> QED
  BY <1>7, <1>8, <1>9, <1>10, <1>11 DEF Draining

\* A queue that is let go keeps the line.
LEMMA DrainedInLine ==
    ASSUME NEW st, Typed(st), registry \in Seq(Conns \union {None}),
           NEW k \in Credentials, NEW events \in Seq(Nat), NEW all \in Nat,
           Ordered(st.conn, st.replay), Upto(st.conn, k, all),
           \A i \in DOMAIN events : events[i] \in 1..all /\ Upto(st.conn, k, events[i] - 1),
           \A i, j \in DOMAIN events : i < j => events[i] < events[j],
           NEW st2, st2 = Drained(st, k, events)
    PROVE  /\ Ordered(st2.conn, st2.replay) /\ Upto(st2.conn, k, all)
           /\ \A j : \A e \in Nat : j # k /\ Upto(st.conn, j, e) => Upto(st2.conn, j, e)
<1>1. PICK n \in Nat : n = Len(events) /\ DOMAIN events = 1..n
  BY LenProperties
<1>a. PICK a : DrainsTo(a, st, k, events, n, Drained(st, k, events))
  BY <1>1, DrainedIs, Zenon
<1>2. /\ a[0] = st
      /\ \A i \in 1..n : a[i] = BroadcastTo(a[i - 1], k, events[i])
      /\ Drained(st, k, events) = a[n]
  BY <1>a DEF DrainsTo
<1> DEFINE T == {m \in 0..n : ~ Draining(a[m], st, k, events, m, n, all)}
<1>3. T = {}
  <2>1. SUFFICES ASSUME T # {} PROVE FALSE
    OBVIOUS
  <2>2. T \in SUBSET Nat
    OBVIOUS
  <2>3. PICK m \in T : \A l \in T : m <= l
    <3> HIDE DEF T
    <3> QED
      BY <2>1, <2>2, LeastNatural
  <2>4. m \in 0..n /\ ~ Draining(a[m], st, k, events, m, n, all)
    BY <2>3
  <2>5. m # 0
    <3>1. \A i \in (0 + 1)..n : i \in DOMAIN events
      BY <1>1
    <3>2. \A i \in (0 + 1)..n : Upto(st.conn, k, events[i] - 1)
      BY <3>1
    <3>3. Draining(st, st, k, events, 0, n, all)
      BY <3>2 DEF Draining
    <3> QED
      BY <1>2, <2>4, <3>3
  <2>6. m \in 1..n /\ m - 1 \in 0..n /\ ~(m <= m - 1)
    BY <2>4, <2>5
  <2>7. Draining(a[m - 1], st, k, events, m - 1, n, all)
    BY <2>3, <2>6
  <2>8. a[m] = BroadcastTo(a[m - 1], k, events[m])
    BY <1>2, <2>6
  <2>9. /\ \A i \in 1..n : events[i] \in 1..all
        /\ \A i \in 1..n, j \in 1..n : i < j => events[i] < events[j]
    BY <1>1
  <2>10. PICK b, b2 : b = a[m - 1] /\ b2 = a[m]
    OBVIOUS
  <2>11. Draining(b2, st, k, events, m, n, all)
    BY <2>6, <2>7, <2>8, <2>9, <2>10, DrainsNext
  <2> QED
    BY <2>4, <2>10, <2>11
<1>4. Draining(a[n], st, k, events, n, n, all)
  BY <1>3
<1> QED
  BY <1>2, <1>4 DEF Draining

\* A broadcast, queued or not, keeps the line.
LEMMA BroadcastInLine ==
    ASSUME TypeOK, LineInv, NEW k \in Credentials, Broadcast(k)
    PROVE  LineInv'
<1>1. PICK n \in Nat : n = Len(at)
  BY TypeIs, LenProperties
<1>2. Len(at') = n + 1
  BY <1>1, TypeIs DEF Broadcast
<1>3. \A j \in Credentials : Queued(pending[j], conn, j, n)
  BY <1>1 DEF LineInv
<1>5. \A j : Upto(conn, j, n) => Upto(conn, j, n + 1)
  <2>1. SUFFICES ASSUME NEW j, Upto(conn, j, n), NEW c \in Conns
                 PROVE  Heard(conn[c].sent, j, n + 1)
    BY DEF Upto
  <2>2. conn[c].sent \in Seq(Frame) /\ Heard(conn[c].sent, j, n)
    BY <2>1, TypeIs DEF ConnsOK, Connection, Upto
  <2>3. PICK s \in Seq(Frame) : s = conn[c].sent
    BY <2>2
  <2>4. \A i \in DOMAIN s : s[i] \in Frame
    BY LenProperties, ElementOfSeq
  <2>5. \A i \in DOMAIN s : s[i].ev \in Nat
    BY <2>4 DEF Frame
  <2> QED
    BY <2>2, <2>3, <2>5 DEF Heard
<1>6. CASE pending[k].refcount > 0
  <2>1. PICK q : q = pending[k]
    OBVIOUS
  <2>2. q.events \in Seq(Nat) /\ q.refcount \in Nat
    BY <2>1, TypeIs DEF PendingOK
  <2>3. /\ pending'[k].refcount = q.refcount /\ pending'[k].events = Append(q.events, n + 1)
        /\ \A j \in Credentials : j # k => pending'[j] = pending[j]
        /\ conn' = conn /\ replay' = replay
    BY <1>1, <1>6, <2>1, TypeIs DEF Broadcast, PendingOK
  <2>4. PICK es : es = Append(q.events, n + 1)
    OBVIOUS
  <2>5. PICK m \in Nat : m = Len(q.events) /\ DOMAIN q.events = 1..m
    BY <2>2, LenProperties
  <2>6. DOMAIN es = 1..(m + 1) /\ es[m + 1] = n + 1 /\ \A i \in 1..m : es[i] = q.events[i]
    BY <2>2, <2>4, <2>5
  <2>7. \A i \in DOMAIN es : es[i] \in 1..(n + 1) /\ Upto(conn, k, es[i] - 1)
    <3>1. Queued(q, conn, k, n)
      BY <1>3, <2>1
    <3>2. SUFFICES ASSUME NEW i \in 1..(m + 1)
                   PROVE  es[i] \in 1..(n + 1) /\ Upto(conn, k, es[i] - 1)
      BY <2>6
    <3>3. CASE i = m + 1
      BY <2>6, <3>1, <3>3 DEF Queued
    <3>4. CASE i \in 1..m
      <4>1. q.events[i] \in 1..n /\ Upto(conn, k, q.events[i] - 1)
        BY <2>5, <3>1, <3>4 DEF Queued
      <4>2. \A x \in 1..n : x \in 1..(n + 1)
        OBVIOUS
      <4> QED
        BY <2>6, <3>4, <4>1, <4>2
    <3> QED
      BY <3>3, <3>4
  <2>8. \A i, j \in DOMAIN es : i < j => es[i] < es[j]
    <3>1. Queued(q, conn, k, n)
      BY <1>3, <2>1
    <3>2. SUFFICES ASSUME NEW i \in 1..(m + 1), NEW j \in 1..(m + 1), i < j
                   PROVE  es[i] < es[j]
      BY <2>6
    <3>3. i \in 1..m /\ es[i] = q.events[i] /\ q.events[i] \in 1..n
      BY <2>5, <2>6, <3>1, <3>2 DEF Queued
    <3>4. CASE j = m + 1
      BY <2>6, <3>3, <3>4
    <3>5. CASE j \in 1..m
      BY <2>5, <2>6, <3>1, <3>2, <3>3, <3>5 DEF Queued
    <3> QED
      BY <3>4, <3>5
  <2>9. ASSUME NEW j \in Credentials
        PROVE  Queued(pending'[j], conn', j, n + 1)
    <3>1. CASE j = k
      <4>1. Upto(conn, k, n + 1)
        BY <1>3, <1>5 DEF Queued
      <4>2. PICK p : p = pending'[k]
        OBVIOUS
      <4>3. p.events = es /\ p.refcount # 0
        BY <1>6, <2>1, <2>2, <2>3, <2>4, <4>2
      <4>4. Queued(p, conn, k, n + 1)
        BY <2>7, <2>8, <4>1, <4>3 DEF Queued
      <4> QED
        BY <2>3, <3>1, <4>2, <4>4
    <3>2. CASE j # k
      <4>1. Queued(pending[j], conn, j, n)
        BY <1>3
      <4>2. \A x \in 1..n : x \in 1..(n + 1)
        OBVIOUS
      <4> QED
        BY <1>5, <2>3, <3>2, <4>1, <4>2 DEF Queued
    <3> QED
      BY <3>1, <3>2
  <2> QED
    BY <1>2, <2>3, <2>9 DEF LineInv
<1>7. CASE ~(pending[k].refcount > 0)
  <2>1. PICK st2, to :
             /\ to \in SUBSET Conns /\ to = {c \in Registered : conn[c].cred = k /\ Receives(conn[c])}
             /\ Sending(Now, st2, to, Len(at) + 1)
             /\ conn' = st2.conn /\ replay' = st2.replay /\ pending' = pending
    BY <1>7, BroadcastIs
  <2>2. Typed(Now) /\ Now.conn = conn /\ Now.replay = replay
    BY NowIsTyped
  <2>3. pending[k].refcount = 0 /\ pending[k].events = <<>> /\ Upto(conn, k, n)
    BY <1>3, <1>7, TypeIs DEF Queued, PendingOK
  <2>4. \A c \in to : conn[c].cred = k /\ Heard(conn[c].sent, conn[c].cred, (n + 1) - 1)
    BY <2>1, <2>3 DEF Upto
  <2>5. Ordered(conn, replay) /\ n + 1 \in Nat /\ Sending(Now, st2, to, n + 1)
    BY <1>1, <2>1 DEF LineInv
  <2>6. /\ Ordered(st2.conn, st2.replay)
        /\ \A j : \A e \in Nat :
             Upto(conn, j, e) /\ (n + 1 <= e \/ \A c \in to : conn[c].cred # j)
             => Upto(st2.conn, j, e)
    <3>1. PICK st : st = Now
      OBVIOUS
    <3>2. /\ Typed(st) /\ st.conn = conn /\ Ordered(st.conn, st.replay)
          /\ Sending(st, st2, to, n + 1)
          /\ \A c \in to : Heard(st.conn[c].sent, st.conn[c].cred, (n + 1) - 1)
      BY <2>2, <2>4, <2>5, <3>1
    <3>3. \A e \in Nat : Sending(st, st2, to, e)
                         /\ (e > 0 => \A c \in to : Heard(st.conn[c].sent, st.conn[c].cred, e - 1))
             => /\ Ordered(st2.conn, st2.replay)
                /\ \A j : \A x \in Nat :
                     Upto(st.conn, j, x) /\ (e <= x \/ \A c \in to : st.conn[c].cred # j)
                     => Upto(st2.conn, j, x)
      BY <2>1, <3>2, SendingInLine
    <3> QED
      BY <2>5, <3>2, <3>3
  <2>7. ASSUME NEW j \in Credentials
        PROVE  Queued(pending[j], conn', j, n + 1)
    <3>1. Queued(pending[j], conn, j, n)
      BY <1>3
    <3>2. Upto(conn', j, n + 1)
      BY <1>5, <2>1, <2>6, <3>1 DEF Queued
    <3>3. CASE j = k
      BY <2>3, <3>2, <3>3 DEF Queued
    <3>4. CASE j # k
      <4>1. \A x \in 1..n : x \in 1..(n + 1) /\ x - 1 \in Nat
        OBVIOUS
      <4>2. \A e \in Nat : Upto(conn, j, e) => Upto(conn', j, e)
        BY <2>1, <2>4, <2>6, <3>4
      <4> QED
        BY <3>1, <3>2, <4>1, <4>2 DEF Queued
    <3> QED
      BY <3>3, <3>4
  <2> QED
    BY <1>2, <2>1, <2>6, <2>7 DEF LineInv
<1> QED
  BY <1>6, <1>7

\* Frames that are not live, at the end of what was sent.
LEMMA ReplayIsSilent ==
    ASSUME NEW s \in Seq(Frame), NEW fs \in Seq(Frame), \A i \in DOMAIN fs : ~fs[i].live
    PROVE  \A i \in DOMAIN (s \o fs) :
              (i \in DOMAIN s /\ (s \o fs)[i] = s[i]) \/ ~(s \o fs)[i].live
<1>1. PICK n \in Nat, m \in Nat : n = Len(s) /\ m = Len(fs) /\ DOMAIN s = 1..n
                                  /\ DOMAIN fs = 1..m
  BY LenProperties
<1>2. s \o fs \in Seq(Frame) /\ Len(s \o fs) = n + m
      /\ \A j \in 1..n + m : (s \o fs)[j] = IF j <= n THEN s[j] ELSE fs[j - n]
  BY <1>1, ConcatProperties
<1>3. DOMAIN (s \o fs) = 1..n + m
  BY <1>2, LenProperties
<1>4. \A j \in 1..n + m : IF j <= n THEN j \in 1..n ELSE j - n \in 1..m
  BY <1>1
<1> QED
  BY <1>1, <1>2, <1>3, <1>4

\* The steps that send nothing.
LEMMA SilentIs ==
    ASSUME NEW r, NEW r2
    PROVE  /\ r2.sent = r.sent => Silent(r, r2)
           /\ Kept(r, r2) => Silent(r, r2)
           /\ \A snap : Renewed(r, r2, snap) => Silent(r, r2)
           /\ \A l, era : Entered(r, r2, l, era) => Silent(r, r2)
<1>1. r2.sent = r.sent => Silent(r, r2)
  BY DEF Silent
<1> QED
  BY <1>1 DEF Kept, Renewed, Entered

\* One connection changes and is sent nothing.
LEMMA OneSilent ==
    ASSUME TypeOK, NEW c \in Conns, NEW r2, Silent(conn[c], r2),
           NEW cn, cn = [conn EXCEPT ![c] = r2]
    PROVE  \A d \in Conns : Silent(conn[d], cn[d])
<1>1. conn \in [Conns -> Connection]
  BY DEF TypeOK
<1> QED
  BY <1>1, SilentIs

\* A welcome keeps the line: the replayed frames are not live.
LEMMA GreetInLine ==
    ASSUME TypeOK, LineInv, NEW g \in greets, Greet(g)
    PROVE  LineInv'
<1>1. PICK r2, st :
             /\ r2 \in Connection
             /\ g \in Greeting /\ Welcomed(conn[g.conn], r2, g) /\ ConnectionOK(r2)
             /\ st = [conn |-> [conn EXCEPT ![g.conn] = r2], replay |-> replay]
             /\ Typed(st)
             /\ \/ /\ g.recovery
                   /\ Sending(st, [conn |-> conn', replay |-> replay'], {g.conn}, 0)
                \/ /\ ~g.recovery
                   /\ replay' = replay
                   /\ conn' = [conn EXCEPT ![g.conn] = sendFrames(r2, ReplayedFrames(g))]
  BY GreetIs
<1> r2 \in Connection
  BY <1>1
<1>2. PICK d \in Conns : d = g.conn
  BY <1>1 DEF Greeting
<1>3. PICK cn : cn = [conn EXCEPT ![d] = r2]
  OBVIOUS
<1>4. r2.sent = conn[d].sent
  BY <1>1, <1>2 DEF Welcomed
<1>5. \A e \in Conns : Silent(conn[e], cn[e])
  BY <1>3, <1>4, SilentIs, OneSilent
<1>6. st.conn = cn /\ st.replay = replay
  BY <1>1, <1>2, <1>3
<1>7. pending' = pending /\ at' = at
  BY DEF Greet
<1>8. CASE g.recovery
  <2>1. PICK st2 : st2 = [conn |-> conn', replay |-> replay']
    OBVIOUS
  <2>2. st2.conn = conn' /\ st2.replay = replay' /\ Sending(st, st2, {d}, 0)
    BY <1>1, <1>2, <1>8, <2>1
  <2>3. \A e \in Conns : Silent(conn[e], st.conn[e]) /\ Silent(st2.conn[e], conn'[e])
    BY <1>5, <1>6, <2>2, SilentIs
  <2>4. PICK to : to = {d} /\ to \subseteq Conns
    OBVIOUS
  <2> QED
    BY <1>1, <1>6, <1>7, <2>2, <2>3, <2>4, OwnInLine
<1>9. CASE ~g.recovery
  <2>1. PICK fs : fs = ReplayedFrames(g)
    OBVIOUS
  <2>2. /\ fs \in Seq(Frame) /\ DOMAIN fs = DOMAIN g.frames
        /\ \A i \in DOMAIN g.frames : fs[i] = Replayed(g, g.frames[i])
    BY <1>1, <2>1, ReplayedIs
  <2>3. \A i \in DOMAIN fs : ~fs[i].live
    <3>1. \A n : Replayed(g, n).live = FALSE
      BY DEF Replayed
    <3> QED
      BY <2>2, <3>1
  <2>4. PICK r3 : r3 = sendFrames(r2, fs)
    OBVIOUS
  <2>5. r3.sent = IF r2.sock = "open" THEN r2.sent \o fs ELSE r2.sent
    BY <2>2, <2>4, SendFramesKeeps
  <2>6. PICK s \in Seq(Frame) : s = r2.sent
    BY DEF Connection
  <2>7. \A i \in DOMAIN (s \o fs) :
           (i \in DOMAIN s /\ (s \o fs)[i] = s[i]) \/ ~(s \o fs)[i].live
    BY <2>2, <2>3, <2>6, ReplayIsSilent
  <2>8. Silent(conn[d], r3)
    BY <1>4, <2>5, <2>6, <2>7 DEF Silent
  <2>9. conn' = [conn EXCEPT ![d] = r3] /\ replay' = replay
    BY <1>1, <1>2, <1>9, <2>1, <2>4
  <2>10. \A e \in Conns : Silent(conn[e], conn'[e])
    BY <2>8, <2>9, OneSilent
  <2> QED
    BY <1>7, <2>9, <2>10, QuietInLine
<1> QED
  BY <1>8, <1>9

\* An invalidation that returns keeps the line, whether or not it lets the queue go.
LEMMA InvalidateInLine ==
    ASSUME TypeOK, LineInv, NEW i, NEW l, Returns(i, l), l.kind = "invalidate",
           NEW outcome, InvalidateResumed(l, outcome)
    PROVE  LineInv'
<1>1. PICK cn :
             /\ ConnsOK(cn) /\ \A c \in Conns : Forth(conn[c], cn[c])
             /\ \A c \in Conns : /\ Writes(l, c) => Renewed(conn[c], cn[c], l.snap)
                                 /\ ~Writes(l, c) => cn[c] = conn[c]
             /\ \/ /\ pending[l.cred].refcount - 1 > 0
                   /\ pending' = [pending EXCEPT ![l.cred].refcount =
                                    pending[l.cred].refcount - 1]
                   /\ conn' = cn /\ replay' = replay
                \/ /\ ~(pending[l.cred].refcount - 1 > 0)
                   /\ pending' = [pending EXCEPT ![l.cred] = NoInvalidation]
                   /\ \E st, st2 :
                        /\ st.conn = cn /\ st.replay = replay /\ Typed(st)
                        /\ st2 = Drained(st, l.cred, pending[l.cred].events)
                        /\ conn' = st2.conn /\ replay' = st2.replay
  BY InvalidateIs
<1>2. PICK k \in Credentials : k = l.cred
  BY ReturnsIs
<1>3. PICK q : q = pending[k] /\ q.refcount \in Nat /\ q.events \in Seq(Nat)
  BY TypeIs DEF PendingOK
<1>4. at' = at /\ Len(at) \in Nat
  BY TypeIs, LenProperties DEF Returns
<1>5. \A c \in Conns : Silent(conn[c], cn[c])
  BY <1>1, SilentIs
<1>6. CASE /\ q.refcount - 1 > 0
           /\ pending' = [pending EXCEPT ![k].refcount = q.refcount - 1]
           /\ conn' = cn /\ replay' = replay
  <2>1. \A j \in Credentials : /\ pending'[j].events = pending[j].events
                               /\ pending'[j].refcount = 0 => pending[j].refcount = 0
    BY <1>3, <1>6, TypeIs DEF PendingOK
  <2> QED
    BY <1>4, <1>5, <1>6, <2>1, QuietInLine
<1>7. ASSUME NEW st, NEW st2, pending' = [pending EXCEPT ![k] = NoInvalidation],
             st.conn = cn, st.replay = replay, Typed(st),
             st2 = Drained(st, k, q.events), conn' = st2.conn, replay' = st2.replay
      PROVE  LineInv'
  <2>1. Ordered(st.conn, st.replay) /\ \A j, e : Upto(conn, j, e) => Upto(st.conn, j, e)
    BY <1>5, <1>7, SilentStays DEF LineInv, Ordered, Upto
  <2>2. Queued(q, conn, k, Len(at))
    BY <1>3 DEF LineInv
  <2>3. PICK n \in Nat : n = Len(at)
    BY <1>4
  <2>4. /\ Upto(st.conn, k, n)
        /\ \A x \in DOMAIN q.events : q.events[x] \in 1..n /\ Upto(st.conn, k, q.events[x] - 1)
        /\ \A x, y \in DOMAIN q.events : x < y => q.events[x] < q.events[y]
    BY <2>1, <2>2, <2>3 DEF Queued
  <2>5. registry \in Seq(Conns \union {None})
    BY TypeIs
  <2>6. PICK events \in Seq(Nat) : events = q.events
    BY <1>3
  <2>7. /\ Ordered(st2.conn, st2.replay) /\ Upto(st2.conn, k, n)
        /\ \A j : \A e \in Nat : j # k /\ Upto(st.conn, j, e) => Upto(st2.conn, j, e)
    <3>1. /\ st2 = Drained(st, k, events) /\ Typed(st) /\ Ordered(st.conn, st.replay)
      BY <1>7, <2>1, <2>6
    <3>2. /\ \A x \in DOMAIN events : events[x] \in 1..n /\ Upto(st.conn, k, events[x] - 1)
          /\ \A x, y \in DOMAIN events : x < y => events[x] < events[y]
      BY <2>4, <2>6
    <3> QED
      BY <2>4, <2>5, <3>1, <3>2, DrainedInLine, ZenonT(60)
  <2>8. ASSUME NEW j \in Credentials
        PROVE  Queued(pending'[j], conn', j, n)
    <3>1. CASE j = k
      <4>1. pending'[j] = NoInvalidation
        BY <1>7, <3>1, TypeIs DEF PendingOK
      <4>2. NoInvalidation.events = <<>> /\ DOMAIN NoInvalidation.events = {}
        BY DEF NoInvalidation
      <4> QED
        BY <1>7, <2>7, <3>1, <4>1, <4>2 DEF Queued
    <3>2. CASE j # k
      <4>1. pending'[j] = pending[j]
        BY <1>7, <3>2, TypeIs DEF PendingOK
      <4>2. Queued(pending[j], conn, j, n)
        BY <2>3 DEF LineInv
      <4>3. \A e \in Nat : Upto(conn, j, e) => Upto(conn', j, e)
        BY <1>7, <2>1, <2>7, <3>2
      <4>4. \A x \in 1..n : x - 1 \in Nat
        OBVIOUS
      <4> QED
        BY <4>1, <4>2, <4>3, <4>4 DEF Queued
    <3> QED
      BY <3>1, <3>2
  <2> QED
    BY <1>4, <1>7, <2>3, <2>7, <2>8 DEF LineInv
<1> QED
  BY <1>1, <1>2, <1>3, <1>6, <1>7

\* The lookups that return keep the line.
LEMMA ReturnsInLine ==
    ASSUME TypeOK, LineInv, NEW i, NEW l, Returns(i, l), NEW outcome, NEW malformed,
           Resumes(l, outcome, malformed)
    PROVE  LineInv'
<1>1. at' = at
  BY DEF Returns
<1>2. CASE l.kind = "auth" /\ AuthResumed(l, outcome) /\ UNCHANGED <<replay, pending>>
  <2>1. CASE AllKept
    BY <1>1, <1>2, <2>1, SilentIs, QuietInLine DEF AllKept
  <2>2. CASE ~AllKept
    <3>1. PICK r2 \in Connection : /\ l.conn \in Conns /\ Entered(conn[l.conn], r2, l, Era)
                                   /\ conn' = [conn EXCEPT ![l.conn] = r2]
      BY <1>2, <2>2, AuthIs
    <3>2. PICK c \in Conns : c = l.conn
      BY <3>1
    <3>3. Silent(conn[c], r2)
      BY <3>1, <3>2, SilentIs
    <3>4. \A d \in Conns : Silent(conn[d], conn'[d])
      BY <3>1, <3>2, <3>3, OneSilent
    <3> QED
      BY <1>1, <1>2, <3>4, QuietInLine
  <2> QED
    BY <2>1, <2>2
<1>3. CASE l.kind = "beat" /\ BeatResumed(l, outcome) /\ UNCHANGED pending
  <2>1. PICK r2, st, st2 :
             /\ r2 \in Connection
             /\ l.conn \in Conns /\ Renewed(conn[l.conn], r2, l.snap) /\ ConnectionOK(r2)
             /\ st = [conn |-> [conn EXCEPT ![l.conn] = r2], replay |-> replay]
             /\ Typed(st)
             /\ st2 = st \/ Sending(st, st2, {l.conn}, 0)
             /\ conn' = st2.conn /\ replay' = st2.replay
    BY <1>3, BeatIs
  <2>2. PICK c \in Conns : c = l.conn
    BY <2>1
  <2>3. PICK cn : cn = [conn EXCEPT ![c] = r2]
    OBVIOUS
  <2>4. Silent(conn[c], r2)
    BY <2>1, <2>2, SilentIs
  <2>5. \A d \in Conns : Silent(conn[d], cn[d])
    BY <2>3, <2>4, OneSilent
  <2>6. st.conn = cn /\ st.replay = replay
    BY <2>1, <2>2, <2>3
  <2>7. CASE st2 = st
    <3>1. conn' = cn /\ replay' = replay
      BY <2>1, <2>6, <2>7
    <3> QED
      BY <1>1, <1>3, <2>5, <3>1, QuietInLine
  <2>8. CASE Sending(st, st2, {c}, 0)
    <3>1. \A d \in Conns : Silent(conn[d], st.conn[d]) /\ Silent(st2.conn[d], conn'[d])
      BY <2>1, <2>5, <2>6, SilentIs
    <3>2. PICK to : to = {c} /\ to \subseteq Conns
      OBVIOUS
    <3> QED
      BY <1>1, <1>3, <2>1, <2>6, <2>8, <3>1, <3>2, OwnInLine
  <2> QED
    BY <2>1, <2>2, <2>7, <2>8
<1>4. CASE l.kind = "request" /\ RequestResumed(l, outcome, malformed)
           /\ UNCHANGED <<replay, pending>>
  <2>1. PICK r1 \in Connection, r2 \in Connection :
             /\ l.conn \in Conns /\ conn' = [conn EXCEPT ![l.conn] = r2]
             /\ Renewed(conn[l.conn], r1, l.snap)
             /\ r2 = r1 \/ Responded(r1, r2, l.arg, {}) \/ Accepted(r1, r2, l.arg)
    <3>1. PICK r1 \in Connection, r2 \in Connection :
             /\ l.conn \in Conns /\ l.arg \in Ids /\ conn' = [conn EXCEPT ![l.conn] = r2]
             /\ Renewed(conn[l.conn], r1, l.snap) /\ ConnectionOK(r2)
             /\ Forth(conn[l.conn], r2)
             /\ \/ r2 = r1 /\ routes' = routes
                \/ Responded(r1, r2, l.arg, {}) /\ routes' = routes
                \/ /\ Accepted(r1, r2, l.arg)
                   /\ routes' = routes \union {[conn |-> l.conn, cred |-> l.cred, id |-> l.arg]}
      BY <1>4, RequestIs
    <3> QED
      BY <3>1
  <2>2. PICK c \in Conns : c = l.conn
    BY <2>1
  <2>3. r1.sent = conn[c].sent
    BY <2>1, <2>2 DEF Renewed
  <2>4. r2.sent = r1.sent
    BY <2>1 DEF Responded, Accepted
  <2>5. Silent(conn[c], r2)
    BY <2>3, <2>4, SilentIs
  <2>6. \A d \in Conns : Silent(conn[d], conn'[d])
    BY <2>1, <2>2, <2>5, OneSilent
  <2> QED
    BY <1>1, <1>4, <2>6, QuietInLine
<1>5. CASE l.kind = "resync" /\ ResyncResumed(l, outcome) /\ UNCHANGED <<replay, pending>>
  <2>1. PICK r1 \in Connection, r2 \in Connection :
             /\ l.conn \in Conns /\ l.arg \in Ids /\ conn' = [conn EXCEPT ![l.conn] = r2]
             /\ ConnectionOK(r2) /\ Forth(conn[l.conn], r2)
             /\ r1 = conn[l.conn] \/ Renewed(conn[l.conn], r1, l.snap)
             /\ \/ r2 = r1
                \/ l.arg \in r1.inflight /\ Responded(r1, r2, l.arg, {l.arg})
    BY <1>5, ResyncIs
  <2>2. PICK c \in Conns : c = l.conn
    BY <2>1
  <2>3. r1.sent = conn[c].sent
    BY <2>1, <2>2 DEF Renewed
  <2>4. r2.sent = r1.sent
    BY <2>1 DEF Responded
  <2>5. Silent(conn[c], r2)
    BY <2>3, <2>4, SilentIs
  <2>6. \A d \in Conns : Silent(conn[d], conn'[d])
    BY <2>1, <2>2, <2>5, OneSilent
  <2> QED
    BY <1>1, <1>5, <2>6, QuietInLine
<1>6. CASE l.kind = "invalidate" /\ InvalidateResumed(l, outcome)
  BY <1>6, InvalidateInLine
<1> QED
  BY <1>2, <1>3, <1>4, <1>5, <1>6 DEF Resumes

\* The begin of stop() keeps the line.
LEMMA StopInLine ==
    ASSUME TypeOK, LineInv, StopBegin
    PROVE  LineInv'
<1>1. PICK st2, to :
             /\ to \in SUBSET Conns /\ Sending(Now, st2, to, 0)
             /\ replay' = st2.replay
             /\ conn' = [c \in Conns |-> IF c \in to THEN transition(st2.conn[c], "draining")
                                         ELSE st2.conn[c]]
  BY StopBeginIs
<1>2. PICK st : st = Now
  OBVIOUS
<1>3. Typed(st) /\ st.conn = conn /\ st.replay = replay /\ Sending(st, st2, to, 0)
  BY <1>1, <1>2, NowIsTyped
<1>4. ASSUME NEW c \in Conns
      PROVE  Silent(conn[c], st.conn[c]) /\ Silent(st2.conn[c], conn'[c])
  <2>1. PICK r2 \in Connection : r2 = st2.conn[c]
    BY <1>3 DEF Sending, Typed
  <2>2. transition(r2, "draining").sent = r2.sent
    BY DEF transition, Connection
  <2>3. conn'[c].sent = r2.sent
    BY <1>1, <2>1, <2>2
  <2> QED
    BY <1>3, <2>1, <2>3, SilentIs
<1>5. pending' = pending /\ at' = at
  BY DEF StopBegin
<1> QED
  BY <1>1, <1>3, <1>4, <1>5, OwnInLine

\* Every step keeps the line.
LEMMA StepInLine ==
    ASSUME TypeOK, LineInv, Step
    PROVE  LineInv'
<1>1. CASE Quiet
  BY <1>1, SilentIs, QuietInLine DEF Quiet, AllKept
<1>2. CASE Calling
  BY <1>2, SilentIs, QuietInLine DEF Calling, Calls, AllKept
<1>3. ASSUME NEW c \in Conns, NEW id \in Ids, Asks(c, id)
      PROVE  LineInv'
  <2>1. PICK r2 : r2 = [conn[c] EXCEPT !.asked = @ \union {id}]
    OBVIOUS
  <2>2. conn' = [conn EXCEPT ![c] = r2] /\ UNCHANGED <<replay, pending, at>>
    BY <1>3, <2>1 DEF Asks, Calls
  <2>3. r2.sent = conn[c].sent
    BY <2>1, TypeIs DEF ConnsOK, Connection
  <2>4. Silent(conn[c], r2)
    BY <2>3, SilentIs
  <2>5. \A d \in Conns : Silent(conn[d], conn'[d])
    BY <2>2, <2>4, OneSilent
  <2> QED
    BY <2>2, <2>5, QuietInLine
<1>4. CASE Settling
  <2>1. UNCHANGED <<replay, pending, at>>
    BY <1>4 DEF Settling, SettlesOnly
  <2>2. CASE conn' = conn
    BY <2>1, <2>2, SilentIs, QuietInLine
  <2>3. ASSUME NEW c \in Conns, NEW id \in Ids, Settles(c, id)
        PROVE  LineInv'
    <3>1. PICK r2 \in Connection : conn' = [conn EXCEPT ![c] = r2]
                                   /\ Responded(conn[c], r2, id, {id})
      BY <2>3 DEF Settles
    <3>2. Silent(conn[c], r2)
      BY <3>1, SilentIs DEF Responded
    <3>3. \A d \in Conns : Silent(conn[d], conn'[d])
      BY <3>1, <3>2, OneSilent
    <3> QED
      BY <2>1, <3>3, QuietInLine
  <2> QED
    BY <1>4, <2>2, <2>3 DEF Settling
<1>5. CASE \E g \in greets : Greet(g)
  BY <1>5, GreetInLine
<1>6. CASE \E k \in Credentials : Broadcast(k)
  BY <1>6, BroadcastInLine
<1>7. ASSUME NEW k \in Credentials, NEW l, Invalidates(l, k)
      PROVE  LineInv'
  <2>1. conn' = conn /\ UNCHANGED <<replay, at>>
    BY <1>7 DEF Invalidates
  <2>2. \A j \in Credentials : /\ pending'[j].events = pending[j].events
                               /\ pending'[j].refcount = 0 => pending[j].refcount = 0
    BY <1>7, TypeIs DEF Invalidates, PendingOK
  <2> QED
    BY <2>1, <2>2, SilentIs, QuietInLine
<1>8. CASE StopBegin
  BY <1>8, StopInLine
<1>9. ASSUME NEW i, NEW l, NEW outcome, NEW malformed,
             Returns(i, l), Resumes(l, outcome, malformed)
      PROVE  LineInv'
  BY <1>9, ReturnsInLine
<1> QED
  BY <1>1, <1>2, <1>3, <1>4, <1>5, <1>6, <1>7, <1>8, <1>9 DEF Step

\* On every connection the live frames of a credential carry rising numbers, as
\* long as they come from one replay state, and its events arrive in the order
\* of the broadcasts, each at most once: queueing behind an invalidation
\* (server.ts 504-534) and draining (599-612) reorder nothing.
THEOREM WsLiveFramesInOrder == Spec => []LiveFramesInOrder
<1>1. Init => LineInv
  <2>1. SUFFICES ASSUME Init PROVE LineInv
    OBVIOUS
  <2>2. \A c \in Conns : conn[c].sent = <<>>
    BY <2>1 DEF Init, FreshConnection
  <2>3. DOMAIN <<>> = {} /\ Len(<<>>) = 0
    OBVIOUS
  <2>4. Ordered(conn, replay) /\ \A k, e : Upto(conn, k, e)
    BY <2>2, <2>3 DEF Ordered, Upto, InLine, Below, Heard
  <2>5. \A k \in Credentials : pending[k].events = <<>>
    BY <2>1 DEF Init, NoInvalidation
  <2> QED
    BY <2>3, <2>4, <2>5 DEF LineInv, Queued
<1>2. TypeOK /\ LineInv /\ [Next]_vars => LineInv'
  <2>1. ASSUME TypeOK, LineInv, Next
        PROVE  LineInv'
    BY <2>1, NextIsStep, StepInLine
  <2>2. ASSUME LineInv, UNCHANGED vars
        PROVE  LineInv'
    BY <2>2 DEF vars, LineInv
  <2> QED
    BY <2>1, <2>2
<1>3. LineInv => LiveFramesInOrder
  BY DEF LineInv, Ordered, InLine, LiveFramesInOrder
<1> QED
  BY <1>1, <1>2, <1>3, WsTypeCorrect, PTL DEF Spec

(***************************************************************************)
(* The records that connections hold, and the lookups that bring them.     *)
(* While lookups are answered in order, an invalidation in flight is ahead *)
(* of everything that was looked up after its change: the record of a      *)
(* connection that is up is outdated only while one is still to come.      *)
(***************************************************************************)
\* A connection that events of credential k can be projected on.
Up(r, k) == /\ r.sock \in {"open", "unused"} /\ r.phase = "active"
            /\ r.cred = k /\ r.snap.cred = k

\* The connection does not come up, and holds the record that it held.
Calm(r, r2) ==
    /\ r2.phase = "active" => r.phase = "active"
    /\ \A k : Up(r2, k) => Up(r, k) /\ r2.snap = r.snap

\* The same, or it holds what lookup l read.
Learned(r, r2, l) == \A k \in Credentials :
                        Up(r2, k) => (Up(r, k) /\ r2.snap = r.snap) \/ r2.snap = l.snap

\* No event was sent.
Eventless(r, r2) ==
    \A i \in DOMAIN r2.sent :
        \/ i \in DOMAIN r.sent /\ r2.sent[i] = r.sent[i]
        \/ ~r2.sent[i].live \/ r2.sent[i].ev = 0

\* What the steps of a connection do keeps it calm, and sends no event.
LEMMA CalmIs ==
    ASSUME NEW r, NEW r2
    PROVE  /\ Same(r, r2) => Calm(r, r2)
           /\ Kept(r, r2) => Calm(r, r2) /\ Eventless(r, r2)
           /\ \A g : Welcomed(r, r2, g) => Calm(r, r2) /\ Eventless(r, r2)
           /\ \A id, done : Responded(r, r2, id, done) => Calm(r, r2) /\ Eventless(r, r2)
           /\ \A id : Accepted(r, r2, id) => Calm(r, r2) /\ Eventless(r, r2)
           /\ r2 = r => Calm(r, r2) /\ Eventless(r, r2)
<1>1. Same(r, r2) => Calm(r, r2)
  BY DEF Same, Calm, Up
<1>2. r2.sent = r.sent => Eventless(r, r2)
  BY DEF Eventless
<1>3. r2.cred = r.cred /\ r2.snap = r.snap /\ r2.sock = r.sock /\ r2.phase = r.phase
      => Calm(r, r2)
  BY DEF Calm, Up
<1> QED
  BY <1>1, <1>2, <1>3 DEF Kept, Welcomed, Responded, Accepted

\* One such step after another.
LEMMA CalmGoesOn ==
    ASSUME NEW a, NEW b, NEW c
    PROVE  /\ Calm(a, b) /\ Calm(b, c) => Calm(a, c)
           /\ Eventless(a, b) /\ Eventless(b, c) => Eventless(a, c)
           /\ \A l : Learned(a, b, l) /\ Calm(b, c) => Learned(a, c, l)
           /\ \A l : Calm(a, b) => Learned(a, b, l)
<1>1. Calm(a, b) /\ Calm(b, c) => Calm(a, c)
  BY DEF Calm
<1>2. Eventless(a, b) /\ Eventless(b, c) => Eventless(a, c)
  BY DEF Eventless
<1>3. ASSUME NEW l, Learned(a, b, l), Calm(b, c)
      PROVE  Learned(a, c, l)
  BY <1>3 DEF Learned, Calm
<1>4. \A l : Calm(a, b) => Learned(a, b, l)
  BY DEF Learned, Calm
<1> QED
  BY <1>1, <1>2, <1>3, <1>4

\* A lookup that returns leaves a connection that stays open with what it read.
LEMMA RenewedLearns ==
    ASSUME NEW r, ConnectionOK(r), NEW r2, NEW l, Renewed(r, r2, l.snap)
    PROVE  /\ Learned(r, r2, l) /\ Eventless(r, r2)
           /\ r2.phase = "active" => r.phase = "active"
<1>1. r.sock = "unused" => r.cred = None
  BY DEF ConnectionOK
<1>2. Learned(r, r2, l)
  BY <1>1, SizesAssumption DEF Renewed, Learned, Up
<1>3. Eventless(r, r2)
  BY DEF Renewed, Eventless
<1> QED
  BY <1>2, <1>3 DEF Renewed

\* What is on a connection after one more frame.
LEMMA OneFrame ==
    ASSUME NEW r \in Connection, NEW r2, NEW f, SentOn(r, r2, f)
    PROVE  \A i \in DOMAIN r2.sent :
              \/ i \in DOMAIN r.sent /\ r2.sent[i] = r.sent[i]
              \/ r.sock = "open" /\ r2.sent[i] = f
<1>1. PICK s \in Seq(Frame) : s = r.sent
  BY DEF Connection
<1>2. PICK n \in Nat : n = Len(s) /\ DOMAIN s = 1..n
  BY <1>1, LenProperties
<1>3. /\ DOMAIN Append(s, f) = 1..(n + 1) /\ Append(s, f)[n + 1] = f
      /\ \A i \in 1..n : Append(s, f)[i] = s[i]
  BY <1>1, <1>2
<1>4. \A i \in 1..(n + 1) : i \in 1..n \/ i = n + 1
  BY <1>2
<1>5. r2.sent = s \/ (r.sock = "open" /\ r2.sent = Append(s, f))
  BY <1>1 DEF SentOn
<1> QED
  BY <1>1, <1>2, <1>3, <1>4, <1>5

\* sendSequenced is calm, and sends no event when it sends the server's own.
LEMMA SendingIsCalm ==
    ASSUME NEW st, NEW st2, NEW to, NEW ev \in Nat, Typed(st), to \subseteq Conns,
           Sending(st, st2, to, ev), NEW c \in Conns
    PROVE  Calm(st.conn[c], st2.conn[c]) /\ (ev = 0 => Eventless(st.conn[c], st2.conn[c]))
<1>1. Same(st.conn[c], st2.conn[c])
  BY SendingProgresses DEF Progress, Grown
<1>2. CASE c \notin to
  BY <1>2, CalmIs DEF Sending
<1>3. CASE c \in to
  <2>1. PICK f : FrameFor(f, st.conn[c], ev) /\ SentOn(st.conn[c], st2.conn[c], f)
    BY <1>3 DEF Sending
  <2>2. st.conn[c] \in Connection
    BY DEF Typed
  <2>3. f.ev = ev
    BY <2>1 DEF FrameFor
  <2>4. PICK r, r2 : r = st.conn[c] /\ r2 = st2.conn[c]
    OBVIOUS
  <2>5. \A i \in DOMAIN r2.sent : \/ i \in DOMAIN r.sent /\ r2.sent[i] = r.sent[i]
                                  \/ r2.sent[i] = f
    BY <2>1, <2>2, <2>4, OneFrame
  <2>6. ev = 0 => Eventless(r, r2)
    BY <2>3, <2>5 DEF Eventless
  <2> QED
    BY <1>1, <2>4, <2>6, CalmIs
<1> QED
  BY <1>2, <1>3

\* One connection changes.
LEMMA OneIsCalm ==
    ASSUME TypeOK, NEW c \in Conns, NEW r2, Calm(conn[c], r2), Eventless(conn[c], r2),
           NEW cn, cn = [conn EXCEPT ![c] = r2]
    PROVE  \A d \in Conns : Calm(conn[d], cn[d]) /\ Eventless(conn[d], cn[d])
<1>1. conn \in [Conns -> Connection]
  BY DEF TypeOK
<1> QED
  BY <1>1, CalmIs

\* What a step leaves to the records: no connection comes up, gets another record
\* or is sent an event, and a lookup that starts reads the policy.
Harmless ==
    /\ \A c \in Conns : Calm(conn[c], conn'[c]) /\ Eventless(conn[c], conn'[c])
    /\ UpStaysIn
    /\ UNCHANGED <<policy, pending, at>>
    /\ lookups' = lookups \/ \E l : Calls(l) /\ l.kind # "invalidate"

\* A welcome is harmless.
LEMMA GreetIsHarmless ==
    ASSUME TypeOK, NEW g \in greets, Greet(g)
    PROVE  Harmless
<1>1. PICK r2, st :
             /\ r2 \in Connection
             /\ g \in Greeting /\ Welcomed(conn[g.conn], r2, g) /\ ConnectionOK(r2)
             /\ st = [conn |-> [conn EXCEPT ![g.conn] = r2], replay |-> replay]
             /\ Typed(st)
             /\ \/ /\ g.recovery
                   /\ Sending(st, [conn |-> conn', replay |-> replay'], {g.conn}, 0)
                \/ /\ ~g.recovery
                   /\ replay' = replay
                   /\ conn' = [conn EXCEPT ![g.conn] = sendFrames(r2, ReplayedFrames(g))]
  BY GreetIs
<1> r2 \in Connection
  BY <1>1
<1>2. PICK d \in Conns : d = g.conn
  BY <1>1 DEF Greeting
<1>3. PICK cn : cn = [conn EXCEPT ![d] = r2]
  OBVIOUS
<1>4. Calm(conn[d], r2) /\ Eventless(conn[d], r2)
  BY <1>1, <1>2, CalmIs
<1>5. \A e \in Conns : Calm(conn[e], cn[e]) /\ Eventless(conn[e], cn[e])
  BY <1>3, <1>4, OneIsCalm
<1>6. st.conn = cn
  BY <1>1, <1>2, <1>3
<1>7. /\ UNCHANGED <<policy, pending, at, lookups, registry>>
      /\ registry' = registry => UpStaysIn
  BY DEF Greet, UpStaysIn, Registered
<1>8. \A e \in Conns : Calm(conn[e], conn'[e]) /\ Eventless(conn[e], conn'[e])
  <2>1. CASE g.recovery
    <3>1. PICK st2, to : st2 = [conn |-> conn', replay |-> replay'] /\ to = {d}
      OBVIOUS
    <3>2. st2.conn = conn' /\ Sending(st, st2, to, 0) /\ to \subseteq Conns
      BY <1>1, <1>2, <2>1, <3>1
    <3>3. \A e \in Conns : Calm(cn[e], conn'[e]) /\ Eventless(cn[e], conn'[e])
      BY <1>1, <1>6, <3>2, SendingIsCalm
    <3> QED
      BY <1>5, <3>3, CalmGoesOn
  <2>2. CASE ~g.recovery
    <3>1. PICK fs : fs = ReplayedFrames(g)
      OBVIOUS
    <3>2. /\ fs \in Seq(Frame) /\ DOMAIN fs = DOMAIN g.frames
          /\ \A i \in DOMAIN g.frames : fs[i] = Replayed(g, g.frames[i])
      BY <1>1, <3>1, ReplayedIs
    <3>3. \A i \in DOMAIN fs : ~fs[i].live
      <4>1. \A n : Replayed(g, n).live = FALSE
        BY DEF Replayed
      <4> QED
        BY <3>2, <4>1
    <3>4. PICK r3 : r3 = sendFrames(r2, fs)
      OBVIOUS
    <3>5. /\ r3.sent = IF r2.sock = "open" THEN r2.sent \o fs ELSE r2.sent
          /\ Same(r2, r3)
      BY <3>2, <3>4, SendFramesKeeps
    <3>6. PICK s \in Seq(Frame) : s = r2.sent
      BY DEF Connection
    <3>7. \A i \in DOMAIN (s \o fs) :
             (i \in DOMAIN s /\ (s \o fs)[i] = s[i]) \/ ~(s \o fs)[i].live
      BY <3>2, <3>3, <3>6, ReplayIsSilent
    <3>8. Eventless(r2, r3)
      BY <3>5, <3>6, <3>7 DEF Eventless
    <3>9. Calm(conn[d], r3) /\ Eventless(conn[d], r3)
      BY <1>4, <3>5, <3>8, CalmIs, CalmGoesOn
    <3>10. conn' = [conn EXCEPT ![d] = r3]
      BY <1>1, <1>2, <2>2, <3>1, <3>4
    <3> QED
      BY <3>9, <3>10, OneIsCalm
  <2> QED
    BY <2>1, <2>2
<1> QED
  BY <1>7, <1>8 DEF Harmless

\* The begin of stop() is harmless.
LEMMA StopIsHarmless ==
    ASSUME TypeOK, StopBegin
    PROVE  Harmless
<1>1. PICK st2, to :
             /\ to \in SUBSET Conns /\ Sending(Now, st2, to, 0)
             /\ conn' = [c \in Conns |-> IF c \in to THEN transition(st2.conn[c], "draining")
                                         ELSE st2.conn[c]]
  BY StopBeginIs
<1>2. PICK st : st = Now
  OBVIOUS
<1>3. Typed(st) /\ st.conn = conn /\ Sending(st, st2, to, 0)
  BY <1>1, <1>2, NowIsTyped
<1>4. ASSUME NEW c \in Conns
      PROVE  Calm(conn[c], conn'[c]) /\ Eventless(conn[c], conn'[c])
  <2>1. PICK r2 \in Connection : r2 = st2.conn[c]
    BY <1>3 DEF Sending, Typed
  <2>2. PICK r3 : r3 = transition(r2, "draining")
    OBVIOUS
  <2>3. Kept(r2, r3)
    BY <2>2 DEF transition, canTransition, Connection, Kept, Same
  <2>4. conn'[c] = r2 \/ conn'[c] = r3
    BY <1>1, <2>1, <2>2
  <2>5. Calm(r2, conn'[c]) /\ Eventless(r2, conn'[c])
    BY <2>3, <2>4, CalmIs
  <2>6. Calm(conn[c], r2) /\ Eventless(conn[c], r2)
    BY <1>1, <1>3, <2>1, SendingIsCalm
  <2> QED
    BY <2>5, <2>6, CalmGoesOn
<1>5. /\ UNCHANGED <<policy, pending, at, lookups, registry>>
      /\ registry' = registry => UpStaysIn
  BY DEF StopBegin, UpStaysIn, Registered
<1> QED
  BY <1>4, <1>5 DEF Harmless

\* So are all steps but broadcasts, policy changes and lookups that return.
LEMMA HarmlessSteps ==
    ASSUME TypeOK,
           \/ Quiet \/ Calling \/ Settling \/ StopBegin
           \/ \E c \in Conns, id \in Ids : Asks(c, id)
           \/ \E g \in greets : Greet(g)
    PROVE  Harmless
<1>1. registry' = registry => UpStaysIn
  BY DEF UpStaysIn, Registered
<1>2. CASE Quiet
  BY <1>2, CalmIs DEF Quiet, AllKept, Harmless
<1>3. CASE Calling
  BY <1>1, <1>3, CalmIs DEF Calling, Calls, AllKept, Harmless
<1>4. CASE Settling
  <2>1. UNCHANGED <<policy, pending, at, lookups, registry>>
    BY <1>4 DEF Settling, SettlesOnly
  <2>2. CASE conn' = conn
    BY <1>1, <2>1, <2>2, CalmIs DEF Harmless
  <2>3. ASSUME NEW c \in Conns, NEW id \in Ids, Settles(c, id)
        PROVE  Harmless
    <3>1. PICK r2 \in Connection : conn' = [conn EXCEPT ![c] = r2]
                                   /\ Responded(conn[c], r2, id, {id})
      BY <2>3 DEF Settles
    <3>2. Calm(conn[c], r2) /\ Eventless(conn[c], r2)
      BY <3>1, CalmIs
    <3>3. \A d \in Conns : Calm(conn[d], conn'[d]) /\ Eventless(conn[d], conn'[d])
      BY <3>1, <3>2, OneIsCalm
    <3> QED
      BY <1>1, <2>1, <3>3 DEF Harmless
  <2> QED
    BY <1>4, <2>2, <2>3 DEF Settling
<1>5. CASE StopBegin
  BY <1>5, StopIsHarmless
<1>6. ASSUME NEW c \in Conns, NEW id \in Ids, Asks(c, id)
      PROVE  Harmless
  <2>1. PICK r2 : r2 = [conn[c] EXCEPT !.asked = @ \union {id}]
    OBVIOUS
  <2>2. conn' = [conn EXCEPT ![c] = r2] /\ UNCHANGED <<policy, pending, at, registry>>
    BY <1>6, <2>1 DEF Asks, Calls
  <2>3. /\ r2.sent = conn[c].sent /\ r2.cred = conn[c].cred /\ r2.snap = conn[c].snap
        /\ r2.sock = conn[c].sock /\ r2.phase = conn[c].phase
    BY <2>1, TypeIs DEF ConnsOK, Connection
  <2>4. Calm(conn[c], r2) /\ Eventless(conn[c], r2)
    BY <2>3 DEF Calm, Up, Eventless
  <2>5. \A d \in Conns : Calm(conn[d], conn'[d]) /\ Eventless(conn[d], conn'[d])
    BY <2>2, <2>4, OneIsCalm
  <2>6. \E l : Calls(l) /\ l.kind # "invalidate"
    BY <1>6 DEF Asks
  <2> QED
    BY <1>1, <2>2, <2>5, <2>6 DEF Harmless
<1>7. CASE \E g \in greets : Greet(g)
  BY <1>7, GreetIsHarmless
<1> QED
  BY <1>2, <1>3, <1>4, <1>5, <1>6, <1>7

\* The connection does not come up, is sent no event, and holds what it held or
\* what lookup l read.
Taught(r, r2, l) ==
    /\ Learned(r, r2, l) /\ Eventless(r, r2)
    /\ r2.phase = "active" => r.phase = "active"

\* What the lookup of a connection that returns leaves: the connection holds what it
\* held or what the lookup read, is sent no event, and is registered when it comes up.
Teaches(l) ==
    /\ \A c \in Conns : /\ Learned(conn[c], conn'[c], l) /\ Eventless(conn[c], conn'[c])
                        /\ conn'[c].phase = "active" =>
                             conn[c].phase = "active" \/ c \in Registered'
    /\ UpStaysIn
    /\ pending' = pending

\* One connection learns.
LEMMA OneLearns ==
    ASSUME TypeOK, NEW c \in Conns, NEW l, NEW r2, Taught(conn[c], r2, l),
           NEW cn, cn = [conn EXCEPT ![c] = r2]
    PROVE  \A d \in Conns : Taught(conn[d], cn[d], l)
<1>1. conn \in [Conns -> Connection]
  BY DEF TypeOK
<1>2. \A d \in Conns : Taught(conn[d], conn[d], l)
  BY CalmIs, CalmGoesOn DEF Taught
<1> QED
  BY <1>1, <1>2

\* A calm step after it.
LEMMA TaughtGoesOn ==
    ASSUME NEW a, NEW b, NEW c, NEW l, Calm(b, c), Eventless(b, c)
    PROVE  /\ Taught(a, b, l) => Taught(a, c, l)
           /\ a = b => Taught(a, c, l)
<1>1. ASSUME Taught(a, b, l)
      PROVE  Taught(a, c, l)
  <2>1. Learned(a, c, l) /\ Eventless(a, c)
    BY <1>1, CalmGoesOn DEF Taught
  <2>2. c.phase = "active" => b.phase = "active"
    BY DEF Calm
  <2> QED
    BY <1>1, <2>1, <2>2 DEF Taught
<1>2. ASSUME a = b
      PROVE  Taught(a, c, l)
  <2>1. Learned(b, c, l)
    BY CalmGoesOn
  <2>2. c.phase = "active" => b.phase = "active"
    BY DEF Calm
  <2> QED
    BY <1>2, <2>1, <2>2 DEF Taught
<1> QED
  BY <1>1, <1>2

\* The lookups of connections.
LEMMA ReturnTeaches ==
    ASSUME TypeOK, NEW i, NEW l, Returns(i, l), NEW outcome, NEW malformed,
           Resumes(l, outcome, malformed), l.kind # "invalidate"
    PROVE  Teaches(l)
<1>1. conn \in [Conns -> Connection] /\ \A c \in Conns : ConnectionOK(conn[c])
  BY TypeIs DEF ConnsOK
<1>2. registry' = registry => UpStaysIn
  BY DEF UpStaysIn, Registered
<1>3. CASE l.kind = "auth" /\ AuthResumed(l, outcome) /\ UNCHANGED <<replay, pending>>
  <2>1. CASE AllKept /\ registry' = registry
    <3>1. \A c \in Conns : Taught(conn[c], conn'[c], l)
      BY <2>1, CalmIs, TaughtGoesOn DEF AllKept
    <3> QED
      BY <1>2, <1>3, <2>1, <3>1 DEF Teaches, Taught
  <2>2. ASSUME NEW r2 \in Connection, NEW g,
               /\ l.conn \in Conns /\ Entered(conn[l.conn], r2, l, Era) /\ ConnectionOK(r2)
               /\ conn' = [conn EXCEPT ![l.conn] = r2]
               /\ registry' = IF l.conn \in Registered THEN registry
                              ELSE Append(registry, l.conn)
        PROVE  Teaches(l)
    <3>1. PICK c \in Conns : c = l.conn
      BY <2>2
    <3>2. Registered \subseteq Registered' /\ c \in Registered'
      <4>1. PICK n \in Nat : n = Len(registry) /\ DOMAIN registry = 1..n
        BY TypeIs, LenProperties
      <4>2. CASE c \in Registered
        BY <2>2, <3>1, <4>2 DEF Registered
      <4>3. CASE c \notin Registered
        <5>1. PICK rg : rg = Append(registry, c)
          OBVIOUS
        <5>2. registry' = rg
          BY <2>2, <3>1, <4>3, <5>1
        <5>3. /\ DOMAIN rg = 1..(n + 1) /\ rg[n + 1] = c
              /\ \A x \in 1..n : rg[x] = registry[x]
          BY <4>1, <5>1, TypeIs
        <5>4. n + 1 \in 1..(n + 1) /\ \A x \in 1..n : x \in 1..(n + 1)
          BY <4>1
        <5>5. c # None
          BY SizesAssumption
        <5>6. Range(registry) \subseteq Range(rg) /\ c \in Range(rg)
          BY <4>1, <5>3, <5>4 DEF Range
        <5> QED
          BY <5>2, <5>5, <5>6 DEF Registered
      <4> QED
        BY <4>2, <4>3
    <3>3. Learned(conn[c], r2, l) /\ Eventless(conn[c], r2)
      BY <2>2, <3>1 DEF Entered, Learned, Eventless, Up
    <3>4. \A d \in Conns : Learned(conn[d], conn'[d], l) /\ Eventless(conn[d], conn'[d])
                           /\ (d # c => conn'[d] = conn[d])
      <4>1. \A d \in Conns : Learned(conn[d], conn[d], l) /\ Eventless(conn[d], conn[d])
        BY CalmIs, CalmGoesOn
      <4> QED
        BY <1>1, <2>2, <3>1, <3>3, <4>1
    <3> QED
      BY <1>3, <3>2, <3>4 DEF Teaches, UpStaysIn
  <2> QED
    BY <1>3, <2>1, <2>2, AuthIs
<1>4. CASE l.kind = "beat" /\ BeatResumed(l, outcome) /\ UNCHANGED <<registry, pending>>
  <2>1. PICK r2, st, st2 :
             /\ r2 \in Connection
             /\ l.conn \in Conns /\ Renewed(conn[l.conn], r2, l.snap) /\ ConnectionOK(r2)
             /\ st = [conn |-> [conn EXCEPT ![l.conn] = r2], replay |-> replay]
             /\ Typed(st)
             /\ st2 = st \/ Sending(st, st2, {l.conn}, 0)
             /\ conn' = st2.conn /\ replay' = st2.replay
    BY <1>4, BeatIs
  <2>2. PICK c \in Conns : c = l.conn
    BY <2>1
  <2>3. PICK cn : cn = [conn EXCEPT ![c] = r2] /\ st.conn = cn
    BY <2>1, <2>2
  <2>4. \A d \in Conns : Taught(conn[d], cn[d], l)
    <3>1. Taught(conn[c], r2, l)
      BY <1>1, <2>1, <2>2, RenewedLearns DEF Taught
    <3> QED
      BY <2>3, <3>1, OneLearns
  <2>5. \A d \in Conns : Calm(cn[d], conn'[d]) /\ Eventless(cn[d], conn'[d])
    <3>1. CASE st2 = st
      BY <2>1, <2>3, <3>1, CalmIs
    <3>2. CASE Sending(st, st2, {c}, 0)
      <4>1. PICK to : to = {c} /\ to \subseteq Conns
        OBVIOUS
      <4> QED
        BY <2>1, <2>3, <3>2, <4>1, SendingIsCalm
    <3> QED
      BY <2>1, <2>2, <3>1, <3>2
  <2>6. \A d \in Conns : Taught(conn[d], conn'[d], l)
    BY <2>4, <2>5, TaughtGoesOn
  <2> QED
    BY <1>2, <1>4, <2>6 DEF Teaches, Taught
<1>5. CASE l.kind = "request" /\ RequestResumed(l, outcome, malformed)
           /\ UNCHANGED <<registry, pending>>
  <2>1. PICK r1 \in Connection, r2 \in Connection :
             /\ l.conn \in Conns /\ l.arg \in Ids /\ conn' = [conn EXCEPT ![l.conn] = r2]
             /\ Renewed(conn[l.conn], r1, l.snap) /\ ConnectionOK(r2)
             /\ Forth(conn[l.conn], r2)
             /\ \/ r2 = r1 /\ routes' = routes
                \/ Responded(r1, r2, l.arg, {}) /\ routes' = routes
                \/ /\ Accepted(r1, r2, l.arg)
                   /\ routes' = routes \union {[conn |-> l.conn, cred |-> l.cred, id |-> l.arg]}
    BY <1>5, RequestIs
  <2>2. PICK c \in Conns : c = l.conn
    BY <2>1
  <2>3. Taught(conn[c], r1, l)
    BY <1>1, <2>1, <2>2, RenewedLearns DEF Taught
  <2>4. Calm(r1, r2) /\ Eventless(r1, r2)
    BY <2>1, CalmIs
  <2>5. Taught(conn[c], r2, l)
    BY <2>3, <2>4, TaughtGoesOn
  <2>6. \A d \in Conns : Taught(conn[d], conn'[d], l)
    BY <2>1, <2>2, <2>5, OneLearns
  <2> QED
    BY <1>2, <1>5, <2>6 DEF Teaches, Taught
<1>6. CASE l.kind = "resync" /\ ResyncResumed(l, outcome) /\ UNCHANGED <<registry, pending>>
  <2>1. PICK r1 \in Connection, r2 \in Connection :
             /\ l.conn \in Conns /\ l.arg \in Ids /\ conn' = [conn EXCEPT ![l.conn] = r2]
             /\ ConnectionOK(r2) /\ Forth(conn[l.conn], r2)
             /\ r1 = conn[l.conn] \/ Renewed(conn[l.conn], r1, l.snap)
             /\ \/ r2 = r1
                \/ l.arg \in r1.inflight /\ Responded(r1, r2, l.arg, {l.arg})
    BY <1>6, ResyncIs
  <2>2. PICK c \in Conns : c = l.conn
    BY <2>1
  <2>3. r1 = conn[c] \/ Taught(conn[c], r1, l)
    BY <1>1, <2>1, <2>2, RenewedLearns DEF Taught
  <2>4. Calm(r1, r2) /\ Eventless(r1, r2)
    BY <2>1, CalmIs
  <2>5. Taught(conn[c], r2, l)
    BY <2>3, <2>4, TaughtGoesOn
  <2>6. \A d \in Conns : Taught(conn[d], conn'[d], l)
    BY <2>1, <2>2, <2>5, OneLearns
  <2> QED
    BY <1>2, <1>6, <2>6 DEF Teaches, Taught
<1> QED
  BY <1>3, <1>4, <1>5, <1>6 DEF Resumes

\* An invalidation that returns brings no connection up.
LEMMA InvalidateBringsNoneUp ==
    ASSUME TypeOK, NEW i, NEW l, Returns(i, l), l.kind = "invalidate",
           NEW outcome, InvalidateResumed(l, outcome), NEW c \in Conns,
           conn'[c].phase = "active"
    PROVE  conn[c].phase = "active"
<1>1. PICK cn :
             /\ ConnsOK(cn) /\ \A d \in Conns : Forth(conn[d], cn[d])
             /\ \A d \in Conns : /\ Writes(l, d) => Renewed(conn[d], cn[d], l.snap)
                                 /\ ~Writes(l, d) => cn[d] = conn[d]
             /\ \/ /\ pending[l.cred].refcount - 1 > 0
                   /\ pending' = [pending EXCEPT ![l.cred].refcount =
                                    pending[l.cred].refcount - 1]
                   /\ conn' = cn /\ replay' = replay
                \/ /\ ~(pending[l.cred].refcount - 1 > 0)
                   /\ pending' = [pending EXCEPT ![l.cred] = NoInvalidation]
                   /\ \E st, st2 :
                        /\ st.conn = cn /\ st.replay = replay /\ Typed(st)
                        /\ st2 = Drained(st, l.cred, pending[l.cred].events)
                        /\ conn' = st2.conn /\ replay' = st2.replay
  BY InvalidateIs
<1>2. PICK k \in Credentials : k = l.cred
  BY ReturnsIs
<1>3. cn[c].phase = conn[c].phase
  BY <1>1 DEF Renewed
<1>4. ASSUME NEW st, NEW st2, st.conn = cn, Typed(st), conn' = st2.conn,
             st2 = Drained(st, k, pending[k].events)
      PROVE  conn'[c].phase = cn[c].phase
  <2>1. pending[k].events \in Seq(Nat) /\ registry \in Seq(Conns \union {None})
    BY TypeIs DEF PendingOK
  <2>2. Progress(st, st2)
    BY <1>4, <2>1, DrainedProgresses
  <2> QED
    BY <1>4, <2>2 DEF Progress, Grown
<1> QED
  BY <1>1, <1>2, <1>3, <1>4

\* A broadcast leaves the records.
LEMMA BroadcastIsCalm ==
    ASSUME TypeOK, NEW k \in Credentials, Broadcast(k)
    PROVE  /\ \A c \in Conns : Calm(conn[c], conn'[c])
           /\ UNCHANGED <<registry, lookups, policy>>
           /\ \A j \in Credentials : /\ pending'[j].refcount = pending[j].refcount
                                     /\ pending'[j].generation = pending[j].generation
<1>1. UNCHANGED <<registry, lookups, policy>>
  BY DEF Broadcast
<1>2. CASE pending[k].refcount > 0
  <2>1. conn' = conn /\ pending' = [pending EXCEPT ![k].events = Append(@, Len(at) + 1)]
    BY <1>2 DEF Broadcast
  <2> QED
    BY <1>1, <2>1, CalmIs, TypeIs DEF PendingOK
<1>3. CASE ~(pending[k].refcount > 0)
  <2>1. PICK st2, to : /\ to \in SUBSET Conns /\ Sending(Now, st2, to, Len(at) + 1)
                       /\ conn' = st2.conn /\ pending' = pending
    BY <1>3, BroadcastIs
  <2>2. PICK n \in Nat : n = Len(at) + 1
    BY TypeIs, LenProperties
  <2>3. PICK st : st = Now
    OBVIOUS
  <2>4. Typed(st) /\ st.conn = conn /\ Sending(st, st2, to, n)
    BY <2>1, <2>2, <2>3, NowIsTyped
  <2>5. \A c \in Conns : Calm(conn[c], conn'[c])
    BY <2>1, <2>4, SendingIsCalm
  <2> QED
    BY <1>1, <2>1, <2>5
<1> QED
  BY <1>2, <1>3

\* Every connection that is up is registered.
UpInv == \A c \in Conns : conn[c].phase = "active" => c \in Registered

\* Every step keeps the connections that are active registered.
LEMMA StepUp ==
    ASSUME TypeOK, UpInv, Step
    PROVE  UpInv'
<1>1. registry' = registry => UpStaysIn
  BY DEF UpStaysIn, Registered
<1>2. ASSUME Harmless
      PROVE  UpInv'
  BY <1>2 DEF Harmless, UpInv, UpStaysIn, Calm
<1>3. ASSUME NEW k \in Credentials, Broadcast(k)
      PROVE  UpInv'
  BY <1>1, <1>3, BroadcastIsCalm DEF UpInv, UpStaysIn, Calm
<1>4. ASSUME NEW k \in Credentials, NEW l, Invalidates(l, k)
      PROVE  UpInv'
  BY <1>1, <1>4 DEF Invalidates, UpInv, UpStaysIn
<1>5. ASSUME NEW i, NEW l, NEW outcome, NEW malformed,
             Returns(i, l), Resumes(l, outcome, malformed)
      PROVE  UpInv'
  <2>1. CASE l.kind = "invalidate"
    <3>1. registry' = registry /\ InvalidateResumed(l, outcome)
      BY <1>5, <2>1 DEF Resumes
    <3>2. \A c \in Conns : conn'[c].phase = "active" => conn[c].phase = "active"
      BY <1>5, <2>1, <3>1, InvalidateBringsNoneUp
    <3> QED
      BY <1>1, <3>1, <3>2 DEF UpInv, UpStaysIn
  <2>2. CASE l.kind # "invalidate"
    BY <1>5, <2>2, ReturnTeaches DEF Teaches, UpInv, UpStaysIn
  <2> QED
    BY <2>1, <2>2
<1> QED
  BY <1>2, <1>3, <1>4, <1>5, HarmlessSteps DEF Step

(***************************************************************************)
(* The invalidations in flight, told by their generations.                 *)
(***************************************************************************)
Revises(l, k) == l.kind = "invalidate" /\ l.cred = k

Tickets(lk, k) == {lk[i].arg : i \in {i \in DOMAIN lk : Revises(lk[i], k)}}

Unique(lk) == \A i, j \in DOMAIN lk :
                 /\ lk[i].kind = "invalidate" /\ lk[j].kind = "invalidate"
                 /\ lk[i].arg = lk[j].arg
                 => i = j

\* One more lookup.
LEMMA TicketsAdded ==
    ASSUME TypeOK, NEW l, Valid(l, conn, gen) \/ (l \in Lookup /\ l.arg = gen + 1),
           NEW lk, lk = Append(lookups, l)
    PROVE  /\ \A k : Tickets(lk, k) = Tickets(lookups, k)
                                      \union (IF Revises(l, k) THEN {l.arg} ELSE {})
           /\ Unique(lookups) /\ (l.kind = "invalidate" => l.arg = gen + 1) => Unique(lk)
<1>1. lookups \in Seq(Lookup) /\ l \in Lookup
  BY TypeIs DEF LookupsOK, Valid
<1>2. PICK n \in Nat : n = Len(lookups) /\ DOMAIN lookups = 1..n
  BY <1>1, LenProperties
<1>3. /\ DOMAIN lk = 1..(n + 1) /\ lk[n + 1] = l
      /\ \A i \in 1..n : lk[i] = lookups[i]
  BY <1>1, <1>2
<1>4. \A i \in 1..(n + 1) : i \in 1..n \/ i = n + 1
  BY <1>2
<1>5. n + 1 \in 1..(n + 1) /\ \A i \in 1..n : i \in 1..(n + 1)
  BY <1>2
<1>6. ASSUME NEW k
      PROVE  Tickets(lk, k) = Tickets(lookups, k)
                              \union (IF Revises(l, k) THEN {l.arg} ELSE {})
  BY <1>2, <1>3, <1>4, <1>5 DEF Tickets
<1>7. ASSUME Unique(lookups), l.kind = "invalidate" => l.arg = gen + 1
      PROVE  Unique(lk)
  <2>1. gen \in Nat /\ \A i \in 1..n : lookups[i].kind = "invalidate" => lookups[i].arg \in 1..gen
    BY <1>2, TypeIs DEF LookupsOK, Valid
  <2>2. gen + 1 \notin 1..gen
    BY <2>1
  <2>3. \A i \in 1..n : lookups[i].kind = "invalidate" /\ l.kind = "invalidate"
                        => lookups[i].arg # l.arg
    BY <1>7, <2>1, <2>2
  <2>4. \A i \in 1..n, j \in 1..n :
           /\ lookups[i].kind = "invalidate" /\ lookups[j].kind = "invalidate"
           /\ lookups[i].arg = lookups[j].arg
           => i = j
    BY <1>2, <1>7 DEF Unique
  <2> QED
    BY <1>3, <1>4, <2>3, <2>4 DEF Unique
<1> QED
  BY <1>6, <1>7

\* One lookup less.
LEMMA TicketsReturned ==
    ASSUME TypeOK, NEW i \in DOMAIN lookups, NEW l, l = lookups[i],
           NEW lk, lk = RemoveAt(lookups, i), Unique(lookups)
    PROVE  /\ \A k : Tickets(lk, k) = IF Revises(l, k) THEN Tickets(lookups, k) \ {l.arg}
                                      ELSE Tickets(lookups, k)
           /\ Unique(lk)
<1>1. LookupsOK(lookups, conn, gen)
  BY TypeIs
<1>2. PICK n \in Nat : n = Len(lookups) /\ DOMAIN lookups = 1..n /\ i \in 1..n
  BY <1>1, LenProperties DEF LookupsOK
<1>3. /\ DOMAIN lk = 1..(n - 1)
      /\ \A j \in 1..(n - 1) : /\ Former(i, j) \in (1..n) \ {i}
                               /\ lk[j] = lookups[Former(i, j)]
  BY <1>1, <1>2, LookupReturns
<1>4. \A x \in (1..n) \ {i} : \E j \in 1..(n - 1) : Former(i, j) = x
  <2>1. SUFFICES ASSUME NEW x \in 1..n, x # i
                 PROVE  \E j \in 1..(n - 1) : Former(i, j) = x
    OBVIOUS
  <2>2. CASE x < i
    <3>1. x \in 1..(n - 1) /\ Former(i, x) = x
      BY <1>2, <2>2 DEF Former
    <3> QED
      BY <3>1
  <2>3. CASE i < x
    <3>1. x - 1 \in 1..(n - 1) /\ Former(i, x - 1) = x
      BY <1>2, <2>3 DEF Former
    <3> QED
      BY <3>1
  <2> QED
    BY <1>2, <2>1, <2>2, <2>3
<1>5. \A j, m \in 1..(n - 1) : Former(i, j) = Former(i, m) => j = m
  BY <1>2 DEF Former
<1>6. ASSUME NEW k
      PROVE  Tickets(lk, k) = IF Revises(l, k) THEN Tickets(lookups, k) \ {l.arg}
                              ELSE Tickets(lookups, k)
  <2>1. Tickets(lk, k) = {lookups[x].arg : x \in {x \in (1..n) \ {i} : Revises(lookups[x], k)}}
    <3>1. ASSUME NEW a \in Tickets(lk, k)
          PROVE  \E x \in (1..n) \ {i} : Revises(lookups[x], k) /\ a = lookups[x].arg
      <4>1. PICK j \in 1..(n - 1) : Revises(lk[j], k) /\ a = lk[j].arg
        BY <1>3, <3>1 DEF Tickets
      <4> QED
        BY <1>3, <4>1
    <3>2. ASSUME NEW x \in (1..n) \ {i}, Revises(lookups[x], k)
          PROVE  lookups[x].arg \in Tickets(lk, k)
      <4>1. PICK j \in 1..(n - 1) : Former(i, j) = x
        BY <1>4
      <4>2. lk[j] = lookups[x] /\ j \in DOMAIN lk
        BY <1>3, <4>1
      <4> QED
        BY <3>2, <4>2 DEF Tickets
    <3> QED
      BY <3>1, <3>2
  <2>2. CASE ~Revises(l, k)
    BY <1>2, <2>1, <2>2 DEF Tickets
  <2>3. CASE Revises(l, k)
    <3>1. \A x \in (1..n) \ {i} : Revises(lookups[x], k) => lookups[x].arg # l.arg
      BY <1>2, <2>3 DEF Unique, Revises
    <3> QED
      BY <1>2, <2>1, <2>3, <3>1 DEF Tickets
  <2> QED
    BY <2>2, <2>3
<1>7. Unique(lk)
  BY <1>2, <1>3, <1>5 DEF Unique
<1> QED
  BY <1>6, <1>7

\* An entry counts the invalidations of its credential that are in flight.
Counts(lk, k, n) == IsFiniteSet(Tickets(lk, k)) /\ n = Cardinality(Tickets(lk, k))

CountInv == /\ Unique(lookups)
            /\ \A k \in Credentials : Counts(lookups, k, pending[k].refcount)

\* An invalidation of k is in flight when there is a ticket.
LEMMA NoTicket ==
    ASSUME NEW lk, NEW k
    PROVE  Tickets(lk, k) = {} <=> \A i \in DOMAIN lk : ~Revises(lk[i], k)
BY DEF Tickets

\* The lookup of an invalidation that returns is counted once.
LEMMA TicketIsCounted ==
    ASSUME TypeOK, CountInv, NEW i, NEW l, Returns(i, l), NEW k \in Credentials, Revises(l, k)
    PROVE  /\ pending[k].refcount - 1 \in Nat
           /\ Counts(lookups', k, pending[k].refcount - 1)
<1>1. i \in DOMAIN lookups /\ l = lookups[i] /\ lookups' = RemoveAt(lookups, i)
  BY DEF Returns
<1>2. PICK T : T = Tickets(lookups, k)
  OBVIOUS
<1>3. IsFiniteSet(T) /\ pending[k].refcount = Cardinality(T) /\ Unique(lookups)
  BY <1>2 DEF CountInv, Counts
<1>4. l.arg \in T
  BY <1>1, <1>2 DEF Tickets
<1>5. Tickets(lookups', k) = T \ {l.arg}
  BY <1>1, <1>2, <1>3, TicketsReturned
<1>6. /\ IsFiniteSet(T \ {l.arg}) /\ Cardinality(T \ {l.arg}) = Cardinality(T) - 1
      /\ Cardinality(T \ {l.arg}) \in Nat
  BY <1>3, <1>4, FS_RemoveElement, FS_CardinalityType
<1> QED
  BY <1>3, <1>5, <1>6 DEF Counts

\* Every step counts the invalidations in flight.
LEMMA StepCounts ==
    ASSUME TypeOK, CountInv, Step
    PROVE  CountInv'
<1>1. ASSUME lookups' = lookups, \A k \in Credentials : pending'[k].refcount = pending[k].refcount
      PROVE  CountInv'
  BY <1>1 DEF CountInv
<1>2. ASSUME Harmless
      PROVE  CountInv'
  <2>1. CASE lookups' = lookups
    BY <1>1, <1>2, <2>1 DEF Harmless
  <2>2. ASSUME NEW l, Calls(l), l.kind # "invalidate"
        PROVE  CountInv'
    <3>1. lookups' = Append(lookups, l) /\ Valid(l, conn, gen) /\ pending' = pending
      BY <1>2, <2>2 DEF Calls, Harmless
    <3>2. PICK lk : lk = Append(lookups, l)
      OBVIOUS
    <3>3. Unique(lk) /\ \A k : Tickets(lk, k) = Tickets(lookups, k)
      BY <2>2, <3>1, <3>2, TicketsAdded DEF CountInv, Revises
    <3> QED
      BY <3>1, <3>2, <3>3 DEF CountInv, Counts
  <2> QED
    BY <1>2, <2>1, <2>2 DEF Harmless
<1>3. ASSUME NEW k \in Credentials, Broadcast(k)
      PROVE  CountInv'
  BY <1>1, <1>3, BroadcastIsCalm
<1>4. ASSUME NEW k \in Credentials, NEW l, Invalidates(l, k)
      PROVE  CountInv'
  <2>1. PICK lk : lk = Append(lookups, l) /\ lookups' = lk
    BY <1>4 DEF Invalidates
  <2>2. l \in Lookup /\ l.arg = gen + 1 /\ l.kind = "invalidate" /\ l.cred = k
    BY <1>4 DEF Invalidates
  <2>3. /\ Unique(lk)
        /\ \A j : Tickets(lk, j) = Tickets(lookups, j)
                                   \union (IF Revises(l, j) THEN {l.arg} ELSE {})
    BY <2>1, <2>2, TicketsAdded DEF CountInv
  <2>4. ASSUME NEW j \in Credentials
        PROVE  Counts(lk, j, pending'[j].refcount)
    <3>1. CASE j # k
      <4>1. pending'[j] = pending[j] /\ Tickets(lk, j) = Tickets(lookups, j)
        BY <1>4, <2>2, <2>3, <3>1, TypeIs DEF Invalidates, PendingOK, Revises
      <4> QED
        BY <4>1 DEF CountInv, Counts
    <3>2. CASE j = k
      <4>1. pending'[k].refcount = pending[k].refcount + 1
        BY <1>4, TypeIs DEF Invalidates, PendingOK
      <4>2. PICK T : T = Tickets(lookups, k)
        OBVIOUS
      <4>3. Tickets(lk, k) = T \union {gen + 1}
        BY <2>2, <2>3, <4>2 DEF Revises
      <4>4. gen + 1 \notin T
        <5>1. gen \in Nat
          BY TypeIs
        <5>2. \A x \in DOMAIN lookups : lookups[x].kind = "invalidate" => lookups[x].arg \in 1..gen
          BY TypeIs DEF LookupsOK, Valid
        <5>3. T \subseteq 1..gen
          BY <4>2, <5>2 DEF Tickets, Revises
        <5> QED
          BY <5>1, <5>3
      <4>5. IsFiniteSet(T) /\ pending[k].refcount = Cardinality(T)
        BY <4>2 DEF CountInv, Counts
      <4>6. IsFiniteSet(T \union {gen + 1}) /\ Cardinality(T \union {gen + 1}) = Cardinality(T) + 1
        BY <4>4, <4>5, FS_AddElement
      <4> QED
        BY <3>2, <4>1, <4>3, <4>5, <4>6 DEF Counts
    <3> QED
      BY <3>1, <3>2
  <2> QED
    BY <2>1, <2>3, <2>4 DEF CountInv
<1>5. ASSUME NEW i, NEW l, NEW outcome, NEW malformed,
             Returns(i, l), Resumes(l, outcome, malformed)
      PROVE  CountInv'
  <2>1. PICK lk : lk = RemoveAt(lookups, i) /\ lookups' = lk
    BY <1>5 DEF Returns
  <2>2. /\ Unique(lk)
        /\ \A j : Tickets(lk, j) = IF Revises(l, j) THEN Tickets(lookups, j) \ {l.arg}
                                   ELSE Tickets(lookups, j)
    BY <1>5, <2>1, TicketsReturned DEF Returns, CountInv
  <2>3. ASSUME NEW j \in Credentials, ~Revises(l, j), pending'[j] = pending[j]
        PROVE  Counts(lk, j, pending'[j].refcount)
    <3>1. Tickets(lk, j) = Tickets(lookups, j)
      BY <2>2, <2>3
    <3> QED
      BY <2>3, <3>1 DEF CountInv, Counts
  <2>4. CASE l.kind # "invalidate"
    <3>1. pending' = pending
      BY <1>5, <2>4, ReturnTeaches DEF Teaches
    <3>2. \A j \in Credentials : Counts(lk, j, pending'[j].refcount)
      BY <2>3, <2>4, <3>1 DEF Revises
    <3> QED
      BY <2>1, <2>2, <3>2 DEF CountInv
  <2>5. CASE l.kind = "invalidate"
    <3>1. PICK k \in Credentials : k = l.cred /\ Revises(l, k)
      BY <1>5, <2>5, ReturnsIs DEF Revises
    <3>2. InvalidateResumed(l, outcome)
      BY <1>5, <2>5 DEF Resumes
    <3>3. /\ pending[k].refcount - 1 \in Nat
          /\ Counts(lk, k, pending[k].refcount - 1)
      BY <1>5, <2>1, <3>1, TicketIsCounted
    <3>4. \/ /\ pending[k].refcount - 1 > 0
             /\ pending' = [pending EXCEPT ![k].refcount = pending[k].refcount - 1]
          \/ /\ ~(pending[k].refcount - 1 > 0)
             /\ pending' = [pending EXCEPT ![k] = NoInvalidation]
      BY <1>5, <2>5, <3>1, <3>2, InvalidateIs
    <3>5. pending'[k].refcount = pending[k].refcount - 1
      BY <3>3, <3>4, TypeIs DEF PendingOK, NoInvalidation
    <3>6. \A j \in Credentials : j # k => pending'[j] = pending[j] /\ ~Revises(l, j)
      BY <3>1, <3>4, TypeIs DEF PendingOK, Revises
    <3>7. \A j \in Credentials : Counts(lk, j, pending'[j].refcount)
      BY <2>3, <3>3, <3>5, <3>6
    <3> QED
      BY <2>1, <2>2, <3>7 DEF CountInv
  <2> QED
    BY <2>4, <2>5
<1> QED
  BY <1>2, <1>3, <1>4, <1>5, HarmlessSteps DEF Step

(***************************************************************************)
(* Events and records.  at[e] is the version of the policy when e was      *)
(* broadcast.                                                              *)
(***************************************************************************)
ProjectedOK(f, a) == f.live /\ f.ev > 0 /\ f.under = f.cred => f.version >= a[f.ev]

Projected(cn, a) ==
    \A c \in Conns : \A i \in DOMAIN cn[c].sent : ProjectedOK(cn[c].sent[i], a)

\* The i-th lookup is of credential k, and no invalidation of k is behind it.
Newest(lk, i, k) == /\ lk[i].cred = k
                    /\ \A j \in DOMAIN lk : i < j => ~Revises(lk[j], k)

\* Such a lookup read version v; if it is an invalidation, it has generation g.
Read(lk, k, v, g) == \A i \in DOMAIN lk : Newest(lk, i, k) =>
                        lk[i].snap.version = v /\ (Revises(lk[i], k) => lk[i].arg = g)

\* With no invalidation of k in flight the connections hold version v.
Held(lk, cn, k, v) == Tickets(lk, k) = {} =>
                         \A c \in Conns : Up(cn[c], k) => cn[c].snap.version = v

\* What waits in a queue was broadcast under version v or an earlier one.
Due(events, a, v) == \A x \in DOMAIN events : a[events[x]] <= v

FreshInv ==
    /\ Projected(conn, at)
    /\ \A k \in Credentials :
         /\ Read(lookups, k, policy[k].version, pending[k].generation)
         /\ Held(lookups, conn, k, policy[k].version)
         /\ Due(pending[k].events, at, policy[k].version)

\* A lookup that starts.
LEMMA ReadAdded ==
    ASSUME TypeOK, NEW l \in Lookup, NEW k, NEW v, NEW g,
           Read(lookups, k, v, g) \/ Revises(l, k),
           l.cred = k => l.snap.version = v /\ (Revises(l, k) => l.arg = g),
           NEW lk, lk = Append(lookups, l)
    PROVE  Read(lk, k, v, g)
<1>1. lookups \in Seq(Lookup)
  BY TypeIs DEF LookupsOK
<1>2. PICK n \in Nat : n = Len(lookups) /\ DOMAIN lookups = 1..n
  BY <1>1, LenProperties
<1>3. /\ DOMAIN lk = 1..(n + 1) /\ lk[n + 1] = l
      /\ \A i \in 1..n : lk[i] = lookups[i]
  BY <1>1, <1>2
<1>4. SUFFICES ASSUME NEW i \in 1..(n + 1), Newest(lk, i, k)
               PROVE  lk[i].snap.version = v /\ (Revises(lk[i], k) => lk[i].arg = g)
  BY <1>3 DEF Read
<1>5. CASE i = n + 1
  BY <1>3, <1>4, <1>5 DEF Newest
<1>6. CASE i \in 1..n
  <2>1. n + 1 \in DOMAIN lk /\ i < n + 1
    BY <1>2, <1>3, <1>6
  <2>2. ~Revises(l, k)
    BY <1>3, <1>4, <2>1 DEF Newest
  <2>3. Newest(lookups, i, k)
    <3>1. \A j \in 1..n : j \in 1..(n + 1)
      BY <1>2
    <3> QED
      BY <1>2, <1>3, <1>4, <1>6, <3>1 DEF Newest
  <2> QED
    BY <1>2, <1>3, <1>6, <2>2, <2>3 DEF Read
<1> QED
  BY <1>2, <1>4, <1>5, <1>6

\* The first lookup returns.
LEMMA ReadReturned ==
    ASSUME TypeOK, 1 \in DOMAIN lookups, NEW l, l = lookups[1],
           NEW lk, lk = RemoveAt(lookups, 1), NEW k, NEW v, NEW g, Read(lookups, k, v, g)
    PROVE  /\ Read(lk, k, v, g)
           /\ Tickets(lk, k) = {} /\ l.cred = k =>
                l.snap.version = v /\ (Revises(l, k) => l.arg = g)
<1>1. LookupsOK(lookups, conn, gen)
  BY TypeIs
<1>2. PICK n \in Nat : n = Len(lookups) /\ DOMAIN lookups = 1..n /\ 1 \in 1..n
  BY <1>1, LenProperties DEF LookupsOK
<1>3. /\ DOMAIN lk = 1..(n - 1)
      /\ \A j \in 1..(n - 1) : lk[j] = lookups[j + 1] /\ j + 1 \in 1..n
  <2>1. /\ DOMAIN lk = 1..(n - 1)
        /\ \A j \in 1..(n - 1) : /\ Former(1, j) \in (1..n) \ {1}
                                 /\ lk[j] = lookups[Former(1, j)]
    BY <1>1, <1>2, LookupReturns
  <2>2. \A j \in 1..(n - 1) : Former(1, j) = j + 1
    BY <1>2 DEF Former
  <2> QED
    BY <2>1, <2>2
<1>4. \A x \in 1..n : 1 < x => x - 1 \in 1..(n - 1) /\ lookups[x] = lk[x - 1]
  <2>1. SUFFICES ASSUME NEW x \in 1..n, 1 < x
                 PROVE  x - 1 \in 1..(n - 1) /\ lookups[x] = lk[x - 1]
    OBVIOUS
  <2>2. x - 1 \in 1..(n - 1) /\ (x - 1) + 1 = x
    BY <1>2, <2>1
  <2> QED
    BY <1>3, <2>2
<1>5. ASSUME NEW j \in 1..(n - 1), Newest(lk, j, k)
      PROVE  lk[j].snap.version = v /\ (Revises(lk[j], k) => lk[j].arg = g)
  <2>1. ASSUME NEW x \in 1..n, j + 1 < x
        PROVE  ~Revises(lookups[x], k)
    <3>1. 1 < x /\ j < x - 1
      BY <1>2, <1>5, <2>1
    <3> QED
      BY <1>3, <1>4, <1>5, <3>1 DEF Newest
  <2>2. Newest(lookups, j + 1, k)
    BY <1>2, <1>3, <1>5, <2>1 DEF Newest
  <2> QED
    BY <1>2, <1>3, <2>2 DEF Read
<1>6. ASSUME Tickets(lk, k) = {}, l.cred = k
      PROVE  Newest(lookups, 1, k)
  <2>1. \A j \in 1..(n - 1) : ~Revises(lk[j], k)
    BY <1>3, <1>6, NoTicket
  <2> QED
    BY <1>2, <1>4, <1>6, <2>1 DEF Newest
<1> QED
  BY <1>2, <1>3, <1>5, <1>6 DEF Read

\* A connection that is sent no event.
LEMMA ProjectedStays ==
    ASSUME NEW cn, NEW cn2, NEW a, Projected(cn, a), \A c \in Conns : Eventless(cn[c], cn2[c])
    PROVE  Projected(cn2, a)
<1>1. SUFFICES ASSUME NEW c \in Conns, NEW i \in DOMAIN cn2[c].sent
               PROVE  ProjectedOK(cn2[c].sent[i], a)
  BY DEF Projected
<1>2. CASE i \in DOMAIN cn[c].sent /\ cn2[c].sent[i] = cn[c].sent[i]
  BY <1>2 DEF Projected
<1>3. CASE ~cn2[c].sent[i].live \/ cn2[c].sent[i].ev = 0
  BY <1>3 DEF ProjectedOK
<1> QED
  BY <1>1, <1>2, <1>3 DEF Eventless

\* Events that are sent under records as new as they are.
LEMMA SendingProjects ==
    ASSUME NEW st, NEW st2, NEW to, NEW ev \in Nat, Typed(st), to \subseteq Conns,
           Sending(st, st2, to, ev), NEW a, Projected(st.conn, a),
           \A c \in to : LET r == st.conn[c]
                         IN  r.sock = "open" /\ r.snap.cred = r.cred => r.snap.version >= a[ev]
    PROVE  Projected(st2.conn, a)
<1>1. SUFFICES ASSUME NEW c \in Conns, NEW i \in DOMAIN st2.conn[c].sent
               PROVE  ProjectedOK(st2.conn[c].sent[i], a)
  BY DEF Projected
<1>2. PICK r, r2 : r = st.conn[c] /\ r2 = st2.conn[c]
  OBVIOUS
<1>3. \A j \in DOMAIN r.sent : ProjectedOK(r.sent[j], a)
  BY <1>2 DEF Projected
<1>4. CASE c \notin to
  BY <1>1, <1>2, <1>3, <1>4 DEF Sending
<1>5. CASE c \in to
  <2>1. PICK f : FrameFor(f, r, ev) /\ SentOn(r, r2, f)
    BY <1>2, <1>5 DEF Sending
  <2>2. r \in Connection
    BY <1>2 DEF Typed
  <2>3. \/ i \in DOMAIN r.sent /\ r2.sent[i] = r.sent[i]
        \/ r.sock = "open" /\ r2.sent[i] = f
    BY <1>1, <1>2, <2>1, <2>2, OneFrame
  <2>4. r.sock = "open" => ProjectedOK(f, a)
    BY <1>2, <1>5, <2>1 DEF FrameFor, ProjectedOK
  <2> QED
    BY <1>2, <1>3, <2>3, <2>4
<1> QED
  BY <1>4, <1>5

\* An event of credential k, while the connections hold version v.
LEMMA BroadcastProjects ==
    ASSUME NEW st, NEW k \in Credentials, NEW ev \in Nat, Typed(st),
           registry \in Seq(Conns \union {None}),
           NEW a, NEW v, Projected(st.conn, a), v >= a[ev],
           \A c \in Conns : Up(st.conn[c], k) => st.conn[c].snap.version = v,
           NEW st2, st2 = BroadcastTo(st, k, ev)
    PROVE  /\ Typed(st2) /\ Projected(st2.conn, a)
           /\ \A c \in Conns : Calm(st.conn[c], st2.conn[c])
<1>1. PICK to \in SUBSET Conns :
             /\ to = {c \in Registered : st.conn[c].cred = k /\ Receives(st.conn[c])}
             /\ Sending(st, BroadcastTo(st, k, ev), to, ev)
  BY BroadcastSends
<1>2. ASSUME NEW c \in to, st.conn[c].sock = "open", st.conn[c].snap.cred = st.conn[c].cred
      PROVE  st.conn[c].snap.version >= a[ev]
  <2>1. st.conn[c].cred = k /\ st.conn[c].phase = "active" /\ c \in Conns
    BY <1>1 DEF Receives
  <2>2. Up(st.conn[c], k)
    BY <1>2, <2>1 DEF Up
  <2> QED
    BY <2>1, <2>2
<1>3. Sending(st, st2, to, ev)
  BY <1>1
<1>4. Projected(st2.conn, a)
  BY <1>2, <1>3, SendingProjects
<1> QED
  BY <1>3, <1>4, SendingIsCalm DEF Sending

\* A queue that is let go while the connections hold version v.
LEMMA DrainedProjects ==
    ASSUME NEW st, Typed(st), registry \in Seq(Conns \union {None}),
           NEW k \in Credentials, NEW events \in Seq(Nat), NEW a, NEW v,
           Projected(st.conn, a), \A x \in DOMAIN events : v >= a[events[x]],
           \A c \in Conns : Up(st.conn[c], k) => st.conn[c].snap.version = v,
           NEW st2, st2 = Drained(st, k, events)
    PROVE  Projected(st2.conn, a) /\ \A c \in Conns : Calm(st.conn[c], st2.conn[c])
<1>1. PICK n \in Nat : n = Len(events) /\ DOMAIN events = 1..n /\ \A x \in 1..n : events[x] \in Nat
  BY LenProperties, ElementOfSeq
<1>a. PICK s : DrainsTo(s, st, k, events, n, Drained(st, k, events))
  BY <1>1, DrainedIs, Zenon
<1>2. /\ s[0] = st
      /\ \A i \in 1..n : s[i] = BroadcastTo(s[i - 1], k, events[i])
      /\ Drained(st, k, events) = s[n]
  BY <1>a DEF DrainsTo
<1> DEFINE Fine(b) == /\ Typed(b) /\ Projected(b.conn, a)
                      /\ \A c \in Conns : Calm(st.conn[c], b.conn[c])
           T == {m \in 0..n : ~ Fine(s[m])}
<1>3. T = {}
  <2>1. SUFFICES ASSUME T # {} PROVE FALSE
    OBVIOUS
  <2>2. T \in SUBSET Nat
    OBVIOUS
  <2>3. PICK m \in T : \A l \in T : m <= l
    <3> HIDE DEF T
    <3> QED
      BY <2>1, <2>2, LeastNatural
  <2>4. m \in 0..n /\ ~ Fine(s[m])
    BY <2>3
  <2>5. m # 0
    <3>1. Fine(st)
      BY CalmIs
    <3> HIDE DEF Fine
    <3> QED
      BY <1>2, <2>4, <3>1
  <2>6. m \in 1..n /\ m - 1 \in 0..n /\ ~(m <= m - 1)
    BY <2>4, <2>5
  <2>7. Fine(s[m - 1])
    <3> HIDE DEF Fine
    <3> QED
      BY <2>3, <2>6
  <2>8. PICK b, b2 : b = s[m - 1] /\ b2 = s[m]
    OBVIOUS
  <2>9. Fine(b)
    <3> HIDE DEF Fine
    <3> QED
      BY <2>7, <2>8
  <2>10. PICK ev \in Nat : ev = events[m] /\ v >= a[ev] /\ b2 = BroadcastTo(b, k, ev)
    BY <1>1, <1>2, <2>6, <2>8
  <2>11. \A c \in Conns : Up(b.conn[c], k) => b.conn[c].snap.version = v
    BY <2>9 DEF Calm
  <2>12. /\ Typed(b2) /\ Projected(b2.conn, a)
         /\ \A c \in Conns : Calm(b.conn[c], b2.conn[c])
    BY <2>9, <2>10, <2>11, BroadcastProjects
  <2>13. Fine(b2)
    BY <2>9, <2>12, CalmGoesOn
  <2> HIDE DEF Fine
  <2> QED
    BY <2>4, <2>8, <2>13
<1>4. Fine(s[n])
  <2> HIDE DEF Fine
  <2> QED
    BY <1>3
<1> QED
  BY <1>2, <1>4

\* What is harmless leaves the records fresh.
LEMMA HarmlessIsFresh ==
    ASSUME TypeOK, FreshInv, Harmless
    PROVE  FreshInv'
<1>1. Projected(conn', at')
  BY ProjectedStays DEF FreshInv, Harmless
<1>2. UNCHANGED <<policy, pending, at>>
  BY DEF Harmless
<1>3. /\ \A k \in Credentials : Read(lookups', k, policy[k].version, pending[k].generation)
      /\ \A k : Tickets(lookups', k) = Tickets(lookups, k)
  <2>1. CASE lookups' = lookups
    BY <2>1 DEF FreshInv
  <2>2. ASSUME NEW l, Calls(l), l.kind # "invalidate"
        PROVE  /\ \A k \in Credentials :
                    Read(lookups', k, policy[k].version, pending[k].generation)
               /\ \A k : Tickets(lookups', k) = Tickets(lookups, k)
    <3>1. /\ lookups' = Append(lookups, l) /\ Valid(l, conn, gen)
          /\ l.snap = policy[l.cred] /\ l \in Lookup
      BY <2>2 DEF Calls, Valid
    <3>2. PICK lk : lk = Append(lookups, l)
      OBVIOUS
    <3>3. \A k : ~Revises(l, k)
      BY <2>2 DEF Revises
    <3>4. \A k : Tickets(lk, k) = Tickets(lookups, k)
      BY <3>1, <3>2, <3>3, TicketsAdded
    <3>5. \A k \in Credentials : Read(lk, k, policy[k].version, pending[k].generation)
      BY <3>1, <3>2, <3>3, ReadAdded DEF FreshInv
    <3> QED
      BY <3>1, <3>2, <3>4, <3>5
  <2> QED
    BY <2>1, <2>2 DEF Harmless
<1>4. ASSUME NEW k \in Credentials
      PROVE  Held(lookups', conn', k, policy[k].version)
  BY <1>3 DEF FreshInv, Held, Harmless, Calm
<1> QED
  BY <1>1, <1>2, <1>3, <1>4 DEF FreshInv

\* A policy change leaves nothing fresh but the queues.
LEMMA MutateIsFresh ==
    ASSUME TypeOK, LineInv, FreshInv, NEW k \in Credentials, NEW l, Invalidates(l, k)
    PROVE  FreshInv'
<1>1. /\ l \in Lookup /\ l.kind = "invalidate" /\ l.cred = k /\ l.arg = gen + 1
      /\ l.snap = policy'[k] /\ lookups' = Append(lookups, l)
      /\ policy'[k].version = policy[k].version + 1
      /\ \A j \in Credentials \ {k} : policy'[j] = policy[j]
      /\ conn' = conn /\ at' = at
  BY DEF Invalidates
<1>2. /\ pending'[k].generation = gen + 1 /\ pending'[k].events = pending[k].events
      /\ \A j \in Credentials \ {k} : pending'[j] = pending[j]
  BY TypeIs DEF Invalidates, PendingOK
<1>3. PICK lk : lk = Append(lookups, l)
  OBVIOUS
<1>4. \A j : Tickets(lk, j) = Tickets(lookups, j) \union (IF Revises(l, j) THEN {l.arg} ELSE {})
  BY <1>1, <1>3, TicketsAdded
<1>5. Projected(conn', at')
  BY <1>1 DEF FreshInv
<1>6. ASSUME NEW j \in Credentials, j # k
      PROVE  /\ Read(lk, j, policy'[j].version, pending'[j].generation)
             /\ Held(lk, conn', j, policy'[j].version)
             /\ Due(pending'[j].events, at', policy'[j].version)
  <2>1. ~Revises(l, j) /\ policy'[j] = policy[j] /\ pending'[j] = pending[j]
    BY <1>1, <1>2, <1>6 DEF Revises
  <2>2. Read(lk, j, policy[j].version, pending[j].generation)
    BY <1>1, <1>3, <1>6, <2>1, ReadAdded DEF FreshInv
  <2>3. Held(lk, conn, j, policy[j].version)
    BY <1>4, <2>1 DEF FreshInv, Held
  <2> QED
    BY <1>1, <2>1, <2>2, <2>3 DEF FreshInv
<1>7. /\ Read(lk, k, policy'[k].version, pending'[k].generation)
      /\ Held(lk, conn', k, policy'[k].version)
  <2>1. Revises(l, k)
    BY <1>1 DEF Revises
  <2>2. Read(lk, k, policy'[k].version, gen + 1)
    BY <1>1, <1>3, <2>1, ReadAdded
  <2>3. Tickets(lk, k) # {}
    BY <1>4, <2>1
  <2> QED
    BY <1>2, <2>2, <2>3 DEF Held
<1>8. Due(pending'[k].events, at', policy'[k].version)
  <2>1. PICK es, v : es = pending[k].events /\ v = policy[k].version
    OBVIOUS
  <2>2. v \in Nat /\ policy'[k].version = v + 1
    BY <1>1, <2>1, TypeIs DEF PolicyOK, Snapshot
  <2>3. PICK n \in Nat : n = Len(at) /\ \A e \in 1..n : at[e] \in Nat
    BY TypeIs, LenProperties, ElementOfSeq
  <2>4. \A x \in DOMAIN es : es[x] \in 1..n
    BY <2>1, <2>3 DEF LineInv, Queued
  <2>5. \A x \in DOMAIN es : at[es[x]] \in Nat /\ at[es[x]] <= v
    BY <2>1, <2>3, <2>4 DEF FreshInv, Due
  <2>6. \A x \in DOMAIN es : at[es[x]] <= v + 1
    BY <2>2, <2>5
  <2> QED
    BY <1>1, <1>2, <2>1, <2>2, <2>6 DEF Due
<1> QED
  BY <1>1, <1>3, <1>5, <1>6, <1>7, <1>8 DEF FreshInv

\* The history grows.
LEMMA ProjectedOnward ==
    ASSUME TypeOK, LineInv, FreshInv, NEW v \in Nat, NEW a, a = Append(at, v),
           NEW n \in Nat, n = Len(at)
    PROVE  /\ Projected(conn, a) /\ a[n + 1] = v
           /\ \A k \in Credentials : Due(pending[k].events, a, policy[k].version)
<1>1. /\ a[n + 1] = v /\ DOMAIN at = 1..n /\ \A e \in 1..n : a[e] = at[e]
  BY TypeIs, LenProperties
<1>2. ASSUME NEW c \in Conns, NEW i \in DOMAIN conn[c].sent
      PROVE  ProjectedOK(conn[c].sent[i], a)
  <2>1. PICK f : f = conn[c].sent[i]
    OBVIOUS
  <2>2. f \in Frame
    <3>1. conn[c].sent \in Seq(Frame)
      BY TypeIs DEF ConnsOK, Connection
    <3> QED
      BY <1>2, <2>1, <3>1, LenProperties, ElementOfSeq
  <2>3. f.live /\ f.ev > 0 => f.ev \in 1..n
    <3>1. SUFFICES ASSUME f.live, f.ev > 0 PROVE f.ev \in 1..n
      OBVIOUS
    <3>2. f.cred \in Credentials /\ f.ev \in Nat
      BY <2>2 DEF Frame
    <3>3. Upto(conn, f.cred, n)
      BY <3>2 DEF LineInv, Queued
    <3>4. f.ev <= n
      BY <1>2, <2>1, <3>1, <3>3 DEF Upto, Heard
    <3> QED
      BY <3>1, <3>2, <3>4
  <2>4. ProjectedOK(f, at)
    BY <1>2, <2>1 DEF FreshInv, Projected
  <2>5. ProjectedOK(f, a)
    BY <1>1, <2>3, <2>4 DEF ProjectedOK
  <2> QED
    BY <2>1, <2>5
<1>3. ASSUME NEW k \in Credentials
      PROVE  Due(pending[k].events, a, policy[k].version)
  <2>1. \A x \in DOMAIN pending[k].events : pending[k].events[x] \in 1..n
    BY DEF LineInv, Queued
  <2> QED
    BY <1>1, <2>1 DEF FreshInv, Due
<1> QED
  BY <1>1, <1>2, <1>3 DEF Projected

\* A broadcast, queued or not.
LEMMA BroadcastIsFresh ==
    ASSUME TypeOK, LineInv, CountInv, FreshInv, NEW k \in Credentials, Broadcast(k)
    PROVE  FreshInv'
<1>1. PICK n \in Nat : n = Len(at)
  BY TypeIs, LenProperties
<1>2. PICK v \in Nat : v = policy[k].version
  BY TypeIs DEF PolicyOK, Snapshot
<1>3. PICK a : a = Append(at, v) /\ at' = a
  BY <1>2 DEF Broadcast
<1>4. /\ Projected(conn, a) /\ a[n + 1] = v
      /\ \A j \in Credentials : Due(pending[j].events, a, policy[j].version)
  BY <1>1, <1>3, ProjectedOnward
<1>5. /\ \A c \in Conns : Calm(conn[c], conn'[c])
      /\ lookups' = lookups /\ policy' = policy
      /\ \A j \in Credentials : pending'[j].generation = pending[j].generation
  BY BroadcastIsCalm
<1>6. \A j \in Credentials :
         /\ Read(lookups', j, policy'[j].version, pending'[j].generation)
         /\ Held(lookups', conn', j, policy'[j].version)
  <2>1. ASSUME NEW j \in Credentials
        PROVE  Read(lookups', j, policy'[j].version, pending'[j].generation)
    BY <1>5 DEF FreshInv
  <2>2. ASSUME NEW j \in Credentials, Tickets(lookups, j) = {},
               NEW c \in Conns, Up(conn'[c], j)
        PROVE  conn'[c].snap.version = policy[j].version
    <3>1. Up(conn[c], j) /\ conn'[c].snap = conn[c].snap
      BY <1>5, <2>2 DEF Calm
    <3> QED
      BY <2>2, <3>1 DEF FreshInv, Held
  <2>3. ASSUME NEW j \in Credentials
        PROVE  Held(lookups', conn', j, policy'[j].version)
    BY <1>5, <2>2 DEF Held
  <2> QED
    BY <2>1, <2>3
<1>7. CASE pending[k].refcount > 0
  <2>1. conn' = conn /\ pending' = [pending EXCEPT ![k].events = Append(@, n + 1)]
    BY <1>1, <1>7 DEF Broadcast
  <2>2. PICK q : q = pending[k] /\ q.events \in Seq(Nat)
    BY TypeIs DEF PendingOK
  <2>3. PICK es : es = Append(q.events, n + 1)
    OBVIOUS
  <2>4. pending'[k].events = es /\ \A j \in Credentials : j # k => pending'[j] = pending[j]
    BY <2>1, <2>2, <2>3, TypeIs DEF PendingOK
  <2>5. PICK m \in Nat : m = Len(q.events) /\ DOMAIN q.events = 1..m
    BY <2>2, LenProperties
  <2>6. DOMAIN es = 1..(m + 1) /\ es[m + 1] = n + 1 /\ \A i \in 1..m : es[i] = q.events[i]
    BY <2>2, <2>3, <2>5
  <2>7. \A i \in 1..(m + 1) : i \in 1..m \/ i = m + 1
    BY <2>5
  <2>8. Due(es, a, v)
    <3>1. \A i \in 1..m : a[q.events[i]] <= v
      BY <1>2, <1>4, <2>2, <2>5 DEF Due
    <3>2. a[n + 1] <= v
      BY <1>4
    <3> QED
      BY <2>6, <2>7, <3>1, <3>2 DEF Due
  <2>9. \A j \in Credentials : Due(pending'[j].events, at', policy'[j].version)
    BY <1>2, <1>3, <1>4, <1>5, <2>4, <2>8
  <2> QED
    BY <1>3, <1>4, <1>6, <2>1, <2>9 DEF FreshInv
<1>8. CASE ~(pending[k].refcount > 0)
  <2>1. PICK st2, to :
             /\ to \in SUBSET Conns /\ to = {c \in Registered : conn[c].cred = k /\ Receives(conn[c])}
             /\ Sending(Now, st2, to, Len(at) + 1)
             /\ conn' = st2.conn /\ replay' = st2.replay /\ pending' = pending
    BY <1>8, BroadcastIs
  <2>2. PICK st, ev : /\ ev \in Nat /\ ev = n + 1 /\ st = Now
    BY <1>1
  <2> ev \in Nat
    BY <2>2
  <2>3. Typed(st) /\ st.conn = conn /\ Sending(st, st2, to, ev)
    BY <1>1, <2>1, <2>2, NowIsTyped
  <2>4. Tickets(lookups, k) = {}
    <3>1. pending[k].refcount = 0
      BY <1>8, TypeIs DEF PendingOK
    <3> QED
      BY <3>1, FS_EmptySet DEF CountInv, Counts
  <2>5. \A c \in Conns : Up(conn[c], k) => conn[c].snap.version = v
    BY <1>2, <2>4 DEF FreshInv, Held
  <2>6. ASSUME NEW c \in to, conn[c].sock = "open", conn[c].snap.cred = conn[c].cred
        PROVE  conn[c].snap.version >= a[ev]
    <3>1. conn[c].cred = k /\ conn[c].phase = "active" /\ c \in Conns
      BY <2>1 DEF Receives
    <3>2. conn[c].snap.version = v
      BY <2>5, <2>6, <3>1 DEF Up
    <3> QED
      BY <1>2, <1>4, <2>2, <3>2
  <2>7. Projected(st2.conn, a)
    BY <1>4, <2>1, <2>3, <2>6, SendingProjects
  <2>8. \A j \in Credentials : Due(pending'[j].events, at', policy'[j].version)
    BY <1>3, <1>4, <1>5, <2>1
  <2> QED
    BY <1>3, <1>6, <2>1, <2>7, <2>8 DEF FreshInv
<1> QED
  BY <1>7, <1>8

\* A lookup of a connection that returns, the oldest one in flight.
LEMMA ReturnIsFresh ==
    ASSUME TypeOK, CountInv, FreshInv, NEW l, Returns(1, l), NEW outcome, NEW malformed,
           Resumes(l, outcome, malformed), l.kind # "invalidate"
    PROVE  FreshInv'
<1>1. Teaches(l)
  BY ReturnTeaches
<1>2. /\ 1 \in DOMAIN lookups /\ l = lookups[1] /\ lookups' = RemoveAt(lookups, 1)
      /\ policy' = policy /\ at' = at /\ pending' = pending
  BY <1>1 DEF Returns, Teaches
<1>3. l.snap.cred = l.cred
  BY ReturnsIs DEF Valid
<1>4. PICK lk : lk = RemoveAt(lookups, 1) /\ lookups' = lk
  BY <1>2
<1>5. \A k : Tickets(lk, k) = Tickets(lookups, k)
  BY <1>2, <1>4, TicketsReturned DEF CountInv, Revises
<1>6. \A k \in Credentials :
         LET v == policy[k].version
             g == pending[k].generation
         IN  /\ Read(lk, k, v, g)
             /\ Tickets(lk, k) = {} /\ l.cred = k => l.snap.version = v
  BY <1>2, <1>4, ReadReturned DEF FreshInv
<1>7. Projected(conn', at')
  BY <1>1, <1>2, ProjectedStays DEF FreshInv, Teaches
<1>8. ASSUME NEW k \in Credentials, Tickets(lk, k) = {}, NEW c \in Conns, Up(conn'[c], k)
      PROVE  conn'[c].snap.version = policy[k].version
  <2>1. (Up(conn[c], k) /\ conn'[c].snap = conn[c].snap) \/ conn'[c].snap = l.snap
    BY <1>1, <1>8 DEF Teaches, Learned
  <2>2. CASE Up(conn[c], k) /\ conn'[c].snap = conn[c].snap
    BY <1>5, <1>8, <2>2 DEF FreshInv, Held
  <2>3. CASE conn'[c].snap = l.snap
    BY <1>3, <1>6, <1>8, <2>3 DEF Up
  <2> QED
    BY <2>1, <2>2, <2>3
<1> QED
  BY <1>2, <1>4, <1>6, <1>7, <1>8 DEF FreshInv, Held

\* An invalidation that returns, the oldest lookup in flight.
LEMMA InvalidateIsFresh ==
    ASSUME TypeOK, LineInv, UpInv, CountInv, FreshInv, NEW l, Returns(1, l),
           l.kind = "invalidate", NEW outcome, InvalidateResumed(l, outcome)
    PROVE  FreshInv'
<1>1. PICK cn :
             /\ ConnsOK(cn) /\ \A c \in Conns : Forth(conn[c], cn[c])
             /\ \A c \in Conns : /\ Writes(l, c) => Renewed(conn[c], cn[c], l.snap)
                                 /\ ~Writes(l, c) => cn[c] = conn[c]
             /\ \/ /\ pending[l.cred].refcount - 1 > 0
                   /\ pending' = [pending EXCEPT ![l.cred].refcount =
                                    pending[l.cred].refcount - 1]
                   /\ conn' = cn /\ replay' = replay
                \/ /\ ~(pending[l.cred].refcount - 1 > 0)
                   /\ pending' = [pending EXCEPT ![l.cred] = NoInvalidation]
                   /\ \E st, st2 :
                        /\ st.conn = cn /\ st.replay = replay /\ Typed(st)
                        /\ st2 = Drained(st, l.cred, pending[l.cred].events)
                        /\ conn' = st2.conn /\ replay' = st2.replay
  BY InvalidateIs
<1>2. PICK k \in Credentials : k = l.cred /\ Revises(l, k)
  BY ReturnsIs DEF Revises
<1>3. /\ 1 \in DOMAIN lookups /\ l = lookups[1] /\ lookups' = RemoveAt(lookups, 1)
      /\ policy' = policy /\ at' = at
  BY DEF Returns
<1>4. PICK lk : lk = RemoveAt(lookups, 1) /\ lookups' = lk
  BY <1>3
<1>5. \A j : j # k => Tickets(lk, j) = Tickets(lookups, j)
  BY <1>2, <1>3, <1>4, TicketsReturned DEF CountInv, Revises
<1>6. \A j \in Credentials : Read(lk, j, policy[j].version, pending[j].generation)
  BY <1>3, <1>4, ReadReturned DEF FreshInv
<1>7. Tickets(lk, k) = {} => l.snap.version = policy[k].version /\ l.arg = pending[k].generation
  BY <1>2, <1>3, <1>4, ReadReturned DEF FreshInv
<1>8. \A c \in Conns : ConnectionOK(conn[c])
  BY TypeIs DEF ConnsOK
<1>9. Projected(cn, at)
  <2>1. \A c \in Conns : Eventless(conn[c], cn[c])
    BY <1>1, <1>8, RenewedLearns, CalmIs
  <2> QED
    BY <2>1, ProjectedStays DEF FreshInv
<1>10. ASSUME NEW j \in Credentials, Tickets(lk, j) = {}, NEW c \in Conns, Up(cn[c], j)
       PROVE  cn[c].snap.version = policy[j].version
  <2>1. CASE Writes(l, c)
    <3>1. Renewed(conn[c], cn[c], l.snap) /\ conn[c].cred = k
      BY <1>1, <1>2, <2>1 DEF Writes
    <3>2. j = k
      BY <1>10, <3>1 DEF Up, Renewed
    <3>3. cn[c].sock # "unused"
      BY <1>8, <3>1, SizesAssumption DEF Renewed, ConnectionOK
    <3>4. cn[c].snap = l.snap
      BY <1>10, <3>1, <3>3 DEF Up, Renewed
    <3> QED
      BY <1>7, <1>10, <3>2, <3>4
  <2>2. CASE ~Writes(l, c)
    <3>1. Up(conn[c], j) /\ cn[c].snap = conn[c].snap
      BY <1>1, <1>10, <2>2
    <3>2. j # k
      BY <1>2, <1>7, <1>10, <2>2, <3>1 DEF Writes, Up, UpInv
    <3> QED
      BY <1>5, <1>10, <3>1, <3>2 DEF FreshInv, Held
  <2> QED
    BY <2>1, <2>2
<1>11. \A j \in Credentials : Held(lk, cn, j, policy[j].version)
  BY <1>10 DEF Held
<1>12. \A j \in Credentials : Due(pending[j].events, at, policy[j].version)
  BY DEF FreshInv
<1>13. CASE /\ pending[k].refcount - 1 > 0
            /\ pending' = [pending EXCEPT ![k].refcount = pending[k].refcount - 1]
            /\ conn' = cn
  <2>1. \A j \in Credentials : /\ pending'[j].events = pending[j].events
                               /\ pending'[j].generation = pending[j].generation
    BY <1>13, TypeIs DEF PendingOK
  <2> QED
    BY <1>3, <1>4, <1>6, <1>9, <1>11, <1>12, <1>13, <2>1 DEF FreshInv
<1>14. ASSUME NEW st, NEW st2, ~(pending[k].refcount - 1 > 0),
              pending' = [pending EXCEPT ![k] = NoInvalidation],
              st.conn = cn, Typed(st), st2 = Drained(st, k, pending[k].events),
              conn' = st2.conn
       PROVE  FreshInv'
  <2>1. Tickets(lk, k) = {}
    <3>1. pending[k].refcount - 1 \in Nat /\ Counts(lk, k, pending[k].refcount - 1)
      BY <1>2, <1>4, TicketIsCounted
    <3>2. PICK n \in Nat : n = pending[k].refcount - 1
      BY <3>1
    <3>3. ~(n > 0)
      BY <1>14, <3>2
    <3>4. n = 0
      BY <3>3
    <3> QED
      BY <3>1, <3>2, <3>4, FS_EmptySet DEF Counts
  <2>2. PICK events \in Seq(Nat) : events = pending[k].events
    BY TypeIs DEF PendingOK
  <2>3. PICK v \in Nat : v = policy[k].version
    BY TypeIs DEF PolicyOK, Snapshot
  <2>4. \A x \in DOMAIN events : v >= at[events[x]]
    <3>1. PICK n \in Nat : n = Len(at) /\ \A e \in 1..n : at[e] \in Nat
      BY TypeIs, LenProperties, ElementOfSeq
    <3>2. \A x \in DOMAIN events : events[x] \in 1..n
      BY <2>2, <3>1 DEF LineInv, Queued
    <3>3. \A x \in DOMAIN events : at[events[x]] \in Nat /\ at[events[x]] <= v
      BY <1>12, <2>2, <2>3, <3>1, <3>2 DEF Due
    <3> QED
      BY <3>3
  <2>5. \A c \in Conns : Up(cn[c], k) => cn[c].snap.version = v
    BY <1>11, <2>1, <2>3 DEF Held
  <2>6. registry \in Seq(Conns \union {None})
    BY TypeIs
  <2>7. Projected(conn', at) /\ \A c \in Conns : Calm(cn[c], conn'[c])
    BY <1>9, <1>14, <2>2, <2>4, <2>5, <2>6, DrainedProjects
  <2>8. \A j \in Credentials : Held(lk, conn', j, policy[j].version)
    BY <1>11, <2>7 DEF Held, Calm
  <2>9. /\ pending'[k] = NoInvalidation
        /\ \A j \in Credentials : j # k => pending'[j] = pending[j]
    BY <1>14, TypeIs DEF PendingOK
  <2>10. \A j \in Credentials : Read(lk, j, policy[j].version, pending'[j].generation)
    <3>1. Read(lk, k, policy[k].version, pending'[k].generation)
      BY <1>6, <2>1, NoTicket DEF Read
    <3> QED
      BY <1>6, <2>9, <3>1
  <2>11. \A j \in Credentials : Due(pending'[j].events, at, policy[j].version)
    <3>1. NoInvalidation.events = <<>> /\ DOMAIN NoInvalidation.events = {}
      BY DEF NoInvalidation
    <3>2. Due(pending'[k].events, at, policy[k].version)
      BY <2>9, <3>1 DEF Due
    <3> QED
      BY <1>12, <2>9, <3>2
  <2> QED
    BY <1>3, <1>4, <2>7, <2>8, <2>10, <2>11 DEF FreshInv
<1> QED
  BY <1>1, <1>2, <1>13, <1>14

\* What the steps keep, when lookups are answered in order.
StaleInv == InOrder /\ TypeOK /\ LineInv /\ UpInv /\ CountInv /\ FreshInv

\* Every step keeps it.
LEMMA NextIsFresh == StaleInv /\ Next => StaleInv'
<1> SUFFICES ASSUME StaleInv, Next PROVE StaleInv'
  OBVIOUS
<1>1. InOrder /\ TypeOK /\ LineInv /\ UpInv /\ CountInv /\ FreshInv /\ Step
  BY NextIsStep DEF StaleInv
<1>2. TypeOK' /\ LineInv' /\ UpInv' /\ CountInv'
  BY <1>1, StepTypes, StepInLine, StepUp, StepCounts
<1>3. ASSUME ResumeSome
      PROVE  FreshInv'
  <2>1. PICK i, outcome, malformed : Resume(i, outcome, malformed)
    BY <1>3 DEF ResumeSome
  <2>2. PICK l : l = lookups[i]
    OBVIOUS
  <2>3. i = 1 /\ Returns(1, l) /\ Resumes(l, outcome, malformed)
    BY <1>1, <2>1, <2>2, ResumeIs
  <2>4. CASE l.kind # "invalidate"
    BY <1>1, <2>3, <2>4, ReturnIsFresh
  <2>5. CASE l.kind = "invalidate"
    <3>1. InvalidateResumed(l, outcome)
      BY <2>3, <2>5 DEF Resumes
    <3> QED
      BY <1>1, <2>3, <2>5, <3>1, InvalidateIsFresh
  <2> QED
    BY <2>4, <2>5
<1>4. ASSUME NEW k \in Credentials, Broadcast(k)
      PROVE  FreshInv'
  BY <1>1, <1>4, BroadcastIsFresh
<1>5. ASSUME NEW k \in Credentials, NEW l, Invalidates(l, k)
      PROVE  FreshInv'
  BY <1>1, <1>5, MutateIsFresh
<1>6. ASSUME Harmless
      PROVE  FreshInv'
  BY <1>1, <1>6, HarmlessIsFresh
<1>7. ResumeSome \/ Harmless \/ (\E k \in Credentials : Broadcast(k))
      \/ \E k \in Credentials : \E l : Invalidates(l, k)
  BY <1>1, NextIs, HarmlessSteps
<1> QED
  BY <1>1, <1>2, <1>3, <1>4, <1>5, <1>6, <1>7 DEF StaleInv

\* While lookups are answered in order, no event is projected under a record of
\* its credential older than the policy in force when it was broadcast
\* (server.ts: an invalidation renews the records before it lets the events that
\* it held back go out, so that "broadcasts project correctly").
THEOREM WsNoStaleProjection == InOrder /\ Spec => []NoStaleProjection
<1>1. InOrder /\ Init => StaleInv
  <2>1. SUFFICES ASSUME InOrder, Init PROVE StaleInv
    OBVIOUS
  <2>2. TypeOK
    BY <2>1, InitTypes
  <2>3. /\ lookups = <<>> /\ \A k \in Credentials : pending[k] = NoInvalidation
        /\ \A c \in Conns : conn[c] = FreshConnection
    BY <2>1 DEF Init
  <2>4. \A c \in Conns : conn[c].sent = <<>> /\ conn[c].phase = "authenticating"
    BY <2>3 DEF FreshConnection
  <2>5. DOMAIN <<>> = {} /\ Len(<<>>) = 0
    OBVIOUS
  <2>6. LineInv
    <3>1. Ordered(conn, replay) /\ \A k, e : Upto(conn, k, e)
      BY <2>4, <2>5 DEF Ordered, Upto, InLine, Below, Heard
    <3>2. \A k \in Credentials : pending[k].events = <<>>
      BY <2>3 DEF NoInvalidation
    <3> QED
      BY <2>5, <3>1, <3>2 DEF LineInv, Queued
  <2>7. UpInv
    BY <2>4 DEF UpInv
  <2>8. CountInv
    <3>1. \A k : Tickets(lookups, k) = {}
      BY <2>3, <2>5, NoTicket
    <3>2. \A k \in Credentials : pending[k].refcount = 0
      BY <2>3 DEF NoInvalidation
    <3> QED
      BY <2>3, <2>5, <3>1, <3>2, FS_EmptySet DEF CountInv, Counts, Unique
  <2>9. FreshInv
    <3>1. Projected(conn, at)
      BY <2>4, <2>5 DEF Projected
    <3>2. \A k \in Credentials : Read(lookups, k, policy[k].version, pending[k].generation)
      BY <2>3, <2>5 DEF Read
    <3>3. \A k \in Credentials : Held(lookups, conn, k, policy[k].version)
      BY <2>4 DEF Held, Up
    <3>4. \A k \in Credentials : Due(pending[k].events, at, policy[k].version)
      BY <2>3, <2>5 DEF Due, NoInvalidation
    <3> QED
      BY <3>1, <3>2, <3>3, <3>4 DEF FreshInv
  <2> QED
    BY <2>1, <2>2, <2>6, <2>7, <2>8, <2>9 DEF StaleInv
<1>2. StaleInv /\ [Next]_vars => StaleInv'
  <2>1. ASSUME StaleInv, UNCHANGED vars
        PROVE  StaleInv'
    <3>1. UpInv'
      BY <2>1 DEF vars, StaleInv, UpInv, Registered
    <3>2. TypeOK' /\ LineInv'
      BY <2>1, TypeInductive DEF vars, StaleInv, LineInv
    <3>3. CountInv' /\ FreshInv'
      BY <2>1 DEF vars, StaleInv, CountInv, FreshInv
    <3> QED
      BY <2>1, <3>1, <3>2, <3>3 DEF StaleInv
  <2> QED
    BY <2>1, NextIsFresh
<1>3. StaleInv => NoStaleProjection
  BY DEF StaleInv, FreshInv, Projected, ProjectedOK, NoStaleProjection
<1> QED
  BY <1>1, <1>2, <1>3, PTL DEF Spec

=============================================================================
