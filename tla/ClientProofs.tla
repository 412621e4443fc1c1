---------------------------- MODULE ClientProofs ----------------------------
(***************************************************************************)
(* Theorems about the clients of the signet: the CLI on the admin socket,  *)
(* the OpenClaw bridge and the connection handler of the SDK.              *)
(***************************************************************************)
EXTENDS AdminSocket, OpenClawBridge, HarnessClient, FiniteSetTheorems, TLAPS

\* The first and the other elements of a sequence that is not empty.
LEMMA HeadAndTail ==
    ASSUME NEW S, NEW q \in Seq(S), q # <<>>
    PROVE  /\ Len(q) \in Nat /\ 1 \in 1..Len(q) /\ Head(q) = q[1] /\ Head(q) \in S
           /\ Tail(q) \in Seq(S) /\ Len(Tail(q)) = Len(q) - 1
           /\ \A n \in 1..Len(Tail(q)) : n + 1 \in 1..Len(q) /\ Tail(q)[n] = q[n + 1]
OBVIOUS

(***************************************************************************)
(* The admin socket.  An answer under way says ok only for an action that  *)
(* was dispatched, and only an authenticated connection has an action      *)
(* under way.                                                              *)
(***************************************************************************)
AdminInv ==
  /\ token \in BOOLEAN /\ authed \in BOOLEAN
  /\ afate \in [AIds -> {"unsent", "waiting", "ok", "err", "lost"}]
  /\ lines \in [AIds -> {"none", "verify", "elevate", "dispatch"}]
  /\ upline \in Seq(AIds)
  /\ downline \in Seq([id : AIds, ok : BOOLEAN])
  /\ done \subseteq AReqs
  /\ authed => token
  /\ \A i \in AReqs : lines[i] # "none" => authed
  /\ \A n \in 1..Len(downline) :
        downline[n].id \in AReqs /\ downline[n].ok => downline[n].id \in done
  /\ OkMeansDone

\* An answer that is sent leaves the answers under way honest.
LEMMA SayKeeps ==
    ASSUME AdminInv, NEW i \in AIds, NEW ok \in BOOLEAN, Say(i, ok),
           NEW more, i \in AReqs /\ ok => i \in more, done \subseteq more
    PROVE  /\ downline' \in Seq([id : AIds, ok : BOOLEAN])
           /\ \A n \in 1..Len(downline') :
                downline'[n].id \in AReqs /\ downline'[n].ok => downline'[n].id \in more
<1>1. downline \in Seq([id : AIds, ok : BOOLEAN])
  BY DEF AdminInv
<1>2. CASE asock # "open"
  BY <1>1, <1>2 DEF Say, AdminInv
<1>3. CASE asock = "open"
  <2>1. downline' = Append(downline, [id |-> i, ok |-> ok])
    BY <1>3 DEF Say
  <2>2. downline' \in Seq([id : AIds, ok : BOOLEAN])
    BY <1>1, <2>1
  <2>3. ASSUME NEW n \in 1..Len(downline'), downline'[n].id \in AReqs, downline'[n].ok
        PROVE  downline'[n].id \in more
    <3>1. CASE n = Len(downline) + 1
      <4>1. downline'[n] = [id |-> i, ok |-> ok]
        BY <1>1, <2>1, <3>1
      <4> QED
        BY <2>3, <4>1
    <3>2. CASE n # Len(downline) + 1
      <4>1. n \in 1..Len(downline) /\ downline'[n] = downline[n]
        BY <1>1, <2>1, <3>2
      <4> QED
        BY <2>3, <4>1 DEF AdminInv
    <3> QED
      BY <3>1, <3>2
  <2> QED
    BY <2>2, <2>3
<1> QED
  BY <1>2, <1>3

\* A call of the CLI that succeeds was dispatched, and nothing is dispatched on
\* a connection whose token was not verified (admin-client.ts processLine,
\* server.ts handleLine).
THEOREM OkAlwaysMeansDone == AdminSpec => []OkMeansDone
<1>1. AInit => AdminInv
  <2> SUFFICES ASSUME AInit PROVE AdminInv
    OBVIOUS
  <2>1. AReqs \subseteq AIds
    BY DEF AIds
  <2>2. /\ token \in BOOLEAN /\ authed = FALSE /\ done = {}
        /\ afate = [i \in AIds |-> "unsent"] /\ lines = [i \in AIds |-> "none"]
        /\ upline = <<>> /\ downline = <<>>
    BY DEF AInit
  <2>3. OkMeansDone
    BY <2>1, <2>2 DEF OkMeansDone
  <2>4. upline \in Seq(AIds)
    BY <2>2
  <2>5. downline \in Seq([id : AIds, ok : BOOLEAN]) /\ \A n \in 1..Len(downline) : FALSE
    BY <2>2
  <2>6. /\ afate \in [AIds -> {"unsent", "waiting", "ok", "err", "lost"}]
        /\ lines \in [AIds -> {"none", "verify", "elevate", "dispatch"}]
        /\ \A i \in AReqs : lines[i] = "none"
    BY <2>1, <2>2
  <2> QED
    BY <2>2, <2>3, <2>4, <2>5, <2>6 DEF AdminInv
<1>2. ASSUME AdminInv, [ANext]_avars
      PROVE  AdminInv'
  <2> USE DEF AdminInv
  <2>0. Auth \in AIds /\ AReqs \subseteq AIds /\ Auth \notin AReqs
    BY AdminAssumption DEF AIds, AReqs, Auth
  <2>1. CASE UNCHANGED avars
    BY <1>2, <2>1 DEF avars, OkMeansDone
  <2>2. CASE AConnect
    <3>1. UNCHANGED <<downline, authed, lines, token, done>>
          /\ (upline' = upline \/ upline' = <<Auth>>)
          /\ \E x \in {"waiting", "err"} : afate' = [afate EXCEPT ![Auth] = x]
      BY <2>2 DEF AConnect
    <3>a. <<Auth>> \in Seq(AIds) /\ upline \in Seq(AIds)
      BY <1>2, <2>0
    <3>b. upline' \in Seq(AIds)
      BY <3>1, <3>a
    <3>2. /\ upline' \in Seq(AIds) /\ \A i \in AReqs : afate'[i] = afate[i]
          /\ afate' \in [AIds -> {"unsent", "waiting", "ok", "err", "lost"}]
      BY <1>2, <2>0, <3>1, <3>b
    <3> QED
      BY <1>2, <3>1, <3>2 DEF OkMeansDone
  <2>3. ASSUME NEW i \in AReqs, ARequest(i)
        PROVE  AdminInv'
    <3>1. UNCHANGED <<downline, authed, lines, token, done>>
          /\ \E x \in {"waiting", "lost"} : afate' = [afate EXCEPT ![i] = x]
      BY <2>3 DEF ARequest
    <3>2. upline' \in Seq(AIds)
      <4>1. upline' = upline \/ upline' = Append(upline, i)
        BY <2>3 DEF ARequest
      <4>2. upline \in Seq(AIds) /\ i \in AIds
        BY <1>2, <2>0
      <4> HIDE DEF AdminInv
      <4> QED
        BY <4>1, <4>2
    <3>3. /\ \A j \in AReqs : afate'[j] = "ok" => afate[j] = "ok"
          /\ afate' \in [AIds -> {"unsent", "waiting", "ok", "err", "lost"}]
      BY <1>2, <2>0, <3>1
    <3> QED
      BY <1>2, <3>1, <3>2, <3>3 DEF OkMeansDone
  <2>4. CASE ProcessLine
    <3>1. PICK d \in [id : AIds, ok : BOOLEAN] : d = Head(downline) /\ d = downline[1]
                                                /\ 1 \in 1..Len(downline)
      <4>1. downline \in Seq([id : AIds, ok : BOOLEAN]) /\ downline # <<>>
        BY <1>2, <2>4 DEF ProcessLine
      <4> HIDE DEF AdminInv
      <4> QED
        BY <4>1, HeadAndTail
    <3>2. UNCHANGED <<authed, lines, token, done>>
      BY <2>4 DEF ProcessLine
    <3>3. /\ afate' \in [AIds -> {"unsent", "waiting", "ok", "err", "lost"}]
          /\ \A i \in AReqs : afate'[i] = "ok" => afate[i] = "ok" \/ (i = d.id /\ d.ok)
      BY <1>2, <2>0, <2>4, <3>1 DEF ProcessLine, Settle
    <3>4. upline' \in Seq(AIds)
      BY <1>2, <2>4 DEF ProcessLine
    <3>5. downline' = <<>> \/ downline' = Tail(downline)
      BY <2>4 DEF ProcessLine
    <3>6. /\ downline' \in Seq([id : AIds, ok : BOOLEAN])
          /\ \A n \in 1..Len(downline') :
                n + 1 \in 1..Len(downline) /\ downline'[n] = downline[n + 1]
      <4>1. downline \in Seq([id : AIds, ok : BOOLEAN]) /\ downline # <<>>
        BY <1>2, <2>4 DEF ProcessLine
      <4>2. /\ Tail(downline) \in Seq([id : AIds, ok : BOOLEAN])
            /\ \A n \in 1..Len(Tail(downline)) :
                  n + 1 \in 1..Len(downline) /\ Tail(downline)[n] = downline[n + 1]
        BY <4>1, HeadAndTail
      <4>3. <<>> \in Seq([id : AIds, ok : BOOLEAN]) /\ \A n \in 1..Len(<<>>) : FALSE
        OBVIOUS
      <4> HIDE DEF AdminInv
      <4> QED
        BY <3>5, <4>2, <4>3
    <3>7. OkMeansDone'
      BY <1>2, <3>1, <3>2, <3>3 DEF OkMeansDone
    <3> QED
      BY <1>2, <3>2, <3>3, <3>4, <3>6, <3>7
  <2>5. CASE AClose
    BY <1>2, <2>5 DEF AClose, OkMeansDone
  <2>6. CASE ServerGone
    <3>1. UNCHANGED <<afate, downline, authed, token, done>> /\ upline' = <<>>
          /\ lines' = [i \in AIds |-> "none"]
      BY <2>6 DEF ServerGone
    <3> QED
      BY <1>2, <2>0, <3>1 DEF OkMeansDone
  <2>7. CASE CloseCallback
    <3>1. UNCHANGED <<authed, lines, token, done>> /\ upline' = <<>> /\ downline' = <<>>
          /\ afate' = [i \in AIds |-> IF i \in apend THEN "err" ELSE afate[i]]
      BY <2>7 DEF CloseCallback, Settle
    <3> QED
      BY <1>2, <2>0, <3>1 DEF OkMeansDone
  <2>8. CASE HandleLine
    <3>1. PICK i \in AIds : i = Head(upline)
      BY <1>2, <2>8 DEF HandleLine
    <3>2. upline' \in Seq(AIds) /\ UNCHANGED <<afate, authed, token, done>>
      BY <1>2, <2>8 DEF HandleLine
    <3>3. CASE UNCHANGED downline /\ authed /\ lines' = [lines EXCEPT ![i] = "elevate"]
      BY <1>2, <3>2, <3>3 DEF OkMeansDone
    <3>4. CASE UNCHANGED downline /\ i = Auth /\ lines' = [lines EXCEPT ![i] = "verify"]
      BY <1>2, <2>0, <3>2, <3>4 DEF OkMeansDone
    <3>5. CASE UNCHANGED lines /\ (Say(Auth, FALSE) \/ Say(i, FALSE))
      <4>1. PICK j \in AIds : Say(j, FALSE)
        BY <2>0, <3>5
      <4>2. /\ downline' \in Seq([id : AIds, ok : BOOLEAN])
            /\ \A n \in 1..Len(downline') :
                 downline'[n].id \in AReqs /\ downline'[n].ok => downline'[n].id \in done
        BY <1>2, <4>1, SayKeeps
      <4> QED
        BY <1>2, <3>2, <3>5, <4>2 DEF OkMeansDone
    <3> QED
      BY <2>8, <3>1, <3>3, <3>4, <3>5 DEF HandleLine
  <2>9. CASE Verified
    <3>1. lines' = [lines EXCEPT ![Auth] = "none"] /\ authed' = token
          /\ UNCHANGED <<afate, upline, token, done>> /\ Say(Auth, token)
      BY <2>9 DEF Verified
    <3>2. /\ downline' \in Seq([id : AIds, ok : BOOLEAN])
          /\ \A n \in 1..Len(downline') :
               downline'[n].id \in AReqs /\ downline'[n].ok => downline'[n].id \in done
      BY <1>2, <2>0, <3>1, SayKeeps
    <3>3. \A i \in AReqs : lines'[i] = lines[i]
      BY <1>2, <2>0, <3>1
    <3> QED
      BY <1>2, <2>0, <3>1, <3>2, <3>3 DEF OkMeansDone
  <2>10. ASSUME NEW i \in AReqs, Elevated(i)
         PROVE  AdminInv'
    <3>1. UNCHANGED <<afate, upline, authed, token, done>> /\ lines[i] # "none"
      BY <2>10 DEF Elevated
    <3>2. CASE lines' = [lines EXCEPT ![i] = "dispatch"] /\ UNCHANGED downline
      BY <1>2, <2>0, <3>1, <3>2 DEF OkMeansDone
    <3>3. CASE lines' = [lines EXCEPT ![i] = "none"] /\ Say(i, FALSE)
      <4>1. /\ downline' \in Seq([id : AIds, ok : BOOLEAN])
            /\ \A n \in 1..Len(downline') :
                 downline'[n].id \in AReqs /\ downline'[n].ok => downline'[n].id \in done
        BY <1>2, <2>0, <3>3, SayKeeps
      <4> QED
        BY <1>2, <2>0, <3>1, <3>3, <4>1 DEF OkMeansDone
    <3> QED
      BY <2>10, <3>2, <3>3 DEF Elevated
  <2>11. ASSUME NEW i \in AReqs, Dispatched(i)
         PROVE  AdminInv'
    <3>1. UNCHANGED <<afate, upline, authed, token>> /\ done' = done \cup {i} /\ token
          /\ lines' = [lines EXCEPT ![i] = "none"]
      BY <1>2, <2>11 DEF Dispatched
    <3>2. PICK ok \in BOOLEAN : Say(i, ok)
      BY <2>11 DEF Dispatched
    <3>3. i \in done' /\ done \subseteq done'
      BY <3>1
    <3>4. /\ downline' \in Seq([id : AIds, ok : BOOLEAN])
          /\ \A n \in 1..Len(downline') :
               downline'[n].id \in AReqs /\ downline'[n].ok => downline'[n].id \in done'
      BY <1>2, <2>0, <3>2, <3>3, SayKeeps
    <3> QED
      BY <1>2, <2>0, <3>1, <3>4 DEF OkMeansDone
  <2> QED
    BY <1>2, <2>1, <2>2, <2>3, <2>4, <2>5, <2>6, <2>7, <2>8, <2>9, <2>10, <2>11
       DEF ANext, AServer
<1>3. AdminInv => OkMeansDone
  BY DEF AdminInv
<1> QED
  BY <1>1, <1>2, <1>3, PTL DEF AdminSpec

(***************************************************************************)
(* The OpenClaw bridge.  Within one life of the signet the event a frame   *)
(* carries and its number differ by a constant, and a restart only makes   *)
(* it larger.  So each connection has one such offset: its frames all have *)
(* it, and what was delivered is no later than its resume point says.  The *)
(* checkpoint file and the resume point of the loop are bounds as well.    *)
(***************************************************************************)
Msg == [type : {"event", "authenticated", "auth_error"}, seq : Nat, ev : Nat]

Offset == signet.total - signet.seq

UpTo(n) == \A i \in 1..Len(delivered) : delivered[i].ev <= n

AtOffset(q, o) == \A i \in 1..Len(q) : q[i].type = "event" => q[i].ev = o + q[i].seq

OneLife(c, o) ==
  /\ o <= Offset
  /\ b.active = c /\ conn[c].phase = "open" => o = Offset
  /\ UpTo(o + conn[c].last)
  /\ AtOffset(conn[c].chain, o) /\ AtOffset(conn[c].inbox, o)

ConnType ==
  [phase : {"idle", "open", "closing"}, authed : BOOLEAN, settled : BOOLEAN,
   last : Nat, chain : Seq(Msg), saving : BOOLEAN, inbox : Seq(Msg),
   peer : {"none", "asked", "active", "refused"}]

LoopType ==
  [loop : {"off", "load", "connect", "pump", "sleep"}, stopped : BOOLEAN,
   active : Conns \cup {NoConn}, attempt : Nat, resume : Nat, fatal : BOOLEAN,
   done : BOOLEAN]

BridgeType ==
  /\ b \in LoopType
  /\ conn \in [Conns -> ConnType]
  /\ file \in Nat \cup {Torn}
  /\ signet \in [seq : Nat, buffer : Seq(Msg), total : Nat]
  /\ delivered \in Seq(Msg)

BridgeInv ==
  /\ BridgeType
  /\ signet.seq <= signet.total /\ AtOffset(signet.buffer, Offset)
  /\ b.loop # "off" => ~b.done
  /\ b.active # NoConn => b.loop = "pump"
  /\ file # Torn => UpTo(Offset + file)
  /\ b.loop \in {"sleep", "connect"} => UpTo(Offset + b.resume)
  /\ \A c \in Conns :
       /\ conn[c].chain # <<>> => b.active = c \/ b.done
       /\ \A i \in 1..Len(conn[c].chain) : conn[c].chain[i].type = "event"
       /\ conn[c].saving => conn[c].chain # <<>> /\ conn[c].chain[1].seq > conn[c].last
       /\ b.active = c \/ conn[c].chain # <<>> => \E o \in Nat : OneLife(c, o)
  /\ DeliveredOnce

\* An earlier bound holds for every later number.
LEMMA UpToIsMonotone ==
    ASSUME BridgeType, NEW m \in Nat, NEW n \in Nat, m <= n, UpTo(m)
    PROVE  UpTo(n)
<1>1. \A i \in 1..Len(delivered) : delivered[i] \in Msg
  BY DEF BridgeType
<1>2. \A i \in 1..Len(delivered) : delivered[i].ev \in Nat
  BY <1>1 DEF Msg
<1> QED
  BY <1>2 DEF UpTo

\* The types a step needs most.
LEMMA BridgeTypes ==
    ASSUME BridgeInv
    PROVE  /\ BridgeType /\ Offset \in Nat
           /\ \A c \in Conns : /\ conn[c].last \in Nat /\ conn[c].chain \in Seq(Msg)
                               /\ conn[c].inbox \in Seq(Msg) /\ c # NoConn
<1>1. BridgeType /\ signet.seq <= signet.total
  BY DEF BridgeInv
<1>2. signet.seq \in Nat /\ signet.total \in Nat
  BY <1>1 DEF BridgeType, ConnType, LoopType
<1>3. \A c \in Conns : /\ conn[c].last \in Nat /\ conn[c].chain \in Seq(Msg)
                       /\ conn[c].inbox \in Seq(Msg) /\ c # NoConn
  BY <1>1, BridgeAssumption DEF BridgeType, ConnType, LoopType
<1> QED
  BY <1>1, <1>2, <1>3 DEF Offset

\* A sequence with the offset keeps it without its head and with a frame more.
LEMMA OffsetOfParts ==
    ASSUME NEW q \in Seq(Msg), NEW o \in Nat, AtOffset(q, o)
    PROVE  /\ AtOffset(<<>>, o)
           /\ q # <<>> => AtOffset(Tail(q), o)
           /\ \A m \in Msg : (m.type = "event" => m.ev = o + m.seq)
                               => AtOffset(Append(q, m), o)
<1>1. AtOffset(<<>>, o)
  BY DEF AtOffset
<1>2. ASSUME q # <<>>
      PROVE  AtOffset(Tail(q), o)
  <2>1. \A n \in 1..Len(Tail(q)) : n + 1 \in 1..Len(q) /\ Tail(q)[n] = q[n + 1]
    BY <1>2, HeadAndTail
  <2> QED
    BY <2>1 DEF AtOffset
<1>3. ASSUME NEW m \in Msg, m.type = "event" => m.ev = o + m.seq
      PROVE  AtOffset(Append(q, m), o)
  <2>1. ASSUME NEW i \in 1..Len(Append(q, m))
        PROVE  Append(q, m)[i] = m \/ (i \in 1..Len(q) /\ Append(q, m)[i] = q[i])
    <3>1. Len(q) \in Nat /\ Len(Append(q, m)) = Len(q) + 1
      OBVIOUS
    <3>2. CASE i = Len(q) + 1
      BY <3>2
    <3>3. CASE i \in 1..Len(q)
      BY <3>3
    <3> QED
      BY <3>1, <3>2, <3>3
  <2> QED
    BY <1>3, <2>1 DEF AtOffset
<1> QED
  BY <1>1, <1>2, <1>3

\* A connection that is not in use.
LEMMA IdleIsTyped == IdleConn \in ConnType
<1>1. <<>> \in Seq(Msg)
  OBVIOUS
<1> QED
  BY <1>1 DEF IdleConn, ConnType

\* The bridge and the signet start together, with nothing delivered.
LEMMA BridgeStarts ==
    ASSUME BInit
    PROVE  BridgeInv
<1>1. /\ b = FreshBridge /\ conn = [c \in Conns |-> IdleConn] /\ file = 0
      /\ signet = [seq |-> 0, buffer |-> <<>>, total |-> 0] /\ delivered = <<>>
  BY DEF BInit
<1>2. <<>> \in Seq(Msg) /\ Len(<<>>) = 0
  OBVIOUS
<1>3. BridgeType
  BY <1>1, <1>2, IdleIsTyped DEF BridgeType, LoopType, FreshBridge
<1>4. /\ Len(delivered) = 0 /\ Len(signet.buffer) = 0 /\ signet.seq = 0 /\ signet.total = 0
      /\ b.active = NoConn /\ b.loop = "off" /\ file = 0
      /\ \A c \in Conns : conn[c].chain = <<>> /\ conn[c].saving = FALSE /\ c # NoConn
  BY <1>1, BridgeAssumption DEF FreshBridge, IdleConn
<1>5. DeliveredOnce
  BY <1>1 DEF DeliveredOnce
<1> QED
  BY <1>3, <1>4, <1>5 DEF BridgeInv, UpTo, AtOffset

\* What a step that sends, saves and delivers nothing has to keep.
ConnSound(c) ==
  /\ conn[c].chain # <<>> => b.active = c \/ b.done
  /\ \A i \in 1..Len(conn[c].chain) : conn[c].chain[i].type = "event"
  /\ conn[c].saving => conn[c].chain # <<>> /\ conn[c].chain[1].seq > conn[c].last
  /\ b.active = c \/ conn[c].chain # <<>> => \E o \in Nat : OneLife(c, o)

LEMMA QuietSteps ==
    ASSUME BridgeInv, BridgeType', UNCHANGED <<file, signet, delivered>>,
           b'.loop # "off" => ~b'.done, b'.active # NoConn => b'.loop = "pump",
           b'.loop \in {"sleep", "connect"} => UpTo(Offset + b'.resume),
           \A c \in Conns : ConnSound(c)'
    PROVE  BridgeInv'
BY DEF BridgeInv, ConnSound, Offset, UpTo, AtOffset, DeliveredOnce

\* A connection that only loses frames, or its socket, stays in its one life.
LEMMA LifeKept ==
    ASSUME NEW c \in Conns, NEW o \in Nat, OneLife(c, o),
           UNCHANGED <<signet, delivered>>, conn'[c].last = conn[c].last,
           b'.active = c /\ conn'[c].phase = "open"
              => b.active = c /\ conn[c].phase = "open",
           AtOffset(conn'[c].chain, o), AtOffset(conn'[c].inbox, o)
    PROVE  OneLife(c, o)'
BY DEF OneLife, Offset, UpTo, AtOffset

\* A connection a step leaves alone stays sound when it was not, or stays, active.
LEMMA ConnKept ==
    ASSUME BridgeInv, NEW c \in Conns, conn'[c] = conn[c],
           UNCHANGED <<signet, delivered>>,
           b'.active = c => b.active = c,
           conn[c].chain # <<>> => b'.active = c \/ b'.done
    PROVE  ConnSound(c)'
BY DEF BridgeInv, ConnSound, OneLife, Offset, UpTo, AtOffset

\* start, the load of the checkpoint, the end of the delay.
LEMMA LoopSteps ==
    ASSUME BridgeInv, ~QuickRestart, Start \/ Loaded \/ Wake
    PROVE  BridgeInv'
<1>0. UNCHANGED <<conn, file, signet, delivered>> /\ BridgeType
  BY DEF Start, Loaded, Wake, BridgeInv
<1>1. CASE Start
  <2>1. b' = [b EXCEPT !.loop = "load", !.stopped = FALSE, !.fatal = FALSE,
                       !.done = FALSE, !.attempt = 0]
        /\ b.loop = "off" /\ \A c \in Conns : conn[c].chain = <<>>
    BY <1>1 DEF Start
  <2>2. b'.loop = "load" /\ b'.done = FALSE /\ b'.active = b.active /\ BridgeType'
    BY <1>0, <2>1 DEF BridgeType, ConnType, LoopType
  <2>3. b.active = NoConn
    BY <2>1 DEF BridgeInv
  <2>4. \A c \in Conns : ConnSound(c)'
    BY <1>0, <2>1, <2>2, ConnKept
  <2> QED
    BY <1>0, <2>2, <2>3, <2>4, QuietSteps
<1>2. CASE Loaded
  <2>1. CASE b' = Ended(b)
    <3>1. b'.loop = "off" /\ b'.done /\ b'.active = NoConn /\ BridgeType'
      BY <1>0, <2>1 DEF BridgeType, Ended, LoopType
    <3>2. \A c \in Conns : c # NoConn
      BY BridgeAssumption
    <3>3. \A c \in Conns : ConnSound(c)'
      BY <1>0, <3>1, <3>2, ConnKept
    <3> QED
      BY <1>0, <3>1, <3>3, QuietSteps
  <2>2. CASE Resumable(file) /\ b' = [b EXCEPT !.loop = "connect", !.resume = file]
    <3>1. file \in Nat /\ UpTo(Offset + file) /\ b.loop = "load" /\ ~b.done /\ b.active = NoConn
      BY <1>0, <1>2, <2>2 DEF BridgeInv, BridgeType, LoopType, Resumable, Loaded
    <3>2. /\ b'.loop = "connect" /\ b'.resume = file /\ b'.active = b.active
          /\ b'.done = b.done /\ BridgeType'
      BY <1>0, <2>2, <3>1 DEF BridgeType, ConnType, LoopType
    <3>3. \A c \in Conns : ConnSound(c)'
      BY <1>0, <3>2, ConnKept DEF BridgeInv
    <3> QED
      BY <1>0, <3>1, <3>2, <3>3, QuietSteps
  <2> QED
    BY <1>2, <2>1, <2>2 DEF Loaded
<1>3. CASE Wake
  <2>1. b' = [b EXCEPT !.loop = "connect"] /\ b.loop = "sleep"
    BY <1>3 DEF Wake
  <2>2. /\ b'.loop = "connect" /\ b'.resume = b.resume /\ b'.active = b.active
        /\ b'.done = b.done /\ BridgeType'
    BY <1>0, <2>1 DEF BridgeType, ConnType, LoopType
  <2>3. UpTo(Offset + b.resume) /\ ~b.done /\ b.active = NoConn
    BY <2>1 DEF BridgeInv
  <2>4. \A c \in Conns : ConnSound(c)'
    BY <1>0, <2>2, ConnKept DEF BridgeInv
  <2> QED
    BY <1>0, <2>2, <2>3, <2>4, QuietSteps
<1> QED
  BY <1>1, <1>2, <1>3

\* A new connection begins in the life the signet is in.
LEMMA ConnectSteps ==
    ASSUME BridgeInv, NEW c \in Conns, ConnectAndPump(c)
    PROVE  BridgeInv'
<1>0. BridgeType /\ UNCHANGED <<file, signet, delivered>> /\ c # NoConn
  BY BridgeAssumption DEF BridgeInv, ConnectAndPump
<1>1. PICK k : k = [IdleConn EXCEPT !.phase = "open", !.settled = FALSE,
                                    !.last = b.resume, !.peer = "asked"]
  OBVIOUS
<1>a. b.loop = "connect" /\ b' = [b EXCEPT !.loop = "pump", !.active = c]
      /\ conn' = [conn EXCEPT ![c] = k]
  BY <1>1 DEF ConnectAndPump
<1>b. ~b.done /\ b.active = NoConn /\ UpTo(Offset + b.resume)
  BY <1>a DEF BridgeInv
<1>c. b.resume \in Nat
  BY <1>0 DEF BridgeType, ConnType, LoopType
<1>d. /\ k \in ConnType
      /\ k.last = b.resume /\ k.chain = <<>> /\ k.inbox = <<>> /\ k.saving = FALSE
  <2>1. /\ IdleConn \in ConnType
        /\ IdleConn.chain = <<>> /\ IdleConn.inbox = <<>> /\ IdleConn.saving = FALSE
    BY IdleIsTyped DEF IdleConn
  <2> QED
    BY <1>1, <1>c, <2>1 DEF ConnType
<1>2. b'.loop = "pump" /\ b'.active = c /\ b'.done = b.done
  BY <1>0, <1>a DEF BridgeType, ConnType, LoopType
<1>3. BridgeType'
  BY <1>0, <1>a, <1>d DEF BridgeType, ConnType, LoopType
<1>4. /\ conn'[c].last = b.resume /\ conn'[c].chain = <<>> /\ conn'[c].inbox = <<>>
      /\ conn'[c].saving = FALSE
  BY <1>0, <1>a, <1>d DEF BridgeType, ConnType, LoopType
<1>6. Offset \in Nat /\ Offset' = Offset
  BY <1>0, BridgeTypes DEF Offset
<1>5. PICK o \in Nat : OneLife(c, o)'
  <2>1. PICK o \in Nat : o = Offset
    BY <1>6
  <2>2. UpTo(o + conn[c].last)'
    BY <1>0, <1>b, <1>4, <2>1 DEF UpTo
  <2>3. o <= Offset' /\ o = Offset'
    BY <1>6, <2>1
  <2>4. AtOffset(conn'[c].chain, o) /\ AtOffset(conn'[c].inbox, o)
    BY <1>4 DEF AtOffset
  <2>5. OneLife(c, o)'
    BY <2>2, <2>3, <2>4 DEF OneLife, AtOffset, UpTo
  <2> QED
    BY <2>5
<1>7. ConnSound(c)'
  BY <1>2, <1>4, <1>5, <1>6 DEF ConnSound
<1>8. ASSUME NEW d \in Conns, d # c
      PROVE  ConnSound(d)'
  <2>1. conn'[d] = conn[d]
    BY <1>0, <1>a, <1>8 DEF BridgeType, ConnType, LoopType
  <2>2. conn[d].chain = <<>>
    BY <1>b, BridgeTypes DEF BridgeInv
  <2> QED
    BY <1>0, <1>2, <1>8, <2>1, <2>2, ConnKept
<1> QED
  BY <1>0, <1>b, <1>2, <1>3, <1>7, <1>8, QuietSteps

\* A connection that is settled hands its resume point to the loop.
LEMMA SettledSteps ==
    ASSUME BridgeInv, NEW c \in Conns, b.active = c, NEW retryable \in BOOLEAN,
           b' = Settled(b, c, retryable), UNCHANGED <<file, signet, delivered>>,
           NEW k \in ConnType, conn' = [conn EXCEPT ![c] = k],
           k.chain = conn[c].chain, k.inbox = <<>> \/ k.inbox = conn[c].inbox,
           k.last = conn[c].last, k.saving = conn[c].saving,
           retryable => conn[c].chain = <<>>
    PROVE  BridgeInv'
<1>0. BridgeType /\ c # NoConn /\ conn'[c] = k /\ k \in ConnType
      /\ \A d \in Conns : d # c => conn'[d] = conn[d]
  BY BridgeTypes DEF BridgeType, LoopType
<1>a. BridgeType'
  <2>1. conn[c].last \in Nat
    BY BridgeTypes
  <2>2. b' \in LoopType
    <3>1. PICK y : y = [b EXCEPT !.active = NoConn, !.resume = conn[c].last]
      OBVIOUS
    <3>2. y \in LoopType
      BY <1>0, <2>1, <3>1 DEF BridgeType, LoopType
    <3>3. b' = Ended(y) \/ b' = [y EXCEPT !.loop = "sleep", !.attempt = y.attempt + 1]
      BY <3>1 DEF Settled
    <3>4. CASE b' = Ended(y)
      BY <3>2, <3>4 DEF Ended, LoopType
    <3>5. CASE b' = [y EXCEPT !.loop = "sleep", !.attempt = y.attempt + 1]
      <4>1. y.attempt + 1 \in Nat
        BY <3>2 DEF LoopType
      <4> QED
        BY <3>2, <3>5, <4>1 DEF LoopType
    <3> QED
      BY <3>3, <3>4, <3>5
  <2>3. conn' \in [Conns -> ConnType]
    BY <1>0 DEF BridgeType, LoopType
  <2> QED
    BY <1>0, <2>2, <2>3 DEF BridgeType, LoopType
<1>1. /\ b'.active = NoConn
      /\ \/ b'.loop = "off" /\ b'.done
         \/ b'.loop = "sleep" /\ b'.resume = conn[c].last /\ b'.done = b.done /\ retryable
  BY <1>0 DEF Settled, Ended, BridgeType, LoopType
<1>2. ~b.done
  BY <1>0 DEF BridgeInv
<1>3. PICK o \in Nat : OneLife(c, o)
  BY DEF BridgeInv
<1>4. UpTo(Offset + conn[c].last)
  <2>1. o + conn[c].last \in Nat /\ Offset + conn[c].last \in Nat
        /\ o + conn[c].last <= Offset + conn[c].last /\ UpTo(o + conn[c].last)
    <3>1. conn[c].last \in Nat /\ Offset \in Nat
      BY BridgeTypes
    <3>2. o <= Offset /\ UpTo(o + conn[c].last)
      BY <1>3 DEF OneLife
    <3> QED
      BY <3>1, <3>2
  <2> QED
    BY <1>0, <2>1, UpToIsMonotone
<1>5. ConnSound(c)'
  <2>1. OneLife(c, o)'
    <3>1. AtOffset(conn'[c].chain, o) /\ AtOffset(conn'[c].inbox, o)
      BY <1>0, <1>3 DEF OneLife, AtOffset
    <3> QED
      BY <1>0, <1>1, <1>3, <3>1, LifeKept
  <2> QED
    BY <1>0, <1>1, <2>1 DEF ConnSound, BridgeInv
<1>6. ASSUME NEW d \in Conns, d # c
      PROVE  ConnSound(d)'
  <2>1. conn[d].chain = <<>>
    BY <1>2, <1>6 DEF BridgeInv
  <2> QED
    BY <1>0, <1>1, <1>6, <2>1, BridgeAssumption, ConnKept
<1> QED
  BY <1>a, <1>1, <1>2, <1>4, <1>5, <1>6, QuietSteps

\* The socket closed, or the answer to the auth frame did not come in time.
LEMMA CloseSteps ==
    ASSUME BridgeInv, NEW c \in Conns,
           BridgeAuthTimeout(c) \/ \E retryable \in BOOLEAN : SocketClosed(c, retryable)
    PROVE  BridgeInv'
<1>0. BridgeType /\ conn[c] \in ConnType
  BY BridgeTypes DEF BridgeType, LoopType
<1>1. CASE BridgeAuthTimeout(c)
  <2>1. PICK k : k = [conn[c] EXCEPT !.settled = TRUE, !.phase = "idle", !.inbox = <<>>]
    OBVIOUS
  <2>2. conn' = [conn EXCEPT ![c] = k]
    BY <1>0, <1>1, <2>1 DEF BridgeAuthTimeout, BridgeType
  <2>3. <<>> \in Seq(Msg)
    OBVIOUS
  <2>4. /\ k \in ConnType /\ k.chain = conn[c].chain /\ k.inbox = <<>>
        /\ k.last = conn[c].last /\ k.saving = conn[c].saving
    BY <1>0, <2>1, <2>3 DEF ConnType
  <2>5. b.active = c /\ b' = Settled(b, c, FALSE) /\ UNCHANGED <<file, signet, delivered>>
    BY <1>1 DEF BridgeAuthTimeout
  <2> QED
    BY <2>2, <2>4, <2>5, SettledSteps
<1>2. ASSUME NEW retryable \in BOOLEAN, SocketClosed(c, retryable)
      PROVE  BridgeInv'
  <2>1. PICK k : k = [conn[c] EXCEPT !.settled = TRUE, !.phase = "idle"]
    OBVIOUS
  <2>2. conn' = [conn EXCEPT ![c] = k]
    BY <1>0, <1>2, <2>1 DEF SocketClosed, BridgeType
  <2>4. /\ k \in ConnType /\ k.chain = conn[c].chain /\ k.inbox = conn[c].inbox
        /\ k.last = conn[c].last /\ k.saving = conn[c].saving
    BY <1>0, <2>1 DEF ConnType
  <2>5. PICK again \in BOOLEAN : again = (retryable /\ ~b.fatal)
    BY <1>0 DEF BridgeType, LoopType
  <2>6. b.active = c /\ b' = Settled(b, c, again) /\ UNCHANGED <<file, signet, delivered>>
        /\ conn[c].chain = <<>>
    BY <1>2, <2>5 DEF SocketClosed
  <2> QED
    BY <2>2, <2>4, <2>6, SettledSteps
<1> QED
  BY <1>1, <1>2

\* stop ends the loop and leaves the chain of the connection running.
LEMMA StopSteps ==
    ASSUME BridgeInv, Stop
    PROVE  BridgeInv'
<1>0. BridgeType /\ UNCHANGED <<file, signet, delivered>> /\ b.loop # "off"
      /\ \A c \in Conns : conn[c] \in ConnType /\ c # NoConn
  BY BridgeTypes DEF BridgeType, Stop
<1>1. CASE b.loop = "load"
  <2>1. b' = [b EXCEPT !.stopped = TRUE] /\ b.active = NoConn /\ ~b.done
    BY <1>1 DEF Stop, BridgeInv
  <2>2. conn' = conn
    BY <2>1 DEF Stop
  <2>3. b'.loop = "load" /\ b'.active = NoConn /\ b'.done = b.done /\ BridgeType'
    BY <1>0, <1>1, <2>1, <2>2 DEF BridgeType, LoopType
  <2>4. \A c \in Conns : ConnSound(c)'
    BY <1>0, <2>1, <2>2, <2>3, ConnKept DEF BridgeInv
  <2> QED
    BY <1>0, <2>1, <2>3, <2>4, QuietSteps
<1>2. CASE b.loop # "load"
  <2>1. b' = Ended([b EXCEPT !.stopped = TRUE])
    BY <1>2 DEF Stop
  <2>2. b'.loop = "off" /\ b'.done /\ b'.active = NoConn
        /\ b' \in LoopType
    BY <1>0, <2>1 DEF Ended, BridgeType, LoopType
  <2>3. CASE b.active = NoConn
    <3>1. conn' = conn
      BY <2>3 DEF Stop
    <3>2. BridgeType'
      BY <1>0, <2>2, <3>1 DEF BridgeType, LoopType
    <3>3. \A c \in Conns : ConnSound(c)'
      BY <1>0, <2>2, <3>1, ConnKept
    <3> QED
      BY <1>0, <2>2, <3>2, <3>3, QuietSteps
  <2>4. CASE b.active # NoConn
    <3>1. PICK c \in Conns : c = b.active
      BY <1>0, <2>4 DEF BridgeType, LoopType
    <3>2. PICK k : k = [conn[c] EXCEPT !.settled = TRUE, !.phase = "idle", !.inbox = <<>>]
      OBVIOUS
    <3>3. conn' = [conn EXCEPT ![c] = k]
      BY <1>0, <2>4, <3>1, <3>2 DEF Stop, BridgeType
    <3>4. <<>> \in Seq(Msg)
      OBVIOUS
    <3>5. /\ k \in ConnType /\ k.chain = conn[c].chain /\ k.inbox = <<>>
          /\ k.last = conn[c].last /\ k.saving = conn[c].saving
      BY <1>0, <3>2, <3>4 DEF ConnType
    <3>6. BridgeType' /\ conn'[c] = k /\ \A d \in Conns : d # c => conn'[d] = conn[d]
      BY <1>0, <2>2, <3>3, <3>5 DEF BridgeType, LoopType
    <3>7. ASSUME NEW d \in Conns, d # c
          PROVE  ConnSound(d)'
      BY <1>0, <2>2, <3>6, <3>7, ConnKept
    <3>8. ConnSound(c)'
      <4>1. PICK o \in Nat : OneLife(c, o)
        BY <3>1 DEF BridgeInv
      <4>2. AtOffset(conn'[c].chain, o) /\ AtOffset(conn'[c].inbox, o)
        BY <3>5, <3>6, <4>1 DEF OneLife, AtOffset
      <4>3. OneLife(c, o)'
        BY <1>0, <2>2, <3>5, <3>6, <4>1, <4>2, LifeKept
      <4> QED
        BY <2>2, <3>5, <3>6, <4>3 DEF ConnSound, BridgeInv
    <3> QED
      BY <1>0, <2>2, <3>6, <3>7, <3>8, QuietSteps
  <2> QED
    BY <2>3, <2>4
<1> QED
  BY <1>1, <1>2

\* A message of the active connection.
LEMMA MessageSteps ==
    ASSUME BridgeInv, NEW c \in Conns, Message(c)
    PROVE  BridgeInv'
<1>0. /\ BridgeType /\ conn[c] \in ConnType /\ UNCHANGED <<file, signet, delivered>>
      /\ b.active = c /\ conn[c].inbox # <<>> /\ conn[c].inbox \in Seq(Msg)
      /\ conn[c].chain \in Seq(Msg)
  BY BridgeTypes DEF BridgeType, Message
<1>1. PICK m \in Msg : /\ m = Head(conn[c].inbox) /\ m = conn[c].inbox[1]
                       /\ 1 \in 1..Len(conn[c].inbox)
  BY <1>0, HeadAndTail
<1>2. PICK k0 : k0 = [conn[c] EXCEPT !.inbox = Tail(conn[c].inbox)]
  OBVIOUS
<1>3. /\ k0 \in ConnType /\ k0.inbox = Tail(conn[c].inbox) /\ k0.chain = conn[c].chain
      /\ k0.last = conn[c].last /\ k0.saving = conn[c].saving /\ k0.phase = conn[c].phase
  <2>1. Tail(conn[c].inbox) \in Seq(Msg)
    BY <1>0, HeadAndTail
  <2> QED
    BY <1>0, <1>2, <2>1 DEF ConnType
<1>4. PICK o \in Nat : OneLife(c, o)
  BY <1>0 DEF BridgeInv
<1>5. /\ AtOffset(Tail(conn[c].inbox), o) /\ AtOffset(conn[c].chain, o)
      /\ m.type = "event" => m.ev = o + m.seq
  <2>1. AtOffset(conn[c].inbox, o) /\ AtOffset(conn[c].chain, o)
    BY <1>4 DEF OneLife
  <2>2. AtOffset(Tail(conn[c].inbox), o)
    BY <1>0, <2>1, OffsetOfParts
  <2> QED
    BY <1>1, <2>1, <2>2 DEF AtOffset
<1>6. ASSUME NEW k \in ConnType, conn' = [conn EXCEPT ![c] = k],
             k.inbox = Tail(conn[c].inbox), k.last = conn[c].last,
             k.saving = conn[c].saving, k.phase = conn[c].phase,
             \/ k.chain = conn[c].chain
             \/ m.type = "event" /\ k.chain = Append(conn[c].chain, m),
             b' \in LoopType, b'.active = b.active, b'.loop = b.loop, b'.done = b.done,
             b'.resume = b.resume
      PROVE  BridgeInv'
  <2>1. BridgeType' /\ conn'[c] = k /\ \A d \in Conns : d # c => conn'[d] = conn[d]
    BY <1>0, <1>6 DEF BridgeType
  <2>2. AtOffset(k.chain, o)
    <3>1. \A x \in Msg : (x.type = "event" => x.ev = o + x.seq)
                            => AtOffset(Append(conn[c].chain, x), o)
      BY <1>0, <1>5, OffsetOfParts
    <3> QED
      BY <1>5, <1>6, <3>1
  <2>3. OneLife(c, o)'
    BY <1>0, <1>4, <1>5, <1>6, <2>1, <2>2, LifeKept
  <2>4. /\ \A i \in 1..Len(k.chain) : k.chain[i].type = "event"
        /\ k.saving => k.chain # <<>> /\ k.chain[1].seq > k.last
    <3>1. /\ \A i \in 1..Len(conn[c].chain) : conn[c].chain[i].type = "event"
          /\ conn[c].saving => conn[c].chain # <<>> /\ conn[c].chain[1].seq > conn[c].last
      BY DEF BridgeInv
    <3>2. CASE k.chain = conn[c].chain
      BY <1>6, <3>1, <3>2
    <3>3. CASE m.type = "event" /\ k.chain = Append(conn[c].chain, m)
      <4>1. Len(conn[c].chain) \in Nat /\ Len(k.chain) = Len(conn[c].chain) + 1
            /\ k.chain[Len(conn[c].chain) + 1] = m
            /\ \A i \in 1..Len(conn[c].chain) : k.chain[i] = conn[c].chain[i]
        BY <1>0, <3>3
      <4>2. conn[c].chain # <<>> => 1 \in 1..Len(conn[c].chain)
        BY <1>0, HeadAndTail
      <4>3. \A i \in 1..Len(k.chain) : i \in 1..Len(conn[c].chain) \/ i = Len(conn[c].chain) + 1
        BY <4>1
      <4>4. k.chain # <<>>
        BY <1>0, <3>3
      <4> QED
        BY <1>6, <3>1, <3>3, <4>1, <4>2, <4>3, <4>4
    <3> QED
      BY <1>6, <3>2, <3>3
  <2>5. ConnSound(c)'
    BY <1>0, <1>6, <2>1, <2>3, <2>4 DEF ConnSound
  <2>6. ASSUME NEW d \in Conns, d # c
        PROVE  ConnSound(d)'
    BY <1>0, <1>6, <2>1, <2>6, ConnKept DEF BridgeInv
  <2>7. b.loop = "pump" /\ ~b.done
    BY <1>0, BridgeTypes DEF BridgeInv
  <2> QED
    BY <1>0, <1>6, <2>1, <2>5, <2>6, <2>7, QuietSteps
<1>7. CASE /\ m.type = "authenticated" /\ b' = [b EXCEPT !.attempt = 0]
           /\ conn' = [conn EXCEPT ![c] = [k0 EXCEPT !.authed = TRUE]]
  <2>1. PICK k : k = [k0 EXCEPT !.authed = TRUE]
    OBVIOUS
  <2>2. /\ k \in ConnType /\ k.inbox = k0.inbox /\ k.chain = k0.chain
        /\ k.last = k0.last /\ k.saving = k0.saving /\ k.phase = k0.phase
    BY <1>3, <2>1 DEF ConnType
  <2>3. b' \in LoopType /\ b'.active = b.active /\ b'.loop = b.loop /\ b'.done = b.done
        /\ b'.resume = b.resume
    BY <1>0, <1>7 DEF BridgeType, LoopType
  <2> QED
    BY <1>3, <1>6, <1>7, <2>1, <2>2, <2>3
<1>8. CASE /\ b' = Settled(b, c, FALSE)
           /\ conn' = [conn EXCEPT ![c] = [k0 EXCEPT !.settled = TRUE,
                                               !.phase = "idle", !.inbox = <<>>]]
  <2>1. PICK k : k = [k0 EXCEPT !.settled = TRUE, !.phase = "idle", !.inbox = <<>>]
    OBVIOUS
  <2>2. <<>> \in Seq(Msg)
    OBVIOUS
  <2>3. /\ k \in ConnType /\ k.inbox = <<>> /\ k.chain = k0.chain
        /\ k.last = k0.last /\ k.saving = k0.saving
    BY <1>3, <2>1, <2>2 DEF ConnType
  <2> QED
    BY <1>0, <1>3, <1>8, <2>1, <2>3, SettledSteps
<1>9. CASE /\ m.type = "event" /\ UNCHANGED b
           /\ conn' = [conn EXCEPT ![c] =
                   IF k0.authed THEN [k0 EXCEPT !.chain = Append(k0.chain, m)] ELSE k0]
  <2>1. CASE k0.authed
    <3>1. PICK k : k = [k0 EXCEPT !.chain = Append(k0.chain, m)]
      OBVIOUS
    <3>2. Append(k0.chain, m) \in Seq(Msg)
      BY <1>0, <1>3
    <3>3. /\ k \in ConnType /\ k.inbox = k0.inbox /\ k.chain = Append(k0.chain, m)
          /\ k.last = k0.last /\ k.saving = k0.saving /\ k.phase = k0.phase
      BY <1>3, <3>1, <3>2 DEF ConnType
    <3> QED
      BY <1>0, <1>3, <1>6, <1>9, <2>1, <3>1, <3>3 DEF BridgeType
  <2>2. CASE ~k0.authed
    BY <1>0, <1>3, <1>6, <1>9, <2>2 DEF BridgeType
  <2> QED
    BY <2>1, <2>2
<1> QED
  <2>1. [conn[c] EXCEPT !.inbox = Tail(@)] = k0
    BY <1>2
  <2> QED
    BY <1>1, <1>7, <1>8, <1>9, <2>1 DEF Message

\* A chain without its head: its frames are events of the same life.
LEMMA ChainWithoutHead ==
    ASSUME BridgeInv, NEW c \in Conns, conn[c].chain # <<>>, NEW o \in Nat, OneLife(c, o)
    PROVE  /\ Tail(conn[c].chain) \in Seq(Msg)
           /\ AtOffset(Tail(conn[c].chain), o)
           /\ \A i \in 1..Len(Tail(conn[c].chain)) : Tail(conn[c].chain)[i].type = "event"
           /\ Head(conn[c].chain) = conn[c].chain[1] /\ conn[c].chain[1] \in Msg
           /\ conn[c].chain[1].ev = o + conn[c].chain[1].seq
<1>1. conn[c].chain \in Seq(Msg)
  BY BridgeTypes
<1>2. /\ 1 \in 1..Len(conn[c].chain) /\ Head(conn[c].chain) = conn[c].chain[1]
      /\ Head(conn[c].chain) \in Msg
      /\ Tail(conn[c].chain) \in Seq(Msg)
      /\ \A n \in 1..Len(Tail(conn[c].chain)) :
            n + 1 \in 1..Len(conn[c].chain) /\ Tail(conn[c].chain)[n] = conn[c].chain[n + 1]
  BY <1>1, HeadAndTail
<1>3. \A i \in 1..Len(conn[c].chain) : conn[c].chain[i].type = "event"
  BY DEF BridgeInv
<1>4. AtOffset(conn[c].chain, o)
  BY DEF OneLife
<1>5. AtOffset(Tail(conn[c].chain), o)
  BY <1>1, <1>4, OffsetOfParts
<1>6. conn[c].chain[1].ev = o + conn[c].chain[1].seq
  BY <1>2, <1>3, <1>4 DEF AtOffset
<1> QED
  BY <1>2, <1>3, <1>5, <1>6

\* handleSequencedFrame up to its await.
LEMMA FrameStartSteps ==
    ASSUME BridgeInv, NEW c \in Conns, FrameStarts(c)
    PROVE  BridgeInv'
<1>0. /\ BridgeType /\ conn[c] \in ConnType /\ UNCHANGED <<b, file, signet, delivered>>
      /\ conn[c].chain # <<>> /\ conn[c].saving = FALSE
  BY BridgeTypes DEF BridgeType, FrameStarts, ConnType
<1>1. PICK o \in Nat : OneLife(c, o)
  BY <1>0 DEF BridgeInv
<1>2. /\ Tail(conn[c].chain) \in Seq(Msg) /\ AtOffset(Tail(conn[c].chain), o)
      /\ \A i \in 1..Len(Tail(conn[c].chain)) : Tail(conn[c].chain)[i].type = "event"
      /\ Head(conn[c].chain) = conn[c].chain[1] /\ conn[c].chain[1] \in Msg
  BY <1>0, <1>1, ChainWithoutHead
<1>3. PICK k : k = IF Head(conn[c].chain).seq <= conn[c].last
                   THEN [conn[c] EXCEPT !.chain = Tail(conn[c].chain)]
                   ELSE [conn[c] EXCEPT !.saving = TRUE]
  OBVIOUS
<1>4. conn' = [conn EXCEPT ![c] = k]
  BY <1>3 DEF FrameStarts
<1>5. conn[c].last \in Nat /\ conn[c].chain[1].seq \in Nat
  BY <1>2, BridgeTypes DEF Msg
<1>6. /\ k \in ConnType /\ k.last = conn[c].last /\ k.phase = conn[c].phase
      /\ k.inbox = conn[c].inbox
      /\ \/ k.chain = Tail(conn[c].chain) /\ k.saving = FALSE
         \/ k.chain = conn[c].chain /\ k.saving = TRUE /\ conn[c].chain[1].seq > conn[c].last
  <2>1. CASE conn[c].chain[1].seq <= conn[c].last
    <3>1. k = [conn[c] EXCEPT !.chain = Tail(conn[c].chain)]
      BY <1>2, <1>3, <2>1
    <3> QED
      BY <1>0, <1>2, <3>1 DEF ConnType
  <2>2. CASE ~(conn[c].chain[1].seq <= conn[c].last)
    <3>1. k = [conn[c] EXCEPT !.saving = TRUE] /\ conn[c].chain[1].seq > conn[c].last
      BY <1>2, <1>3, <1>5, <2>2
    <3> QED
      BY <1>0, <3>1 DEF ConnType
  <2> QED
    BY <2>1, <2>2
<1>7. BridgeType' /\ conn'[c] = k /\ \A d \in Conns : d # c => conn'[d] = conn[d]
  BY <1>0, <1>4, <1>6 DEF BridgeType
<1>8. OneLife(c, o)'
  <2>1. AtOffset(conn[c].chain, o) /\ AtOffset(conn[c].inbox, o)
    BY <1>1 DEF OneLife
  <2> QED
    BY <1>0, <1>1, <1>2, <1>6, <1>7, <2>1, LifeKept
<1>9. ConnSound(c)'
  <2>1. /\ conn[c].chain # <<>> => b.active = c \/ b.done
        /\ \A i \in 1..Len(conn[c].chain) : conn[c].chain[i].type = "event"
    BY DEF BridgeInv
  <2> QED
    BY <1>0, <1>2, <1>6, <1>7, <1>8, <2>1 DEF ConnSound
<1>10. \A d \in Conns : d # c => ConnSound(d)'
  BY <1>0, <1>7, ConnKept DEF BridgeInv
<1> QED
  BY <1>0, <1>7, <1>9, <1>10, QuietSteps DEF BridgeInv

\* A frame that is delivered is later than all that were.
LEMMA DeliverySteps ==
    ASSUME BridgeInv, NEW c \in Conns, conn[c].saving, FrameSaved(c), UNCHANGED signet
    PROVE  BridgeInv'
<1>0. /\ BridgeType /\ conn[c] \in ConnType /\ conn[c].last \in Nat /\ Offset \in Nat
      /\ conn[c].chain # <<>> /\ conn[c].chain[1].seq > conn[c].last /\ c # NoConn
      /\ b.active = c \/ b.done
  BY BridgeTypes DEF BridgeInv, BridgeType
<1>1. PICK o \in Nat : OneLife(c, o)
  BY <1>0 DEF BridgeInv
<1>2. /\ Tail(conn[c].chain) \in Seq(Msg) /\ AtOffset(Tail(conn[c].chain), o)
      /\ \A i \in 1..Len(Tail(conn[c].chain)) : Tail(conn[c].chain)[i].type = "event"
      /\ Head(conn[c].chain) = conn[c].chain[1] /\ conn[c].chain[1] \in Msg
      /\ conn[c].chain[1].ev = o + conn[c].chain[1].seq
  BY <1>0, <1>1, ChainWithoutHead
<1>3. PICK f \in Msg : f = Head(conn[c].chain) /\ f.seq > conn[c].last
                       /\ f.ev = o + f.seq /\ f.seq \in Nat /\ f.ev \in Nat
  BY <1>0, <1>2 DEF Msg
<1>4. PICK k : k = [conn[c] EXCEPT !.saving = FALSE, !.last = f.seq,
                                   !.chain = Tail(conn[c].chain)]
  OBVIOUS
<1>5. /\ conn' = [conn EXCEPT ![c] = k] /\ file' = f.seq /\ UNCHANGED <<b, signet>>
      /\ delivered' = IF b.done THEN delivered ELSE Append(delivered, f)
  BY <1>0, <1>3, <1>4 DEF FrameSaved, Deliver, BridgeType
<1>6. /\ k \in ConnType /\ k.last = f.seq /\ k.phase = conn[c].phase
      /\ k.inbox = conn[c].inbox /\ k.chain = Tail(conn[c].chain) /\ k.saving = FALSE
  BY <1>0, <1>2, <1>3, <1>4 DEF ConnType
<1>7. BridgeType' /\ conn'[c] = k /\ \A d \in Conns : d # c => conn'[d] = conn[d]
  <2>1. delivered' \in Seq(Msg)
    BY <1>0, <1>3, <1>5 DEF BridgeType
  <2> QED
    BY <1>0, <1>3, <1>5, <1>6, <2>1 DEF BridgeType
<1>8. UpTo(o + conn[c].last) /\ o <= Offset
  BY <1>1 DEF OneLife
<1>9. \A i \in 1..Len(delivered) : delivered[i].ev \in Nat /\ delivered[i].ev < f.ev
  <2>1. \A i \in 1..Len(delivered) : delivered[i] \in Msg
    BY <1>0 DEF BridgeType
  <2>2. \A i \in 1..Len(delivered) : delivered[i].ev \in Nat
    BY <2>1 DEF Msg
  <2>3. \A i \in 1..Len(delivered) : delivered[i].ev <= o + conn[c].last
    BY <1>8 DEF UpTo
  <2> QED
    BY <1>0, <1>3, <2>2, <2>3, SMTT(30)
<1>10. /\ Len(delivered) \in Nat /\ Len(delivered') \in Nat
       /\ \A i \in 1..Len(delivered') :
             \/ i \in 1..Len(delivered) /\ delivered'[i] = delivered[i]
             \/ i = Len(delivered) + 1 /\ delivered'[i] = f
  <2>1. delivered \in Seq(Msg)
    BY <1>0 DEF BridgeType
  <2>2. CASE b.done
    BY <1>5, <2>1, <2>2
  <2>3. CASE ~b.done
    <3>1. Len(delivered) \in Nat /\ Len(delivered') = Len(delivered) + 1
          /\ delivered'[Len(delivered) + 1] = f
          /\ \A i \in 1..Len(delivered) : delivered'[i] = delivered[i]
      BY <1>5, <2>1, <2>3
    <3> QED
      BY <3>1
  <2> QED
    BY <2>2, <2>3
<1>11. DeliveredOnce'
  <2> SUFFICES ASSUME NEW i \in 1..Len(delivered'), NEW j \in 1..Len(delivered'), i < j
               PROVE  delivered'[i].ev < delivered'[j].ev
    BY <1>7, SMTT(30) DEF DeliveredOnce, BridgeType
  <2>1. CASE j \in 1..Len(delivered)
    <3>1. i \in 1..Len(delivered) /\ delivered'[i] = delivered[i] /\ delivered'[j] = delivered[j]
      BY <1>10, <2>1
    <3>2. DOMAIN delivered = 1..Len(delivered)
      BY <1>0 DEF BridgeType
    <3> QED
      BY <2>1, <3>1, <3>2 DEF BridgeInv, DeliveredOnce
  <2>2. CASE j \notin 1..Len(delivered)
    <3>1. j = Len(delivered) + 1 /\ delivered'[j] = f
          /\ i \in 1..Len(delivered) /\ delivered'[i] = delivered[i]
      BY <1>10, <2>2
    <3> QED
      BY <1>9, <3>1
  <2> QED
    BY <2>1, <2>2
<1>12. \A i \in 1..Len(delivered') : delivered'[i].ev <= o + f.seq
                                     /\ delivered'[i].ev <= Offset + f.seq
  <2>1. ASSUME NEW i \in 1..Len(delivered')
        PROVE  delivered'[i].ev \in Nat /\ delivered'[i].ev <= f.ev
    BY <1>3, <1>9, <1>10, SMTT(30)
  <2>2. f.ev = o + f.seq /\ f.ev <= Offset + f.seq
    BY <1>0, <1>3, <1>8
  <2>3. ASSUME NEW i \in 1..Len(delivered')
        PROVE  delivered'[i].ev <= o + f.seq /\ delivered'[i].ev <= Offset + f.seq
    <3>1. PICK e : e = delivered'[i].ev
      OBVIOUS
    <3>2. e \in Nat /\ e <= f.ev /\ Offset + f.seq \in Nat
      BY <1>0, <1>3, <2>1, <3>1, SMTT(30)
    <3>3. e <= o + f.seq /\ e <= Offset + f.seq
      BY <1>3, <2>2, <3>2, SMTT(30)
    <3> QED
      BY <3>1, <3>3
  <2> QED
    BY <2>3
<1>13. OneLife(c, o)'
  <2>1. UpTo(o + conn[c].last)'
    BY <1>6, <1>7, <1>12 DEF UpTo
  <2>2. Offset' = Offset
    BY <1>5 DEF Offset
  <2>3. /\ o <= Offset'
        /\ b'.active = c /\ conn'[c].phase = "open" => o = Offset'
        /\ AtOffset(conn'[c].chain, o) /\ AtOffset(conn'[c].inbox, o)
    BY <1>1, <1>2, <1>5, <1>6, <1>7, <2>2 DEF OneLife
  <2> QED
    BY <2>1, <2>3 DEF OneLife, AtOffset
<1>14. ConnSound(c)'
  <2>1. conn'[c].saving = FALSE /\ b' = b /\ conn'[c].chain = Tail(conn[c].chain)
    BY <1>5, <1>6, <1>7
  <2> QED
    BY <1>0, <1>2, <1>13, <2>1 DEF ConnSound
<1>15. ASSUME NEW d \in Conns, d # c
       PROVE  ConnSound(d)'
  <2>1. CASE b.done
    BY <1>5, <1>7, <1>15, <2>1, ConnKept
  <2>2. CASE ~b.done
    <3>1. conn[d].chain = <<>> /\ b.active # d /\ conn[d].saving = FALSE
      <4>1. conn[d] \in ConnType
        BY <1>0 DEF BridgeType
      <4> QED
        BY <1>0, <1>15, <2>2, <4>1 DEF BridgeInv, ConnType
    <3> QED
      BY <1>5, <1>7, <1>15, <3>1 DEF ConnSound
  <2> QED
    BY <2>1, <2>2
<1>16. file' # Torn => UpTo(Offset + file)'
  BY <1>5, <1>12 DEF UpTo, Offset
<1>17. b'.loop \in {"sleep", "connect"} => UpTo(Offset + b.resume)'
  <2>1. b.loop \in {"sleep", "connect"} => b.active # c /\ ~b.done
    BY <1>0 DEF BridgeInv
  <2> QED
    BY <1>0, <1>5, <2>1
<1>18. \A d \in Conns : ConnSound(d)'
  BY <1>14, <1>15
<1> QED
  BY <1>5, <1>7, <1>11, <1>16, <1>17, <1>18 DEF BridgeInv, ConnSound, Offset, AtOffset

\* A frame whose save failed is given up.
LEMMA FrameLostSteps ==
    ASSUME BridgeInv, NEW c \in Conns, conn[c].saving, FrameLost(c), UNCHANGED signet
    PROVE  BridgeInv'
<1>0. /\ BridgeType /\ \A d \in Conns : conn[d] \in ConnType
      /\ UNCHANGED <<file, signet, delivered>> /\ conn[c].chain # <<>>
  BY BridgeTypes DEF BridgeInv, BridgeType, FrameLost
<1>1. b' \in LoopType /\ b'.active = b.active /\ b'.loop = b.loop /\ b'.done = b.done
      /\ b'.resume = b.resume
  BY <1>0 DEF FrameLost, BridgeType, LoopType
<1>2. ASSUME NEW d \in Conns
      PROVE  /\ conn'[d] \in ConnType /\ conn'[d].last = conn[d].last
             /\ conn'[d].phase = "open" => conn[d].phase = "open"
             /\ conn'[d].inbox = <<>> \/ conn'[d].inbox = conn[d].inbox
             /\ \/ conn'[d].chain = conn[d].chain /\ conn'[d].saving = conn[d].saving
                \/ /\ conn'[d].chain = Tail(conn[d].chain) /\ conn'[d].saving = FALSE
                   /\ conn[d].chain # <<>>
  <2>1. PICK k : k = IF d = c THEN [conn[c] EXCEPT !.saving = FALSE, !.chain = Tail(conn[c].chain)]
                     ELSE conn[d]
    OBVIOUS
  <2>2. conn'[d] = IF d = b.active THEN [k EXCEPT !.phase = "closing", !.inbox = <<>>] ELSE k
    BY <2>1 DEF FrameLost
  <2>3. Tail(conn[c].chain) \in Seq(Msg) /\ <<>> \in Seq(Msg)
    BY <1>0, HeadAndTail, BridgeTypes
  <2>4. /\ k \in ConnType /\ k.last = conn[d].last /\ k.phase = conn[d].phase
        /\ k.inbox = conn[d].inbox
        /\ \/ k.chain = conn[d].chain /\ k.saving = conn[d].saving
           \/ /\ k.chain = Tail(conn[d].chain) /\ k.saving = FALSE
              /\ conn[d].chain # <<>>
    <3>1. CASE d = c
      <4>1. k = [conn[c] EXCEPT !.saving = FALSE, !.chain = Tail(conn[c].chain)]
        BY <2>1, <3>1
      <4> QED
        BY <1>0, <2>3, <3>1, <4>1 DEF ConnType
    <3>2. CASE d # c
      BY <1>0, <2>1, <3>2
    <3> QED
      BY <3>1, <3>2
  <2>5. CASE d = b.active
    <3>1. conn'[d] = [k EXCEPT !.phase = "closing", !.inbox = <<>>]
      BY <2>2, <2>5
    <3>2. /\ conn'[d] \in ConnType /\ conn'[d].last = k.last /\ conn'[d].phase = "closing"
          /\ conn'[d].inbox = <<>> /\ conn'[d].chain = k.chain /\ conn'[d].saving = k.saving
      BY <2>3, <2>4, <3>1 DEF ConnType
    <3> QED
      BY <2>4, <3>2
  <2>6. CASE d # b.active
    BY <2>2, <2>4, <2>6
  <2> QED
    BY <2>5, <2>6
<1>3. BridgeType'
  <2>1. \E g : conn' = [d \in Conns |-> g[d]]
    <3>1. conn' = [d \in Conns |-> conn'[d]]
      BY DEF FrameLost
    <3> QED
      BY <3>1
  <2> QED
    BY <1>0, <1>1, <1>2, <2>1 DEF BridgeType
<1>4. ASSUME NEW d \in Conns
      PROVE  ConnSound(d)'
  <2>1. CASE b.active = d \/ conn[d].chain # <<>>
    <3>1. PICK o \in Nat : OneLife(d, o)
      BY <2>1 DEF BridgeInv
    <3>2. AtOffset(conn[d].chain, o) /\ AtOffset(conn[d].inbox, o) /\ AtOffset(<<>>, o)
      BY <3>1 DEF OneLife, AtOffset
    <3>3. conn[d].chain # <<>> =>
              /\ AtOffset(Tail(conn[d].chain), o)
              /\ \A i \in 1..Len(Tail(conn[d].chain)) : Tail(conn[d].chain)[i].type = "event"
      BY <3>1, ChainWithoutHead
    <3>4. OneLife(d, o)'
      BY <1>0, <1>1, <1>2, <3>1, <3>2, <3>3, LifeKept
    <3>5. /\ conn[d].chain # <<>> => b.active = d \/ b.done
          /\ \A i \in 1..Len(conn[d].chain) : conn[d].chain[i].type = "event"
          /\ conn[d].saving => conn[d].chain # <<>> /\ conn[d].chain[1].seq > conn[d].last
      BY DEF BridgeInv
    <3>6. \A i \in 1..Len(conn'[d].chain) : conn'[d].chain[i].type = "event"
      BY <1>2, <3>3, <3>5
    <3>7. conn'[d].saving => conn'[d].chain # <<>> /\ conn'[d].chain[1].seq > conn'[d].last
      BY <1>2, <3>5
    <3>8. conn'[d].chain # <<>> => b'.active = d \/ b'.done
      BY <1>1, <1>2, <2>1, <3>5
    <3> QED
      BY <3>4, <3>6, <3>7, <3>8 DEF ConnSound
  <2>2. CASE b.active # d /\ conn[d].chain = <<>>
    <3>1. conn'[d].chain = <<>> /\ ~conn[d].saving /\ conn'[d].saving = conn[d].saving
      BY <1>2, <2>2 DEF BridgeInv
    <3> QED
      BY <1>1, <2>2, <3>1 DEF ConnSound
  <2> QED
    BY <2>1, <2>2
<1> QED
  BY <1>0, <1>1, <1>3, <1>4, QuietSteps DEF BridgeInv

\* The process dies: what a save under way may leave is a bound too.
LEMMA CrashSteps ==
    ASSUME BridgeInv, Crash
    PROVE  BridgeInv'
<1>0. /\ BridgeType /\ Offset \in Nat /\ UNCHANGED <<signet, delivered>>
      /\ b' = FreshBridge /\ conn' = [c \in Conns |-> IdleConn]
      /\ file' \in {file} \union
         UNION {{Torn, Head(conn[c].chain).seq} : c \in {d \in Conns : conn[d].saving}}
  BY BridgeTypes DEF Crash
<1>1. b'.loop = "off" /\ b'.active = NoConn /\ b' \in LoopType
  BY <1>0 DEF FreshBridge, LoopType
<1>2. \A c \in Conns : conn'[c].chain = <<>> /\ conn'[c].saving = FALSE
  BY <1>0 DEF IdleConn
<1>3. ASSUME NEW c \in Conns, conn[c].saving
      PROVE  Head(conn[c].chain).seq \in Nat /\ UpTo(Offset + Head(conn[c].chain).seq)
  <2>1. conn[c].chain # <<>> /\ conn[c].chain[1].seq > conn[c].last /\ conn[c].last \in Nat
    BY <1>3, BridgeTypes DEF BridgeInv
  <2>2. PICK o \in Nat : OneLife(c, o)
    BY <2>1 DEF BridgeInv
  <2>3. Head(conn[c].chain) = conn[c].chain[1] /\ conn[c].chain[1] \in Msg
    BY <2>1, <2>2, ChainWithoutHead
  <2>4. PICK n \in Nat : n = Head(conn[c].chain).seq /\ n > conn[c].last
    BY <2>1, <2>3 DEF Msg
  <2>5. UpTo(o + conn[c].last) /\ o <= Offset
    BY <2>2 DEF OneLife
  <2>6. o + conn[c].last \in Nat /\ Offset + n \in Nat /\ o + conn[c].last <= Offset + n
    BY <1>0, <2>1, <2>4, <2>5, SMTT(30)
  <2>7. UpTo(Offset + n)
    BY <1>0, <2>5, <2>6, UpToIsMonotone
  <2> QED
    BY <2>4, <2>7
<1>4. \/ file' = file \/ file' = Torn
      \/ file' \in Nat /\ UpTo(Offset + file')
  BY <1>0, <1>3
<1>5. file' \in Nat \cup {Torn} /\ (file' # Torn => UpTo(Offset + file'))
  BY <1>0, <1>4 DEF BridgeInv, BridgeType
<1>6. (file # Torn => UpTo(Offset + file))'
  BY <1>0, <1>5 DEF UpTo, Offset
<1>7. BridgeType'
  BY <1>0, <1>1, <1>5, IdleIsTyped DEF BridgeType
<1>8. \A c \in Conns : c # NoConn
  BY BridgeTypes
<1> QED
  BY <1>0, <1>1, <1>2, <1>6, <1>7, <1>8 DEF BridgeInv, DeliveredOnce, AtOffset, Offset

\* The signet answers in its present life.
LEMMA AnswerSteps ==
    ASSUME BridgeInv, NEW c \in Conns, SignetAnswers(c)
    PROVE  BridgeInv'
<1>0. /\ BridgeType /\ conn[c] \in ConnType /\ UNCHANGED <<b, file, signet, delivered>>
      /\ b.active = c /\ conn[c].phase = "open" /\ Offset \in Nat
  BY BridgeTypes DEF BridgeType, SignetAnswers
<1>1. PICK q, p : /\ conn' = [conn EXCEPT ![c].peer = p, ![c].inbox = q]
                  /\ p \in {"active", "refused"}
                  /\ \/ q = <<Answer("auth_error")>>
                     \/ q = <<Answer("authenticated")>> \o <<>>
                     \/ q = <<Answer("authenticated")>> \o FramesSince(conn[c].last)
  BY DEF SignetAnswers
<1>2. PICK o \in Nat : o = Offset /\ OneLife(c, o)
  <2>1. PICK o \in Nat : OneLife(c, o)
    BY <1>0 DEF BridgeInv
  <2> QED
    BY <1>0, <2>1 DEF OneLife
<1>3. \A m \in {"auth_error", "authenticated"} :
          Answer(m) \in Msg /\ Answer(m).type # "event"
  BY DEF Answer, Msg
<1>4. /\ FramesSince(conn[c].last) \in Seq(Msg)
      /\ AtOffset(FramesSince(conn[c].last), o)
  <2>1. signet.buffer \in Seq(Msg) /\ AtOffset(signet.buffer, o)
    BY <1>0, <1>2 DEF BridgeInv, BridgeType
  <2>2. PICK seen : seen = {i \in DOMAIN signet.buffer : signet.buffer[i].seq <= conn[c].last}
    OBVIOUS
  <2>3. IsFiniteSet(1..Len(signet.buffer)) /\ DOMAIN signet.buffer = 1..Len(signet.buffer)
    BY <2>1, FS_Interval
  <2>4. IsFiniteSet(seen)
    BY <2>2, <2>3, FS_Subset
  <2>5. PICK n \in Nat : n = Cardinality(seen)
    BY <2>4, FS_CardinalityType
  <2>6. FramesSince(conn[c].last) = SubSeq(signet.buffer, n + 1, Len(signet.buffer))
    BY <2>2, <2>5 DEF FramesSince
  <2>7. /\ SubSeq(signet.buffer, n + 1, Len(signet.buffer)) \in Seq(Msg)
        /\ \A i \in 1..Len(SubSeq(signet.buffer, n + 1, Len(signet.buffer))) :
             /\ n + i \in 1..Len(signet.buffer)
             /\ SubSeq(signet.buffer, n + 1, Len(signet.buffer))[i] = signet.buffer[n + i]
    BY <2>1
  <2> QED
    BY <2>1, <2>6, <2>7 DEF AtOffset
<1>5. q \in Seq(Msg) /\ AtOffset(q, o)
  <2>1. ASSUME NEW a \in Msg, a.type # "event", NEW s \in Seq(Msg), AtOffset(s, o)
        PROVE  /\ <<a>> \o s \in Seq(Msg) /\ AtOffset(<<a>> \o s, o)
               /\ <<a>> \in Seq(Msg) /\ AtOffset(<<a>>, o)
    <3>1. /\ <<a>> \o s \in Seq(Msg) /\ Len(s) \in Nat
          /\ Len(<<a>> \o s) = Len(s) + 1 /\ (<<a>> \o s)[1] = a
          /\ \A i \in 1..Len(s) : (<<a>> \o s)[i + 1] = s[i]
      BY <2>1
    <3>2. \A i \in 1..Len(<<a>> \o s) : i = 1 \/ i - 1 \in 1..Len(s)
      BY <3>1
    <3>3. \A i \in 1..Len(<<a>> \o s) : (<<a>> \o s)[i] = a
              \/ \E j \in 1..Len(s) : (<<a>> \o s)[i] = s[j]
      <4> SUFFICES ASSUME NEW i \in 1..Len(<<a>> \o s), i # 1
                   PROVE  \E j \in 1..Len(s) : (<<a>> \o s)[i] = s[j]
        BY <3>1
      <4>1. i - 1 \in 1..Len(s) /\ (i - 1) + 1 = i
        BY <3>1, <3>2
      <4> QED
        BY <3>1, <4>1
    <3>4. <<a>> \in Seq(Msg) /\ AtOffset(<<a>>, o)
      BY <2>1 DEF AtOffset
    <3> QED
      BY <2>1, <3>1, <3>3, <3>4 DEF AtOffset
  <2>2. <<>> \in Seq(Msg) /\ AtOffset(<<>>, o)
    BY DEF AtOffset
  <2>3. CASE q = <<Answer("auth_error")>>
    BY <1>3, <2>1, <2>2, <2>3
  <2>4. CASE q = <<Answer("authenticated")>> \o <<>>
    BY <1>3, <2>1, <2>2, <2>4
  <2>5. CASE q = <<Answer("authenticated")>> \o FramesSince(conn[c].last)
    BY <1>3, <1>4, <2>1, <2>5
  <2> QED
    BY <1>1, <2>3, <2>4, <2>5
<1>6. /\ conn'[c] \in ConnType /\ conn'[c].last = conn[c].last
      /\ conn'[c].phase = conn[c].phase /\ conn'[c].chain = conn[c].chain
      /\ conn'[c].saving = conn[c].saving /\ conn'[c].inbox = q
      /\ \A d \in Conns : d # c => conn'[d] = conn[d]
      /\ conn' \in [Conns -> ConnType]
  <2>1. PICK k : k = [conn[c] EXCEPT !.peer = p, !.inbox = q]
    OBVIOUS
  <2>2. conn' = [conn EXCEPT ![c] = k]
    BY <1>0, <1>1, <2>1 DEF BridgeType
  <2>3. /\ k \in ConnType /\ k.last = conn[c].last /\ k.phase = conn[c].phase
        /\ k.chain = conn[c].chain /\ k.saving = conn[c].saving /\ k.inbox = q
    BY <1>0, <1>1, <1>5, <2>1 DEF ConnType
  <2> QED
    BY <1>0, <2>2, <2>3 DEF BridgeType
<1>7. BridgeType'
  BY <1>0, <1>6 DEF BridgeType
<1>8. OneLife(c, o)'
  <2>1. AtOffset(conn'[c].chain, o) /\ AtOffset(conn'[c].inbox, o)
    BY <1>2, <1>5, <1>6 DEF OneLife
  <2> QED
    BY <1>0, <1>2, <1>6, <2>1, LifeKept
<1>9. ConnSound(c)'
  BY <1>0, <1>6, <1>8 DEF ConnSound, BridgeInv
<1>10. \A d \in Conns : d # c => ConnSound(d)'
  BY <1>0, <1>6, ConnKept DEF BridgeInv
<1> QED
  BY <1>0, <1>7, <1>9, <1>10, QuietSteps DEF BridgeInv

\* An event: the number and the total grow together.
LEMMA SendSteps ==
    ASSUME BridgeInv, SignetSends
    PROVE  BridgeInv'
<1>0. /\ BridgeType /\ \A c \in Conns : conn[c] \in ConnType /\ c # NoConn
      /\ UNCHANGED <<b, file, delivered>> /\ Offset \in Nat
      /\ signet.seq \in Nat /\ signet.total \in Nat /\ signet.seq <= signet.total
      /\ signet.buffer \in Seq(Msg) /\ AtOffset(signet.buffer, Offset)
  BY BridgeTypes DEF BridgeInv, BridgeType, SignetSends
<1>1. PICK f : f = Frame(signet.seq + 1, signet.total + 1)
  OBVIOUS
<1>2. /\ f \in Msg /\ f.type = "event" /\ f.seq = signet.seq + 1
      /\ f.ev = signet.total + 1 /\ f.ev = Offset + f.seq
  BY <1>0, <1>1 DEF Frame, Msg, Offset
<1>3. /\ signet' = [seq |-> f.seq, buffer |-> Keep(Append(signet.buffer, f)), total |-> f.ev]
      /\ conn' = [c \in Conns |->
            IF b.active = c /\ conn[c].peer = "active" /\ conn[c].phase = "open"
            THEN [conn[c] EXCEPT !.inbox = Append(conn[c].inbox, f)] ELSE conn[c]]
  BY <1>1 DEF SignetSends
<1>4. Keep(Append(signet.buffer, f)) \in Seq(Msg)
      /\ AtOffset(Keep(Append(signet.buffer, f)), Offset)
  <2>1. PICK q : q = Append(signet.buffer, f)
    OBVIOUS
  <2>2. q \in Seq(Msg) /\ q # <<>>
    BY <1>0, <1>2, <2>1
  <2>3. AtOffset(q, Offset)
    BY <1>0, <1>2, <2>1, OffsetOfParts
  <2>4. Tail(q) \in Seq(Msg) /\ AtOffset(Tail(q), Offset)
    BY <1>0, <2>2, <2>3, OffsetOfParts, HeadAndTail
  <2> QED
    BY <2>1, <2>2, <2>3, <2>4 DEF Keep
<1>5. /\ Offset' = Offset /\ signet' \in [seq : Nat, buffer : Seq(Msg), total : Nat]
      /\ signet'.seq <= signet'.total /\ AtOffset(signet'.buffer, Offset)
  <2>1. /\ signet'.seq = signet.seq + 1 /\ signet'.total = signet.total + 1
        /\ signet'.buffer = Keep(Append(signet.buffer, f))
    BY <1>2, <1>3
  <2>2. signet' \in [seq : Nat, buffer : Seq(Msg), total : Nat]
    BY <1>0, <1>2, <1>3, <1>4
  <2> QED
    BY <1>0, <1>4, <2>1, <2>2 DEF Offset
<1>6. ASSUME NEW c \in Conns
      PROVE  /\ conn'[c] \in ConnType /\ conn'[c].last = conn[c].last
             /\ conn'[c].phase = conn[c].phase /\ conn'[c].chain = conn[c].chain
             /\ conn'[c].saving = conn[c].saving
             /\ \/ conn'[c].inbox = conn[c].inbox
                \/ /\ b.active = c /\ conn[c].phase = "open"
                   /\ conn'[c].inbox = Append(conn[c].inbox, f)
  <2>1. CASE b.active = c /\ conn[c].peer = "active" /\ conn[c].phase = "open"
    <3>1. conn'[c] = [conn[c] EXCEPT !.inbox = Append(conn[c].inbox, f)]
      BY <1>3, <2>1
    <3>2. Append(conn[c].inbox, f) \in Seq(Msg)
      BY <1>2, BridgeTypes
    <3> QED
      BY <1>0, <2>1, <3>1, <3>2 DEF ConnType
  <2>2. CASE ~(b.active = c /\ conn[c].peer = "active" /\ conn[c].phase = "open")
    <3>1. conn'[c] = conn[c]
      BY <1>3, <2>2
    <3> QED
      BY <1>0, <3>1
  <2> QED
    BY <2>1, <2>2
<1>7. BridgeType'
  <2>1. conn' \in [Conns -> ConnType]
    BY <1>3, <1>6
  <2> QED
    BY <1>0, <1>5, <2>1 DEF BridgeType
<1>8. ASSUME NEW c \in Conns, NEW o \in Nat, OneLife(c, o)
      PROVE  OneLife(c, o)'
  <2>1. AtOffset(conn[c].inbox, o) /\ AtOffset(conn[c].chain, o)
        /\ (b.active = c /\ conn[c].phase = "open" => o = Offset)
        /\ o <= Offset /\ UpTo(o + conn[c].last)
    BY <1>8 DEF OneLife
  <2>2. \A x \in Msg : (x.type = "event" => x.ev = o + x.seq)
                            => AtOffset(Append(conn[c].inbox, x), o)
    BY <2>1, OffsetOfParts, BridgeTypes
  <2>3. AtOffset(conn'[c].inbox, o)
    BY <1>2, <1>6, <2>1, <2>2, ZenonT(30)
  <2>4. UpTo(o + conn[c].last)'
    BY <1>0, <1>6, <2>1 DEF UpTo
  <2> QED
    BY <1>0, <1>5, <1>6, <2>1, <2>3, <2>4, SMTT(30) DEF OneLife, AtOffset
<1>9. ASSUME NEW c \in Conns
      PROVE  ConnSound(c)'
  <2>1. b.active = c \/ conn[c].chain # <<>> => \E o \in Nat : OneLife(c, o)
    BY DEF BridgeInv
  <2> QED
    BY <1>0, <1>6, <1>8, <2>1, SMTT(30) DEF ConnSound, BridgeInv
<1>10. /\ (file # Torn => UpTo(Offset + file))'
       /\ (b.loop \in {"sleep", "connect"} => UpTo(Offset + b.resume))'
       /\ DeliveredOnce'
  BY <1>0, <1>5 DEF BridgeInv, UpTo, DeliveredOnce
<1>11. AtOffset(signet.buffer, Offset)'
  BY <1>5 DEF AtOffset
<1> QED
  BY <1>0, <1>5, <1>7, <1>9, <1>10, <1>11 DEF BridgeInv, ConnSound

\* A restart of the signet begins a later life.
LEMMA RestartSteps ==
    ASSUME BridgeInv, SignetRestarts
    PROVE  BridgeInv'
<1>0. /\ BridgeType /\ \A c \in Conns : conn[c] \in ConnType /\ c # NoConn
      /\ UNCHANGED <<b, file, delivered>> /\ Offset \in Nat
      /\ signet.seq \in Nat /\ signet.total \in Nat /\ signet.seq <= signet.total
      /\ signet' = [signet EXCEPT !.seq = 0, !.buffer = <<>>]
      /\ conn' = [c \in Conns |->
                  IF b.active = c /\ conn[c].phase = "open"
                  THEN [conn[c] EXCEPT !.phase = "closing", !.inbox = <<>>]
                  ELSE conn[c]]
  BY BridgeTypes DEF BridgeInv, BridgeType, SignetRestarts
<1>1. <<>> \in Seq(Msg)
  OBVIOUS
<1>2. /\ signet'.seq = 0 /\ signet'.total = signet.total /\ signet'.buffer = <<>>
      /\ signet' \in [seq : Nat, buffer : Seq(Msg), total : Nat]
  BY <1>0, <1>1 DEF BridgeType
<1>3. Offset' \in Nat /\ Offset <= Offset' /\ signet'.seq <= signet'.total
      /\ AtOffset(signet.buffer, Offset)'
  <2>1. Offset' = signet.total /\ Offset = signet.total - signet.seq
    <3>1. Offset' = signet'.total - signet'.seq /\ Offset = signet.total - signet.seq
      BY DEF Offset
    <3>2. signet.total - 0 = signet.total
      <4>1. signet.total \in Nat
        BY <1>0
      <4> QED
        BY <4>1
    <3> QED
      BY <1>2, <3>1, <3>2
  <2>2. AtOffset(signet.buffer, Offset)'
    BY <1>2 DEF AtOffset
  <2>3. PICK s \in Nat, u \in Nat : s = signet.seq /\ u = signet.total /\ s <= u
    BY <1>0
  <2>4. u - s <= u /\ 0 <= u
    BY <2>3
  <2> QED
    BY <1>2, <2>1, <2>2, <2>3, <2>4
<1>a. PICK x \in Nat, y \in Nat : x = Offset /\ y = Offset' /\ x <= y
  BY <1>0, <1>3
<1>4. ASSUME NEW c \in Conns
      PROVE  /\ conn'[c] \in ConnType /\ conn'[c].last = conn[c].last
             /\ conn'[c].chain = conn[c].chain /\ conn'[c].saving = conn[c].saving
             /\ conn'[c].inbox = conn[c].inbox \/ conn'[c].inbox = <<>>
             /\ ~(b.active = c /\ conn'[c].phase = "open")
  <2>1. CASE b.active = c /\ conn[c].phase = "open"
    <3>1. conn'[c] = [conn[c] EXCEPT !.phase = "closing", !.inbox = <<>>]
      BY <1>0, <2>1
    <3> QED
      BY <1>0, <1>1, <3>1, ZenonT(30) DEF ConnType
  <2>2. CASE ~(b.active = c /\ conn[c].phase = "open")
    <3>1. conn'[c] = conn[c]
      BY <1>0, <2>2
    <3> QED
      BY <1>0, <2>2, <3>1
  <2> QED
    BY <2>1, <2>2
<1>5. BridgeType'
  <2>1. conn' \in [Conns -> ConnType]
    BY <1>0, <1>4
  <2> QED
    BY <1>0, <1>2, <2>1 DEF BridgeType
<1>6. ASSUME NEW c \in Conns, NEW o \in Nat, OneLife(c, o)
      PROVE  OneLife(c, o)'
  <2>1. o <= Offset'
    <3>1. o <= x
      BY <1>a, <1>6 DEF OneLife
    <3>2. o <= y
      BY <1>a, <3>1
    <3> QED
      BY <1>a, <3>2
  <2>2. UpTo(o + conn[c].last)'
    BY <1>0, <1>4, <1>6 DEF OneLife, UpTo
  <2>3. AtOffset(conn'[c].chain, o) /\ AtOffset(conn'[c].inbox, o)
    BY <1>4, <1>6 DEF OneLife, AtOffset
  <2> QED
    BY <1>0, <1>4, <2>1, <2>2, <2>3 DEF OneLife, AtOffset
<1>7. ASSUME NEW c \in Conns
      PROVE  ConnSound(c)'
  <2>1. b.active = c \/ conn[c].chain # <<>> => \E o \in Nat : OneLife(c, o)
    BY DEF BridgeInv
  <2> QED
    BY <1>0, <1>4, <1>6, <2>1, ZenonT(30) DEF ConnSound, BridgeInv
<1>8. ASSUME NEW n \in Nat, UpTo(Offset + n)
      PROVE  UpTo(Offset + n)'
  <2>b. x <= y
    BY <1>a
  <2>a. x + n <= y + n /\ x + n \in Nat /\ y + n \in Nat
    BY <2>b
  <2>1. PICK m \in Nat : m = Offset' + n /\ Offset + n <= m /\ Offset + n \in Nat
    BY <1>a, <2>a
  <2>2. UpTo(m)
    BY <1>0, <1>8, <2>1, UpToIsMonotone
  <2> QED
    BY <1>0, <2>1, <2>2 DEF UpTo
<1>9. /\ (file # Torn => UpTo(Offset + file))'
      /\ (b.loop \in {"sleep", "connect"} => UpTo(Offset + b.resume))'
      /\ DeliveredOnce'
  <2>1. (file # Torn => file \in Nat /\ UpTo(Offset + file)) /\ b.resume \in Nat
        /\ (b.loop \in {"sleep", "connect"} => UpTo(Offset + b.resume)) /\ DeliveredOnce
    BY DEF BridgeInv, BridgeType, LoopType
  <2>2. PICK n : n = file /\ n = file'
    BY <1>0
  <2>3. PICK r \in Nat : r = b.resume /\ r = b'.resume
    BY <1>0, <2>1
  <2>4. n # Torn => UpTo(Offset + n)'
    BY <1>8, <2>1, <2>2
  <2>5. b.loop \in {"sleep", "connect"} => UpTo(Offset + r)'
    BY <1>8, <2>1, <2>3
  <2>6. DeliveredOnce'
    BY <1>0, <2>1 DEF DeliveredOnce
  <2> QED
    BY <1>0, <2>2, <2>3, <2>4, <2>5, <2>6
<1> QED
  BY <1>0, <1>3, <1>5, <1>7, <1>9 DEF BridgeInv, ConnSound

\* When a start waits for the old chain, no event reaches the consumer twice or
\* out of order, whatever crashes, restarts of the signet, failed saves and
\* reconnections come between (runtime.ts handleSequencedFrame, checkpoint-store.ts).
THEOREM AlwaysDeliveredOnce ==
    ASSUME ~QuickRestart
    PROVE  BSpec => []DeliveredOnce
<1>1. BInit => BridgeInv
  BY BridgeStarts
<1>2. BridgeInv /\ [BNext]_bvars => BridgeInv'
  <2> SUFFICES ASSUME BridgeInv, [BNext]_bvars PROVE BridgeInv'
    OBVIOUS
  <2>1. CASE UNCHANGED bvars
    <3>1. \A c \in Conns : ConnSound(c)'
      BY <2>1, ConnKept DEF bvars, BridgeInv
    <3>2. BridgeType'
      BY <2>1 DEF bvars, BridgeInv, BridgeType
    <3> QED
      BY <2>1, <3>1, <3>2, QuietSteps DEF bvars, BridgeInv
  <2>2. CASE Start \/ Loaded \/ Wake
    BY <2>2, LoopSteps
  <2>3. ASSUME NEW c \in Conns, FrameEnds(c)
        PROVE  BridgeInv'
    BY <2>3, DeliverySteps, FrameLostSteps DEF FrameEnds
  <2> QED
    BY <2>1, <2>2, <2>3, StopSteps, CrashSteps, SendSteps, RestartSteps, ConnectSteps,
       MessageSteps, FrameStartSteps, CloseSteps, AnswerSteps
       DEF BNext
<1>3. BridgeInv => DeliveredOnce
  BY DEF BridgeInv
<1> QED
  BY <1>1, <1>2, <1>3, PTL DEF BSpec

(***************************************************************************)
(* The connection handler of the SDK.  First the sockets: one is in use at *)
(* a time, the handler knows it as ws until it is closed, and its phase    *)
(* goes with the state of the handler.                                     *)
(***************************************************************************)
WireFrames == [type : {"authenticated", "auth_error"}, arg : {0}]
                \cup [type : {"event"}, arg : Nat]
                \cup [type : {"response"}, arg : Requests]

SockType ==
  [phase : {"idle", "opening", "open", "closing"}, handled : BOOLEAN, lastSeen : Nat,
   peer : {"none", "asked", "registered", "refused", "active"}, replay : Seq(Nat),
   recovery : BOOLEAN, inbox : Seq(WireFrames)]

HandlerType ==
  [state : States, ws : Sockets \cup {NoSocket}, attempt : Nat, timers : Nat,
   monitor : BOOLEAN, done : BOOLEAN, lastSeenSeq : Nat, pending : SUBSET Requests]

ClientType ==
  /\ h \in HandlerType /\ sock \in [Sockets -> SockType] /\ seq \in Nat
  /\ pushed \in Seq(Nat)

InUse(s) ==
  /\ h.state \notin {"disconnected", "reconnecting"}
  /\ h.state # "closed" => h.ws = s
  /\ sock[s].phase = "opening" =>
        /\ ~sock[s].handled /\ h.state = "connecting"
        /\ sock[s].peer = "none" /\ sock[s].inbox = <<>>
  /\ sock[s].phase = "open" /\ ~sock[s].handled => h.state = "authenticating"
  /\ ~sock[s].handled => h.state # "connected"

ControlInv ==
  /\ \A s, t \in Sockets : sock[s].phase # "idle" /\ sock[t].phase # "idle" => s = t
  /\ \A s \in Sockets : IF sock[s].phase = "idle" THEN sock[s].peer = "none" ELSE InUse(s)
  /\ h.state = "connected" =>
        h.ws \in Sockets /\ sock[h.ws].handled /\ sock[h.ws].phase \in {"open", "closing"}
  /\ h.monitor => h.state = "connected"
  /\ h.pending # {} => h.state = "connected"

\* A socket that was never used.
LEMMA UnusedIsTyped ==
    /\ Unused \in SockType /\ Unused.phase = "idle" /\ Unused.peer = "none"
    /\ Unused.inbox = <<>> /\ Unused.handled = FALSE
<1>1. <<>> \in Seq(WireFrames) /\ <<>> \in Seq(Nat)
  OBVIOUS
<1> QED
  BY <1>1 DEF Unused, SockType

\* The handler and the signet start with nothing under way.
LEMMA ClientStarts ==
    ASSUME Init
    PROVE  ClientType /\ ControlInv
<1>1. /\ h = [state |-> "disconnected", ws |-> NoSocket, attempt |-> 0,
            timers |-> 0, monitor |-> FALSE, done |-> FALSE, lastSeenSeq |-> 0,
            pending |-> {}]
      /\ sock = [s \in Sockets |-> Unused] /\ seq = 0 /\ pushed = <<>>
  BY DEF Init
<1>2. ClientType
  BY <1>1, UnusedIsTyped DEF ClientType, HandlerType, States
<1>3. h.state = "disconnected" /\ h.monitor = FALSE /\ h.pending = {}
      /\ \A s \in Sockets : sock[s].phase = "idle" /\ sock[s].peer = "none"
  BY <1>1, UnusedIsTyped
<1> QED
  BY <1>2, <1>3 DEF ControlInv

\* connect and the reconnect timer.
LEMMA ConnectingSteps ==
    ASSUME ClientType, ControlInv, NEW s \in Sockets, Connect(s) \/ ReconnectTimer(s)
    PROVE  ClientType' /\ ControlInv'
<1>1. ASSUME NEW x \in HandlerType, ConnectInternal(x, s), x.pending = h.pending,
             x.monitor = h.monitor, h.state \in {"disconnected", "reconnecting"},
             seq' = seq, pushed' \in Seq(Nat)
      PROVE  ClientType' /\ ControlInv'
  <2>1. \A t \in Sockets : sock[t].phase = "idle" /\ sock[t].peer = "none"
    BY <1>1 DEF ControlInv, InUse
  <2>2. h.pending = {} /\ ~h.monitor
    BY <1>1 DEF ControlInv
  <2>3. h' \in HandlerType /\ h'.state = "connecting" /\ h'.ws = s
        /\ h'.pending = x.pending /\ h'.monitor = x.monitor
    BY <1>1 DEF ConnectInternal, HandlerType, States
  <2>4. PICK k : k = [Unused EXCEPT !.phase = "opening"]
    OBVIOUS
  <2>5. /\ k \in SockType /\ k.phase = "opening" /\ k.handled = FALSE /\ k.peer = "none"
        /\ k.inbox = <<>>
    BY <2>4, UnusedIsTyped DEF SockType
  <2>6. sock' = [sock EXCEPT ![s] = k]
    BY <1>1, <2>4 DEF ConnectInternal
  <2>7. sock'[s] = k /\ (\A t \in Sockets : t # s => sock'[t] = sock[t])
        /\ sock' \in [Sockets -> SockType]
    BY <2>5, <2>6 DEF ClientType
  <2>8. ClientType'
    BY <1>1, <2>3, <2>7 DEF ClientType
  <2>9. InUse(s)'
    BY <2>3, <2>5, <2>7 DEF InUse
  <2> QED
    BY <1>1, <2>1, <2>2, <2>3, <2>5, <2>7, <2>8, <2>9 DEF ControlInv
<1>2. CASE Connect(s)
  <2>1. PICK x : x = [h EXCEPT !.done = FALSE]
    OBVIOUS
  <2>2. x \in HandlerType /\ x.pending = h.pending /\ x.monitor = h.monitor
    BY <2>1 DEF ClientType, HandlerType
  <2>3. ConnectInternal(x, s) /\ h.state = "disconnected" /\ seq' = seq /\ pushed' = <<>>
    BY <1>2, <2>1 DEF Connect
  <2> QED
    BY <1>1, <2>2, <2>3
<1>3. CASE ReconnectTimer(s)
  <2>1. PICK x : x = [h EXCEPT !.timers = h.timers - 1]
    OBVIOUS
  <2>2. x \in HandlerType /\ x.pending = h.pending /\ x.monitor = h.monitor
        /\ x.state = h.state /\ x.ws = h.ws
    <3>1. h.timers - 1 \in Nat
      BY <1>3 DEF ReconnectTimer, ClientType, HandlerType
    <3> QED
      BY <2>1, <3>1 DEF ClientType, HandlerType
  <2>3. \/ h.state = "reconnecting" /\ ConnectInternal(x, s)
        \/ h.state # "reconnecting" /\ h' = x /\ UNCHANGED sock
    BY <1>3, <2>1 DEF ReconnectTimer
  <2>4. UNCHANGED <<seq, pushed>>
    BY <1>3 DEF ReconnectTimer
  <2>5. CASE h' = x /\ UNCHANGED sock
    BY <2>2, <2>4, <2>5 DEF ClientType, ControlInv, InUse
  <2>6. CASE h.state = "reconnecting" /\ ConnectInternal(x, s)
    BY <1>1, <2>2, <2>4, <2>6 DEF ClientType
  <2> QED
    BY <2>3, <2>5, <2>6
<1> QED
  BY <1>2, <1>3

\* A step that only changes the frames under way, or the requests.
LEMMA ControlKept ==
    ASSUME ClientType, ControlInv, ClientType',
           h'.state = h.state, h'.ws = h.ws, h'.monitor => h.monitor,
           h'.pending # {} => h.state = "connected",
           \A s \in Sockets :
              /\ sock'[s].phase = sock[s].phase
              /\ sock'[s].handled = sock[s].handled
              /\ sock[s].phase \in {"idle", "opening"} =>
                    sock'[s].peer = sock[s].peer /\ sock'[s].inbox = sock[s].inbox
    PROVE  ControlInv'
BY DEF ControlInv, InUse

\* What disconnect, the monitor, the auth timeout and the open event share: the
\* socket in use changes its phase, the others are idle.
LEMMA PhaseSteps ==
    ASSUME ClientType, ControlInv, NEW s \in Sockets, sock[s].phase # "idle",
           NEW k \in SockType, sock' = [sock EXCEPT ![s] = k], h' \in HandlerType,
           UNCHANGED <<seq, pushed>>, k.phase # "idle",
           h'.state \notin {"disconnected", "reconnecting"},
           h'.state # "closed" => h'.ws = s,
           k.phase # "opening",
           k.phase = "open" /\ ~k.handled => h'.state = "authenticating",
           IF h'.state = "connected" THEN k.handled ELSE ~h'.monitor /\ h'.pending = {}
    PROVE  ClientType' /\ ControlInv'
<1>1. /\ sock'[s] = k /\ \A t \in Sockets : t # s => sock'[t] = sock[t]
      /\ sock' \in [Sockets -> SockType]
  BY DEF ClientType
<1>2. ClientType'
  BY <1>1 DEF ClientType
<1>3. \A t \in Sockets : t # s => sock[t].phase = "idle" /\ sock[t].peer = "none"
  BY DEF ControlInv
<1>4. InUse(s)'
  BY <1>1 DEF InUse
<1>5. k.phase \in {"open", "closing"}
  BY DEF SockType
<1> QED
  BY <1>1, <1>2, <1>3, <1>4, <1>5 DEF ControlInv

\* ws.close on a socket in use.
LEMMA ClosedSocket ==
    ASSUME ClientType, NEW s \in Sockets, NEW done2 \in BOOLEAN, NEW k,
           k = [sock[s] EXCEPT !.phase = "closing", !.inbox = <<>>, !.handled = done2]
    PROVE  k \in SockType /\ k.phase = "closing" /\ k.handled = done2 /\ k.inbox = <<>>
<1>1. <<>> \in Seq(WireFrames) /\ sock[s] \in SockType
  BY DEF ClientType
<1> QED
  BY <1>1 DEF SockType

\* disconnect and the heartbeat monitor close the socket in use.
LEMMA HarnessSteps ==
    ASSUME ClientType, ControlInv, Disconnect \/ MonitorFires
    PROVE  ClientType' /\ ControlInv'
<1>1. CASE Disconnect
  <2>1. h' \in HandlerType /\ h'.state = "closed" /\ h'.monitor = FALSE /\ h'.pending = {}
        /\ UNCHANGED <<seq, pushed>> /\ h.state # "closed"
    BY <1>1 DEF Disconnect, RejectAll, StopMonitor, ClientType, HandlerType, States
  <2>2. CASE UNCHANGED sock
    <3>1. ASSUME NEW s \in Sockets, sock[s].phase # "idle"
          PROVE  sock[s].phase = "closing"
      <4>1. h.ws = s
        BY <2>1, <3>1 DEF ControlInv, InUse
      <4>2. s \notin Live \/ sock' = CloseSocket(s)
        BY <1>1, <4>1, ClientAssumption DEF Disconnect
      <4>3. CASE s \notin Live
        BY <3>1, <4>3 DEF Live, ClientType, SockType
      <4>4. CASE sock' = CloseSocket(s)
        BY <2>2, <4>4 DEF CloseSocket, ClientType, SockType
      <4> QED
        BY <4>2, <4>3, <4>4
    <3> QED
      BY <2>1, <2>2, <3>1 DEF ClientType, ControlInv, InUse
  <2>3. CASE h.ws \in Live /\ sock' = CloseSocket(h.ws)
    <3>1. PICK s \in Sockets : s = h.ws /\ sock[s].phase # "idle"
      BY <2>3 DEF Live
    <3>2. PICK k : k = [sock[s] EXCEPT !.phase = "closing", !.inbox = <<>>,
                                       !.handled = sock[s].handled]
      OBVIOUS
    <3>3. sock[s] \in SockType /\ sock[s].handled \in BOOLEAN
      BY DEF ClientType, SockType
    <3>4. k \in SockType /\ k.phase = "closing"
      <4>1. <<>> \in Seq(WireFrames)
        OBVIOUS
      <4> QED
        BY <3>2, <3>3, <4>1 DEF SockType
    <3>5. sock' = [sock EXCEPT ![s] = k]
      <4>1. k = [sock[s] EXCEPT !.phase = "closing", !.inbox = <<>>]
        BY <3>2, <3>3 DEF SockType
      <4> QED
        BY <2>3, <3>1, <4>1 DEF CloseSocket, ClientType
    <3> QED
      BY <2>1, <3>1, <3>4, <3>5, PhaseSteps
  <2> QED
    BY <1>1, <2>2, <2>3 DEF Disconnect
<1>2. CASE MonitorFires
  <2>1. /\ h.state = "connected" /\ h.ws \in Sockets /\ sock[h.ws].handled
        /\ sock[h.ws].phase \in {"open", "closing"} /\ h.ws # NoSocket
    BY <1>2, ClientAssumption DEF MonitorFires, ControlInv
  <2>2. h' = StopMonitor(h) /\ sock' = CloseSocket(h.ws) /\ UNCHANGED <<seq, pushed>>
    BY <1>2, <2>1 DEF MonitorFires
  <2>3. PICK s \in Sockets : s = h.ws
    BY <2>1
  <2>4. h' \in HandlerType /\ h'.state = "connected" /\ h'.ws = s
    BY <2>1, <2>2, <2>3 DEF StopMonitor, ClientType, HandlerType
  <2>5. PICK k : k = [sock[s] EXCEPT !.phase = "closing", !.inbox = <<>>, !.handled = TRUE]
    OBVIOUS
  <2>6. k \in SockType /\ k.phase = "closing" /\ k.handled
    BY <2>5, ClosedSocket
  <2>7. sock' = [sock EXCEPT ![s] = k]
    <3>1. sock[s] \in SockType /\ sock[s].handled = TRUE
      BY <2>1, <2>3 DEF ClientType, SockType
    <3>2. k = [sock[s] EXCEPT !.phase = "closing", !.inbox = <<>>]
      BY <2>5, <3>1 DEF SockType
    <3> QED
      BY <2>2, <2>3, <3>2 DEF CloseSocket, ClientType
  <2> QED
    BY <2>1, <2>2, <2>3, <2>4, <2>6, <2>7, PhaseSteps
<1> QED
  BY <1>1, <1>2

\* The socket opens, or the auth answer does not come in time.
LEMMA OpeningSteps ==
    ASSUME ClientType, ControlInv, NEW s \in Sockets, SocketOpen(s) \/ AuthTimeout(s)
    PROVE  ClientType' /\ ControlInv'
<1>0. sock[s] \in SockType /\ UNCHANGED <<seq, pushed>> /\ sock[s].phase # "idle"
      /\ h \in HandlerType /\ InUse(s)
  BY DEF SocketOpen, AuthTimeout, ClientType, ControlInv
<1>1. h.state # "connected" /\ h.pending = {} /\ ~h.monitor
      /\ (sock[s].phase = "opening" => h.ws = s)
  BY <1>0 DEF SocketOpen, AuthTimeout, InUse, ControlInv
<1>2. CASE SocketOpen(s)
  <2>1. h' \in HandlerType /\ h'.state = "authenticating" /\ h'.ws = h.ws
        /\ h'.pending = h.pending /\ h'.monitor = h.monitor
    BY <1>0, <1>2 DEF SocketOpen, HandlerType, States
  <2>2. PICK k : k = [sock[s] EXCEPT !.phase = "open", !.peer = "asked",
                                     !.lastSeen = h.lastSeenSeq]
    OBVIOUS
  <2>3. k \in SockType /\ k.phase = "open"
    <3>1. h.lastSeenSeq \in Nat
      BY <1>0 DEF HandlerType
    <3> QED
      BY <1>0, <2>2, <3>1 DEF SockType
  <2>4. sock' = [sock EXCEPT ![s] = k]
    BY <1>2, <2>2 DEF SocketOpen, ClientType
  <2> QED
    BY <1>0, <1>1, <1>2, <2>1, <2>3, <2>4, PhaseSteps DEF SocketOpen
<1>3. CASE AuthTimeout(s)
  <2>1. h' \in HandlerType /\ h'.state = "closed"
        /\ h'.pending = h.pending /\ h'.monitor = h.monitor
    BY <1>0, <1>3 DEF AuthTimeout, HandlerType, States
  <2>2. PICK k : k = [sock[s] EXCEPT !.phase = "closing", !.inbox = <<>>, !.handled = TRUE]
    OBVIOUS
  <2>3. k \in SockType /\ k.phase = "closing" /\ k.handled
    BY <2>2, ClosedSocket
  <2>4. sock' = [sock EXCEPT ![s] = k]
    BY <1>3, <2>2 DEF AuthTimeout, CloseSocket, ClientType
  <2> QED
    BY <1>0, <1>1, <2>1, <2>3, <2>4, PhaseSteps
<1> QED
  BY <1>2, <1>3

\* The close event: no socket is left in use.
LEMMA CloseEventSteps ==
    ASSUME ClientType, ControlInv, NEW s \in Sockets, NEW retryable \in BOOLEAN,
           SocketClose(s, retryable)
    PROVE  ClientType' /\ ControlInv'
<1>0. sock[s] \in SockType /\ UNCHANGED <<seq, pushed>> /\ sock[s].phase # "idle"
      /\ h \in HandlerType /\ InUse(s) /\ h' = Closed(s, retryable)
      /\ sock' = [sock EXCEPT ![s] = Unused]
  BY DEF SocketClose, ClientType, ControlInv
<1>1. /\ sock' \in [Sockets -> SockType]
      /\ \A t \in Sockets : sock'[t].phase = "idle" /\ sock'[t].peer = "none"
  BY <1>0, UnusedIsTyped DEF ClientType, ControlInv
<1>2. ~sock[s].handled => h.pending = {}
  BY <1>0 DEF InUse, ControlInv
<1>3. ASSUME NEW x \in HandlerType
      PROVE  /\ AttemptReconnect(x) \in HandlerType
             /\ AttemptReconnect(x).state # "connected"
             /\ AttemptReconnect(x).pending = x.pending
             /\ AttemptReconnect(x).monitor = x.monitor
  <2>1. PICK y : y = [x EXCEPT !.attempt = x.attempt + 1, !.timers = x.timers + 1]
    OBVIOUS
  <2>2. y \in HandlerType /\ y.pending = x.pending /\ y.monitor = x.monitor
    <3>1. x.attempt + 1 \in Nat /\ x.timers + 1 \in Nat
      BY <1>3 DEF HandlerType
    <3> QED
      BY <1>3, <2>1, <3>1 DEF HandlerType
  <2>3. NextDelay(x) = y
    BY <2>1 DEF NextDelay
  <2>4. CASE Exhausted(x)
    BY <1>3, <2>4 DEF AttemptReconnect, HandlerType, States
  <2>5. CASE ~Exhausted(x)
    <3>1. AttemptReconnect(x) = [y EXCEPT !.state = "reconnecting"]
      BY <2>3, <2>5 DEF AttemptReconnect
    <3> QED
      BY <2>2, <3>1 DEF HandlerType, States
  <2> QED
    BY <2>4, <2>5
<1>4. PICK x : x = [h EXCEPT !.monitor = FALSE]
  OBVIOUS
<1>5. x \in HandlerType /\ x.monitor = FALSE /\ x.pending = h.pending /\ StopMonitor(h) = x
  BY <1>0, <1>4 DEF HandlerType, StopMonitor
<1>6. PICK z : z = [x EXCEPT !.pending = {}]
  OBVIOUS
<1>7. z \in HandlerType /\ z.monitor = FALSE /\ z.pending = {} /\ RejectAll(x) = z
  BY <1>5, <1>6 DEF HandlerType, RejectAll
<1>8. PICK w : w = [x EXCEPT !.ws = NoSocket]
  OBVIOUS
<1>9. PICK y : y = [w EXCEPT !.pending = {}]
  OBVIOUS
<1>10. y \in HandlerType /\ y.monitor = FALSE /\ y.pending = {} /\ RejectAll(w) = y
  <2>1. w \in HandlerType /\ w.monitor = FALSE
    BY <1>5, <1>8 DEF HandlerType
  <2> QED
    BY <1>9, <2>1 DEF HandlerType, RejectAll
<1>11. h' \in HandlerType /\ h'.monitor = FALSE /\ h'.state # "connected" /\ h'.pending = {}
  <2>1. CASE ~sock[s].handled
    <3>1. h' = IF ~retryable THEN [x EXCEPT !.state = "closed"] ELSE AttemptReconnect(z)
      BY <1>0, <1>5, <1>7, <2>1 DEF Closed
    <3>2. CASE ~retryable
      <4>1. h' = [x EXCEPT !.state = "closed"]
        BY <3>1, <3>2
      <4> QED
        BY <1>2, <1>5, <2>1, <4>1 DEF HandlerType, States
    <3>3. CASE retryable
      BY <1>3, <1>7, <3>1, <3>3
    <3> QED
      BY <3>2, <3>3
  <2>2. CASE sock[s].handled
    <3>1. h' = CASE ~retryable -> [y EXCEPT !.state = "closed", !.done = TRUE]
                 [] retryable /\ y.state # "closed" -> AttemptReconnect(y)
                 [] OTHER -> y
      BY <1>0, <1>5, <1>8, <1>10, <2>2 DEF Closed
    <3>2. CASE ~retryable
      <4>1. h' = [y EXCEPT !.state = "closed", !.done = TRUE]
        BY <3>1, <3>2
      <4> QED
        BY <1>10, <4>1 DEF HandlerType, States
    <3>3. CASE retryable /\ y.state # "closed"
      BY <1>3, <1>10, <3>1, <3>3
    <3>4. CASE retryable /\ y.state = "closed"
      BY <1>10, <3>1, <3>4
    <3> QED
      BY <3>2, <3>3, <3>4
  <2> QED
    BY <1>0, <2>1, <2>2 DEF SockType
<1>12. ClientType'
  BY <1>0, <1>1, <1>11 DEF ClientType
<1> QED
  BY <1>1, <1>11, <1>12 DEF ControlInv

\* A message of the socket in use.
LEMMA MessageControl ==
    ASSUME ClientType, ControlInv, NEW s \in Sockets, SocketMessage(s),
           NEW f \in WireFrames, f = Head(sock[s].inbox)
    PROVE  ClientType' /\ ControlInv'
<1>0. sock[s] \in SockType /\ sock[s].phase = "open" /\ h \in HandlerType /\ InUse(s)
      /\ seq' = seq /\ sock[s].inbox # <<>> /\ HandleFrame(s, f)
  BY DEF SocketMessage, ClientType, ControlInv
<1>1. Tail(sock[s].inbox) \in Seq(WireFrames)
  BY <1>0, HeadAndTail DEF SockType
<1>2. CASE ~sock[s].handled
  <2>1. /\ h.state = "authenticating" /\ h.ws = s /\ h.pending = {} /\ ~h.monitor
    BY <1>0, <1>2 DEF InUse, ControlInv
  <2>a. PICK v \in BOOLEAN : v = (f.type \in {"authenticated", "auth_error"})
    <3>1. (f.type \in {"authenticated", "auth_error"}) \in BOOLEAN
      OBVIOUS
    <3> QED
      BY <3>1, Zenon
  <2>2. PICK k : k = [sock[s] EXCEPT !.inbox = Tail(sock[s].inbox), !.handled = v]
    OBVIOUS
  <2>3. k \in SockType /\ k.phase = "open" /\ k.handled = v
    BY <1>0, <1>1, <2>2 DEF SockType
  <2>4. sock' = [sock EXCEPT ![s] = k] /\ UNCHANGED <<seq, pushed>>
    BY <1>0, <1>2, <2>2, <2>a DEF HandleFrame, ClientType
  <2>5. CASE f.type = "authenticated"
    <3>1. h' = [StartMonitor(h) EXCEPT !.state = "connected", !.attempt = 0]
      BY <1>0, <1>2, <2>5 DEF HandleFrame
    <3>2. h' \in HandlerType /\ h'.state = "connected" /\ h'.ws = h.ws
      BY <1>0, <3>1 DEF StartMonitor, HandlerType, States
    <3> QED
      BY <1>0, <2>1, <2>3, <2>4, <2>5, <2>a, <3>2, PhaseSteps
  <2>6. CASE f.type = "auth_error"
    <3>1. h' = [h EXCEPT !.state = "closed"]
      BY <1>0, <1>2, <2>6 DEF HandleFrame
    <3>2. h' \in HandlerType /\ h'.state = "closed" /\ h'.pending = {} /\ ~h'.monitor
      BY <1>0, <2>1, <3>1 DEF HandlerType, States
    <3> QED
      BY <1>0, <2>3, <2>4, <2>6, <2>a, <3>2, PhaseSteps
  <2>7. CASE f.type \notin {"authenticated", "auth_error"}
    <3>1. h' = h
      BY <1>0, <1>2, <2>7 DEF HandleFrame
    <3> QED
      BY <1>0, <2>1, <2>3, <2>4, <2>7, <2>a, <3>1, PhaseSteps
  <2> QED
    BY <2>5, <2>6, <2>7
<1>3. CASE sock[s].handled
  <2>1. PICK k : k = [sock[s] EXCEPT !.inbox = Tail(sock[s].inbox)]
    OBVIOUS
  <2>2. k \in SockType /\ k.phase = "open" /\ k.handled = sock[s].handled
    BY <1>0, <1>1, <2>1 DEF SockType
  <2>3. sock' = [sock EXCEPT ![s] = k]
    BY <1>0, <1>3, <2>1 DEF HandleFrame, ClientType
  <2>4. h' = CASE f.type = "event" -> [h EXCEPT !.lastSeenSeq = f.arg]
               [] f.type = "response" -> Resolve(h, f.arg)
               [] OTHER -> h
    BY <1>0, <1>3 DEF HandleFrame
  <2>5. /\ h' \in HandlerType /\ h'.state = h.state /\ h'.ws = h.ws
        /\ h'.monitor = h.monitor /\ h'.pending \subseteq h.pending
    <3>1. CASE f.type = "event"
      <4>1. h' = [h EXCEPT !.lastSeenSeq = f.arg] /\ f.arg \in Nat
        BY <2>4, <3>1 DEF WireFrames
      <4> QED
        BY <1>0, <4>1 DEF HandlerType
    <3>2. CASE f.type = "response"
      <4>1. h' = [h EXCEPT !.pending = h.pending \ {f.arg}]
        BY <2>4, <3>2 DEF Resolve
      <4> QED
        BY <1>0, <4>1 DEF HandlerType
    <3>3. CASE f.type \notin {"event", "response"}
      BY <1>0, <2>4, <3>3
    <3> QED
      BY <3>1, <3>2, <3>3
  <2>6. pushed' \in Seq(Nat)
    <3>1. pushed' = pushed \/ (f.type = "event" /\ pushed' = Append(pushed, f.arg))
      BY <1>0, <1>3 DEF HandleFrame, Pushed
    <3>2. pushed \in Seq(Nat) /\ (f.type = "event" => f.arg \in Nat)
      BY DEF ClientType, WireFrames
    <3> QED
      BY <3>1, <3>2
  <2>7. sock' \in [Sockets -> SockType] /\ sock'[s] = k
        /\ \A t \in Sockets : t # s => sock'[t] = sock[t]
    BY <2>2, <2>3 DEF ClientType
  <2>8. ClientType'
    BY <1>0, <2>5, <2>6, <2>7 DEF ClientType
  <2>9. h'.pending # {} => h.state = "connected"
    BY <2>5 DEF ControlInv
  <2> QED
    BY <1>0, <2>2, <2>5, <2>7, <2>8, <2>9, ControlKept
<1> QED
  BY <1>0, <1>2, <1>3 DEF SockType

\* Requests, their timers and their answers; events and answers of the signet.
LEMMA RequestControl ==
    ASSUME ClientType, ControlInv, NEW r \in Requests, ApiCall(r) \/ RequestTimeout(r)
    PROVE  ClientType' /\ ControlInv'
<1>0. h \in HandlerType /\ UNCHANGED <<sock, seq, pushed>>
  BY DEF ApiCall, RequestTimeout, ClientType
<1>1. /\ h' \in HandlerType /\ h'.state = h.state /\ h'.ws = h.ws
      /\ h'.monitor = h.monitor
      /\ h'.pending \subseteq h.pending \/ h.state = "connected"
  <2>1. CASE ApiCall(r)
    <3>1. h' = [h EXCEPT !.pending = h.pending \cup {r}] /\ h.state = "connected"
      BY <2>1 DEF ApiCall, SendRequest, Track
    <3> QED
      BY <1>0, <3>1 DEF HandlerType
  <2>2. CASE RequestTimeout(r)
    <3>1. h' = [h EXCEPT !.pending = h.pending \ {r}]
      BY <2>2 DEF RequestTimeout, Resolve
    <3> QED
      BY <1>0, <3>1 DEF HandlerType
  <2> QED
    BY <2>1, <2>2
<1>2. ClientType'
  BY <1>0, <1>1 DEF ClientType
<1>3. h'.pending # {} => h.state = "connected"
  BY <1>1 DEF ControlInv
<1> QED
  BY <1>0, <1>1, <1>2, <1>3, ControlKept

\* A step of the signet on one connection changes nothing but its peer's side.
LEMMA PeerControl ==
    ASSUME ClientType, ControlInv, NEW s \in Sockets,
           PeerRegisters(s) \/ PeerRefuses(s) \/ PeerGreets(s)
              \/ \E r \in Requests : PeerAnswers(s, r)
    PROVE  /\ ClientType' /\ ControlInv' /\ UNCHANGED <<h, pushed>>
           /\ sock[s].phase \in {"open", "closing"}
           /\ sock'[s].phase = sock[s].phase /\ sock'[s].handled = sock[s].handled
           /\ \A t \in Sockets : t # s => sock'[t] = sock[t]
<1>0. /\ sock[s] \in SockType /\ UNCHANGED <<h, pushed>> /\ sock[s].peer # "none"
      /\ seq \in Nat /\ sock[s].lastSeen \in Nat /\ sock[s].inbox \in Seq(WireFrames)
      /\ sock[s].replay \in Seq(Nat)
  BY DEF PeerRegisters, PeerRefuses, PeerGreets, PeerAnswers, ClientType, SockType
<1>1. sock[s].phase \in {"open", "closing"}
  BY <1>0 DEF ControlInv, InUse, SockType
<1>2. ASSUME NEW k \in SockType, sock' = [sock EXCEPT ![s] = k], seq' \in Nat,
             k.phase = sock[s].phase, k.handled = sock[s].handled
      PROVE  /\ ClientType' /\ ControlInv'
             /\ sock'[s].phase = sock[s].phase /\ sock'[s].handled = sock[s].handled
             /\ \A t \in Sockets : t # s => sock'[t] = sock[t]
  <2>1. sock' \in [Sockets -> SockType] /\ sock'[s] = k
        /\ \A t \in Sockets : t # s => sock'[t] = sock[t]
    BY <1>2 DEF ClientType
  <2>2. ClientType'
    BY <1>0, <1>2, <2>1 DEF ClientType
  <2>3. h.pending # {} => h.state = "connected"
    BY DEF ControlInv
  <2> QED
    BY <1>0, <1>1, <1>2, <2>1, <2>2, <2>3, ControlKept
<1>3. \A n \in Nat : Event(n) \in WireFrames
  BY DEF Event, WireFrames
<1>4. Authenticated \in WireFrames /\ AuthErrorFrame \in WireFrames
      /\ \A r \in Requests : Response(r) \in WireFrames
  BY DEF Authenticated, AuthErrorFrame, Response, WireFrames
<1>5. CASE PeerRegisters(s)
  <2>1. PICK q, v : /\ sock' = [sock EXCEPT ![s].peer = "registered", ![s].recovery = v,
                                           ![s].replay = q]
                    /\ v \in BOOLEAN
                    /\ q = <<>> \/ q = [i \in 1 .. (seq - sock[s].lastSeen) |->
                                           sock[s].lastSeen + i]
    BY <1>5 DEF PeerRegisters
  <2>2. q \in Seq(Nat)
    <3>1. CASE q = <<>>
      BY <3>1
    <3>2. CASE q = [i \in 1 .. (seq - sock[s].lastSeen) |-> sock[s].lastSeen + i]
      <4>1. CASE sock[s].lastSeen <= seq
        <5>1. seq - sock[s].lastSeen \in Nat
          BY <1>0, <4>1
        <5>2. \A i \in 1 .. (seq - sock[s].lastSeen) : sock[s].lastSeen + i \in Nat
          BY <1>0
        <5> QED
          BY <3>2, <5>1, <5>2
      <4>2. CASE ~(sock[s].lastSeen <= seq)
        <5>1. 1 .. (seq - sock[s].lastSeen) = {}
          BY <1>0, <4>2
        <5>2. q = <<>>
          BY <3>2, <5>1
        <5> QED
          BY <5>2
      <4> QED
        BY <4>1, <4>2
    <3> QED
      BY <2>1, <3>1, <3>2
  <2>3. PICK k : k = [sock[s] EXCEPT !.peer = "registered", !.recovery = v, !.replay = q]
    OBVIOUS
  <2>4. k \in SockType /\ k.phase = sock[s].phase /\ k.handled = sock[s].handled
    BY <1>0, <2>1, <2>2, <2>3 DEF SockType
  <2>5. sock' = [sock EXCEPT ![s] = k] /\ seq' = seq
    BY <1>5, <2>1, <2>3 DEF PeerRegisters, ClientType
  <2> QED
    BY <1>0, <1>1, <1>2, <2>4, <2>5
<1>6. ASSUME NEW p \in {"refused", "active"}, NEW q \in Seq(WireFrames), seq' \in Nat,
             sock' = [sock EXCEPT ![s].peer = p, ![s].inbox = q]
      PROVE  /\ ClientType' /\ ControlInv'
             /\ sock'[s].phase = sock[s].phase /\ sock'[s].handled = sock[s].handled
             /\ \A t \in Sockets : t # s => sock'[t] = sock[t]
  <2>1. PICK k : k = [sock[s] EXCEPT !.peer = p, !.inbox = q]
    OBVIOUS
  <2>2. k \in SockType /\ k.phase = sock[s].phase /\ k.handled = sock[s].handled
    BY <1>0, <1>6, <2>1 DEF SockType
  <2>3. sock' = [sock EXCEPT ![s] = k]
    BY <1>6, <2>1 DEF ClientType
  <2> QED
    BY <1>2, <1>6, <2>2, <2>3
<1>7. CASE PeerRefuses(s)
  <2>1. sock' = [sock EXCEPT ![s].peer = "refused",
                             ![s].inbox = Append(sock[s].inbox, AuthErrorFrame)] /\ seq' = seq
    BY <1>7 DEF PeerRefuses, ClientType
  <2>2. Append(sock[s].inbox, AuthErrorFrame) \in Seq(WireFrames)
    BY <1>0, <1>4
  <2> QED
    BY <1>0, <1>1, <1>6, <2>1, <2>2
<1>8. CASE PeerGreets(s)
  <2>1. seq' = seq \/ seq' = seq + 1
    BY <1>8 DEF PeerGreets
  <2>2. PICK q : /\ sock' = [sock EXCEPT ![s].peer = "active", ![s].inbox = q]
                 /\ \/ q = sock[s].inbox \o <<Authenticated, Event(seq + 1)>>
                    \/ q = sock[s].inbox \o <<Authenticated>>
                             \o [i \in DOMAIN sock[s].replay |-> Event(sock[s].replay[i])]
    BY <1>8 DEF PeerGreets, ClientType
  <2>3. q \in Seq(WireFrames)
    <3>1. <<Authenticated, Event(seq + 1)>> \in Seq(WireFrames)
      BY <1>0, <1>3, <1>4
    <3>2. <<Authenticated>> \in Seq(WireFrames)
      BY <1>4
    <3>3. [i \in DOMAIN sock[s].replay |-> Event(sock[s].replay[i])] \in Seq(WireFrames)
      BY <1>0, <1>3, SMTT(30)
    <3>4. PICK e \in Seq(WireFrames) :
             e = [i \in DOMAIN sock[s].replay |-> Event(sock[s].replay[i])]
      BY <3>3
    <3>a. sock[s].inbox \o <<Authenticated>> \in Seq(WireFrames)
      BY <1>0, <3>2
    <3>5. PICK g \in Seq(WireFrames) : g = sock[s].inbox \o <<Authenticated>>
      BY <3>a, Zenon
    <3>6. g \o e \in Seq(WireFrames)
      OBVIOUS
    <3>7. sock[s].inbox \o <<Authenticated, Event(seq + 1)>> \in Seq(WireFrames)
      BY <1>0, <3>1
    <3> QED
      BY <2>2, <3>4, <3>5, <3>6, <3>7
  <2>4. seq' \in Nat
    BY <1>0, <2>1
  <2> QED
    BY <1>0, <1>1, <1>6, <2>2, <2>3, <2>4
<1>9. ASSUME NEW r \in Requests, PeerAnswers(s, r)
      PROVE  /\ ClientType' /\ ControlInv'
             /\ sock'[s].phase = sock[s].phase /\ sock'[s].handled = sock[s].handled
             /\ \A t \in Sockets : t # s => sock'[t] = sock[t]
  <2>1. PICK k : k = [sock[s] EXCEPT !.inbox = Append(sock[s].inbox, Response(r))]
    OBVIOUS
  <2>2. Append(sock[s].inbox, Response(r)) \in Seq(WireFrames)
    BY <1>0, <1>4
  <2>3. k \in SockType /\ k.phase = sock[s].phase /\ k.handled = sock[s].handled
    BY <1>0, <2>1, <2>2 DEF SockType
  <2>4. sock' = [sock EXCEPT ![s] = k] /\ seq' = seq
    BY <1>9, <2>1 DEF PeerAnswers, ClientType
  <2> QED
    BY <1>0, <1>2, <2>3, <2>4
<1> QED
  BY <1>0, <1>1, <1>5, <1>7, <1>8, <1>9

\* An event or a heartbeat.
LEMMA EventControl ==
    ASSUME ClientType, ControlInv, PeerEvent
    PROVE  /\ ClientType' /\ ControlInv' /\ seq' = seq + 1
           /\ UNCHANGED <<h, pushed, excused, early>>
           /\ \A s \in Sockets :
                \/ sock'[s] = sock[s]
                   /\ ~(sock[s].phase = "open" /\ sock[s].peer \in {"registered", "active"})
                \/ /\ sock[s].phase = "open"
                   /\ sock'[s] = [sock[s] EXCEPT !.inbox = Append(sock[s].inbox, Event(seq + 1))]
<1>0. /\ seq \in Nat /\ seq' = seq + 1 /\ UNCHANGED <<h, pushed, excused, early>>
      /\ sock' = [s \in Sockets |->
                  IF sock[s].phase = "open"
                     /\ sock[s].peer \in {"registered", "active"}
                  THEN [sock[s] EXCEPT !.inbox = Append(sock[s].inbox, Event(seq + 1))]
                  ELSE sock[s]]
  BY DEF PeerEvent, ClientType
<1>1. ASSUME NEW s \in Sockets
      PROVE  /\ sock'[s] \in SockType /\ sock'[s].phase = sock[s].phase
             /\ sock'[s].handled = sock[s].handled
             /\ sock[s].phase # "open" => sock'[s] = sock[s]
  <2>1. sock[s] \in SockType /\ sock[s].inbox \in Seq(WireFrames)
    BY DEF ClientType, SockType
  <2>2. Event(seq + 1) \in WireFrames
    BY <1>0 DEF Event, WireFrames
  <2>3. Append(sock[s].inbox, Event(seq + 1)) \in Seq(WireFrames)
    BY <2>1, <2>2
  <2>4. CASE sock'[s] = sock[s]
    BY <2>1, <2>4
  <2>5. CASE sock[s].phase = "open"
             /\ sock'[s] = [sock[s] EXCEPT !.inbox = Append(sock[s].inbox, Event(seq + 1))]
    BY <2>1, <2>3, <2>5 DEF SockType
  <2> QED
    BY <1>0, <2>4, <2>5
<1>2. ClientType'
  BY <1>0, <1>1 DEF ClientType
<1>3. h.pending # {} => h.state = "connected"
  BY DEF ControlInv
<1>4. ControlInv'
  BY <1>0, <1>1, <1>2, <1>3, ControlKept
<1> QED
  BY <1>0, <1>2, <1>4

(***************************************************************************)
(* Then the stream.  The frames after lastSeenSeq are on their way to the  *)
(* handler in ascending order, or in the replay that the signet chose, or  *)
(* excused, or came too early; so the next frame that is pushed leaves no  *)
(* gap that is not explained.                                              *)
(***************************************************************************)
\* Every frame after L up to m is in E, in "more" or among the frames q.
Covered(q, more, L, m, E) ==
  \A x \in 1 .. m : x > L => \/ x \in E \cup more
                             \/ \E i \in 1 .. Len(q) : q[i].type = "event" /\ q[i].arg = x

\* The events of q after its first "a" frames ascend, from after L and up to m.
InOrder(q, a, L, m) ==
  /\ \A i \in 1 .. Len(q) : i > a /\ q[i].type = "event" => q[i].arg > L /\ q[i].arg <= m
  /\ \A i, j \in 1 .. Len(q) :
        i > a /\ i < j /\ q[i].type = "event" /\ q[j].type = "event" => q[i].arg < q[j].arg

\* The signet sent its auth answer: frame "a" of the inbox, or a frame handled
\* already.
Greeted(k, a, L, m, E) ==
  /\ a = 0 <=> k.handled
  /\ a > 0 => k.inbox[a].type = "authenticated"
  /\ \A i \in 1 .. Len(k.inbox) : i # a => k.inbox[i].type \in {"event", "response"}
  /\ InOrder(k.inbox, a, L, m)
  /\ Covered(k.inbox, {}, L, m, E)

ReplayFits(r, L, m) ==
  /\ \A i \in 1 .. Len(r) : r[i] > L /\ r[i] <= m
  /\ \A i, j \in 1 .. Len(r) : i < j => r[i] < r[j]

\* The signet chose what to replay and has not answered.
Chosen(k, L, m, E) ==
  /\ ~k.handled
  /\ \A i \in 1 .. Len(k.inbox) : k.inbox[i].type = "event"
  /\ k.recovery => k.replay = <<>>
  /\ ReplayFits(k.replay, L, m)
  /\ Covered(k.inbox, {k.replay[i] : i \in 1 .. Len(k.replay)}, L, m, E)

StreamOK(k, L, m, E) ==
  k.phase = "open" =>
    \/ k.peer = "asked" /\ k.inbox = <<>> /\ ~k.handled /\ k.lastSeen = L
    \/ k.peer = "refused" /\ \A i \in 1 .. Len(k.inbox) : k.inbox[i].type = "auth_error"
    \/ k.peer = "registered" /\ Chosen(k, L, m, E)
    \/ k.peer = "active" /\ \E a \in 0 .. Len(k.inbox) : Greeted(k, a, L, m, E)

StreamInv ==
  /\ \A s \in Sockets : StreamOK(sock[s], h.lastSeenSeq, seq, excused \cup early)
  /\ h.lastSeenSeq <= seq
  /\ StreamGapsAreExplained
  /\ ~h.done /\ pushed # <<>> => pushed[Len(pushed)] = h.lastSeenSeq

\* An event carries its number.
LEMMA EventNumbers ==
    ASSUME NEW q \in Seq(WireFrames), NEW i \in 1 .. Len(q), q[i].type = "event"
    PROVE  q[i].arg \in Nat
<1>1. q[i] \in WireFrames
  OBVIOUS
<1> QED
  BY <1>1 DEF WireFrames

\* A sequence with one more element.
LEMMA AppendParts ==
    ASSUME NEW S, NEW q \in Seq(S), NEW e \in S
    PROVE  /\ Append(q, e) \in Seq(S) /\ Len(q) \in Nat /\ Len(Append(q, e)) = Len(q) + 1
           /\ Append(q, e)[Len(q) + 1] = e
           /\ \A i \in 1 .. Len(q) : Append(q, e)[i] = q[i] /\ i \in 1 .. Len(q) + 1
           /\ \A i \in 1 .. Len(q) + 1 : i \in 1 .. Len(q) \/ i = Len(q) + 1
OBVIOUS

\* More excused or early frames explain no less.
LEMMA ExcusesOnlyHelp ==
    ASSUME NEW k, NEW L, NEW m, NEW E1, NEW E2, E1 \subseteq E2, StreamOK(k, L, m, E1)
    PROVE  StreamOK(k, L, m, E2)
<1>1. ASSUME NEW q, NEW more, Covered(q, more, L, m, E1)
      PROVE  Covered(q, more, L, m, E2)
  BY <1>1 DEF Covered
<1>2. ASSUME NEW a, Greeted(k, a, L, m, E1)
      PROVE  Greeted(k, a, L, m, E2)
  BY <1>1, <1>2 DEF Greeted
<1>3. Chosen(k, L, m, E1) => Chosen(k, L, m, E2)
  BY <1>1 DEF Chosen
<1> QED
  BY <1>2, <1>3 DEF StreamOK

\* The first frame is taken from the inbox and is explained by E2.
LEMMA TailIsCovered ==
    ASSUME NEW q \in Seq(WireFrames), q # <<>>, NEW more, NEW L \in Nat, NEW m \in Nat,
           NEW L2 \in Nat, L <= L2, NEW E1, NEW E2, E1 \subseteq E2,
           Covered(q, more, L, m, E1),
           q[1].type = "event" /\ q[1].arg > L2 => q[1].arg \in E2
    PROVE  Covered(Tail(q), more, L2, m, E2)
<1> SUFFICES ASSUME NEW x \in 1 .. m, x > L2, x \notin E2 \cup more
             PROVE  \E i \in 1 .. Len(Tail(q)) : Tail(q)[i].type = "event" /\ Tail(q)[i].arg = x
  BY DEF Covered
<1>1. x > L /\ x \notin E1 \cup more
  OBVIOUS
<1>2. PICK i \in 1 .. Len(q) : q[i].type = "event" /\ q[i].arg = x
  BY <1>1 DEF Covered
<1>3. i # 1
  BY <1>2
<1>4. Len(Tail(q)) = Len(q) - 1 /\ Len(q) \in Nat
      /\ \A n \in 1..Len(Tail(q)) : Tail(q)[n] = q[n + 1]
  BY HeadAndTail
<1>5. PICK n \in 1 .. Len(Tail(q)) : n + 1 = i
  <2>1. i - 1 \in 1 .. Len(Tail(q)) /\ (i - 1) + 1 = i
    BY <1>3, <1>4
  <2> QED
    BY <2>1
<1> QED
  BY <1>2, <1>4, <1>5

\* The order of the frames without the first.
LEMMA TailInOrder ==
    ASSUME NEW q \in Seq(WireFrames), q # <<>>, NEW L \in Nat, NEW m \in Nat,
           NEW a \in Nat, NEW a2 \in Nat, a <= a2 + 1, InOrder(q, a, L, m)
    PROVE  InOrder(Tail(q), a2, L, m)
<1>1. Len(Tail(q)) = Len(q) - 1 /\ Len(q) \in Nat
      /\ \A n \in 1..Len(Tail(q)) : n + 1 \in 1..Len(q) /\ Tail(q)[n] = q[n + 1]
  BY HeadAndTail
<1>2. ASSUME NEW i \in 1 .. Len(Tail(q)), i > a2, Tail(q)[i].type = "event"
      PROVE  Tail(q)[i].arg > L /\ Tail(q)[i].arg <= m
  BY <1>1, <1>2 DEF InOrder
<1>3. ASSUME NEW i \in 1 .. Len(Tail(q)), NEW j \in 1 .. Len(Tail(q)), i > a2, i < j,
             Tail(q)[i].type = "event", Tail(q)[j].type = "event"
      PROVE  Tail(q)[i].arg < Tail(q)[j].arg
  <2>1. i + 1 \in 1 .. Len(q) /\ j + 1 \in 1 .. Len(q) /\ i + 1 > a /\ i + 1 < j + 1
    BY <1>1, <1>3
  <2> QED
    BY <1>1, <1>3, <2>1 DEF InOrder
<1> QED
  BY <1>2, <1>3 DEF InOrder

\* A frame that the handler drops before the auth answer.
LEMMA EarlyFrame ==
    ASSUME NEW k \in SockType, NEW k2 \in SockType, NEW L \in Nat, NEW m \in Nat, NEW E1,
           StreamOK(k, L, m, E1), k.phase = "open", k.inbox # <<>>, ~k.handled,
           NEW f, f = Head(k.inbox), f.type \notin {"authenticated", "auth_error"},
           k2.phase = "open", k2.peer = k.peer, k2.replay = k.replay,
           k2.recovery = k.recovery, k2.inbox = Tail(k.inbox), ~k2.handled,
           NEW E2, E1 \subseteq E2, f.type = "event" => f.arg \in E2
    PROVE  StreamOK(k2, L, m, E2)
<1>1. /\ k.inbox \in Seq(WireFrames) /\ f = k.inbox[1] /\ Len(k.inbox) \in Nat
      /\ 1 \in 1 .. Len(k.inbox) /\ Len(Tail(k.inbox)) = Len(k.inbox) - 1
      /\ \A n \in 1..Len(Tail(k.inbox)) : n + 1 \in 1..Len(k.inbox)
                                           /\ Tail(k.inbox)[n] = k.inbox[n + 1]
  BY HeadAndTail DEF SockType
<1>2. CASE k.peer = "asked"
  BY <1>2 DEF StreamOK
<1>3. CASE k.peer = "refused"
  BY <1>1, <1>3 DEF StreamOK
<1>4. CASE k.peer = "registered"
  <2>1. Chosen(k, L, m, E1)
    BY <1>4 DEF StreamOK
  <2>2. Covered(k2.inbox, {k.replay[i] : i \in 1 .. Len(k.replay)}, L, m, E2)
    BY <1>1, <2>1, TailIsCovered DEF Chosen
  <2>3. \A i \in 1 .. Len(k2.inbox) : k2.inbox[i].type = "event"
    BY <1>1, <2>1 DEF Chosen
  <2>4. Chosen(k2, L, m, E2)
    BY <2>1, <2>2, <2>3 DEF Chosen
  <2> QED
    BY <1>4, <2>4 DEF StreamOK
<1>5. CASE k.peer = "active"
  <2>1. PICK a \in 0 .. Len(k.inbox) : Greeted(k, a, L, m, E1)
    BY <1>5 DEF StreamOK
  <2>2. a # 0 /\ a # 1
    BY <1>1, <2>1 DEF Greeted
  <2>3. PICK a2 \in 0 .. Len(k2.inbox) : a = a2 + 1
    <3>1. a - 1 \in 0 .. Len(k2.inbox) /\ a = (a - 1) + 1
      BY <1>1, <2>2
    <3> QED
      BY <3>1
  <2>4. InOrder(k2.inbox, a2, L, m)
    BY <1>1, <2>1, <2>3, TailInOrder DEF Greeted
  <2>5. Covered(k2.inbox, {}, L, m, E2)
    BY <1>1, <2>1, TailIsCovered DEF Greeted
  <2>6. a2 > 0 /\ k2.inbox[a2].type = "authenticated"
        /\ \A i \in 1 .. Len(k2.inbox) : i # a2 => k2.inbox[i].type \in {"event", "response"}
    BY <1>1, <2>1, <2>2, <2>3, SMTT(30) DEF Greeted
  <2>7. (a2 = 0 <=> k2.handled) /\ (a2 > 0 => k2.inbox[a2].type = "authenticated")
    BY <2>6
  <2>8. Greeted(k2, a2, L, m, E2)
    BY <2>4, <2>5, <2>6, <2>7, Zenon DEF Greeted
  <2> QED
    BY <1>5, <2>3, <2>8 DEF StreamOK
<1> QED
  BY <1>2, <1>3, <1>4, <1>5 DEF StreamOK

\* The auth answer.
LEMMA AnswerFrame ==
    ASSUME NEW k \in SockType, NEW k2 \in SockType, NEW L \in Nat, NEW m \in Nat, NEW E,
           StreamOK(k, L, m, E), k.phase = "open", k.inbox # <<>>, ~k.handled,
           NEW f, f = Head(k.inbox), f.type \in {"authenticated", "auth_error"},
           k2.phase = "open", k2.peer = k.peer, k2.inbox = Tail(k.inbox), k2.handled
    PROVE  StreamOK(k2, L, m, E)
<1>1. /\ k.inbox \in Seq(WireFrames) /\ f = k.inbox[1] /\ Len(k.inbox) \in Nat
      /\ 1 \in 1 .. Len(k.inbox) /\ Len(Tail(k.inbox)) = Len(k.inbox) - 1
      /\ \A n \in 1..Len(Tail(k.inbox)) : n + 1 \in 1..Len(k.inbox)
                                           /\ Tail(k.inbox)[n] = k.inbox[n + 1]
  BY HeadAndTail DEF SockType
<1>2. CASE k.peer = "asked"
  BY <1>2 DEF StreamOK
<1>3. CASE k.peer = "refused"
  BY <1>1, <1>3 DEF StreamOK
<1>4. CASE k.peer = "registered"
  BY <1>1, <1>4 DEF StreamOK, Chosen
<1>5. CASE k.peer = "active"
  <2>1. PICK a \in 0 .. Len(k.inbox) : Greeted(k, a, L, m, E)
    BY <1>5 DEF StreamOK
  <2>2. a = 1
    BY <1>1, <2>1 DEF Greeted
  <2>3. InOrder(k2.inbox, 0, L, m)
    BY <1>1, <2>1, <2>2, TailInOrder DEF Greeted
  <2>4. Covered(k2.inbox, {}, L, m, E)
    BY <1>1, <2>1, TailIsCovered DEF Greeted
  <2>5. \A i \in 1 .. Len(k2.inbox) : k2.inbox[i].type \in {"event", "response"}
    BY <1>1, <2>1, <2>2 DEF Greeted
  <2>6. Greeted(k2, 0, L, m, E)
    <3>1. (0 = 0 <=> k2.handled) /\ ~(0 > 0)
      OBVIOUS
    <3> QED
      BY <2>3, <2>4, <2>5, <3>1 DEF Greeted
  <2>7. 0 \in 0 .. Len(k2.inbox)
    BY <1>1
  <2> QED
    BY <1>5, <2>6, <2>7 DEF StreamOK
<1> QED
  BY <1>2, <1>3, <1>4, <1>5 DEF StreamOK

\* A frame of an authenticated connection: an event follows lastSeenSeq, and the
\* numbers between them are explained.
LEMMA StreamFrame ==
    ASSUME NEW k \in SockType, NEW k2 \in SockType, NEW L \in Nat, NEW m \in Nat, NEW E,
           StreamOK(k, L, m, E), k.phase = "open", k.inbox # <<>>, k.handled,
           NEW f, f = Head(k.inbox),
           k2.phase = "open", k2.peer = k.peer, k2.inbox = Tail(k.inbox), k2.handled
    PROVE  /\ f.type # "event" => StreamOK(k2, L, m, E)
           /\ f.type = "event" =>
                /\ f.arg \in Nat /\ f.arg > L /\ f.arg <= m
                /\ (L + 1 .. f.arg - 1) \subseteq E
                /\ StreamOK(k2, f.arg, m, E)
<1>1. /\ k.inbox \in Seq(WireFrames) /\ f = k.inbox[1] /\ Len(k.inbox) \in Nat
      /\ 1 \in 1 .. Len(k.inbox) /\ Len(Tail(k.inbox)) = Len(k.inbox) - 1
      /\ \A n \in 1..Len(Tail(k.inbox)) : n + 1 \in 1..Len(k.inbox)
                                           /\ Tail(k.inbox)[n] = k.inbox[n + 1]
  BY HeadAndTail DEF SockType
<1>2. k.peer = "refused" \/ k.peer = "active"
  BY DEF StreamOK, Chosen
<1>3. CASE k.peer = "refused"
  BY <1>1, <1>3 DEF StreamOK
<1>4. CASE k.peer = "active"
  <2>1. Greeted(k, 0, L, m, E)
    BY <1>4 DEF StreamOK, Greeted
  <2>2. InOrder(k2.inbox, 0, L, m)
    BY <1>1, <2>1, TailInOrder DEF Greeted
  <2>3. /\ \A i \in 1 .. Len(k2.inbox) : k2.inbox[i].type \in {"event", "response"}
        /\ 0 \in 0 .. Len(k2.inbox)
    BY <1>1, <2>1 DEF Greeted
  <2>4. CASE f.type # "event"
    <3>1. Covered(k2.inbox, {}, L, m, E)
      BY <1>1, <2>1, <2>4, TailIsCovered DEF Greeted
    <3>2. Greeted(k2, 0, L, m, E)
      BY <2>2, <2>3, <3>1 DEF Greeted
    <3> QED
      BY <1>4, <2>3, <2>4, <3>2 DEF StreamOK
  <2>5. CASE f.type = "event"
    <3>1. f.arg \in Nat /\ f.arg > L /\ f.arg <= m
      BY <1>1, <2>1, <2>5, EventNumbers DEF Greeted, InOrder
    <3>2. \A i \in 1 .. Len(k.inbox) : i # 1 /\ k.inbox[i].type = "event" => k.inbox[i].arg > f.arg
      BY <1>1, <2>1, <2>5, <3>1, EventNumbers DEF Greeted, InOrder
    <3>3. ASSUME NEW x \in L + 1 .. f.arg - 1
          PROVE  x \in E
      <4>1. x \in 1 .. m /\ x > L /\ x < f.arg
        BY <3>1
      <4>2. CASE \E i \in 1 .. Len(k.inbox) : k.inbox[i].type = "event" /\ k.inbox[i].arg = x
        <5>1. PICK i \in 1 .. Len(k.inbox) : k.inbox[i].type = "event" /\ k.inbox[i].arg = x
          BY <4>2
        <5>2. i = 1
          BY <3>1, <3>2, <4>1, <5>1
        <5> QED
          BY <1>1, <4>1, <5>1, <5>2, <3>1
      <4> QED
        BY <2>1, <4>1, <4>2 DEF Greeted, Covered
    <3>4. Covered(k2.inbox, {}, f.arg, m, E)
      BY <1>1, <2>1, <3>1, TailIsCovered DEF Greeted
    <3>5. InOrder(k2.inbox, 0, f.arg, m)
      <4>1. \A i \in 1 .. Len(k2.inbox) : k2.inbox[i].type = "event" => k2.inbox[i].arg > f.arg
        BY <1>1, <3>2
      <4> QED
        BY <2>2, <4>1 DEF InOrder
    <3>6. Greeted(k2, 0, f.arg, m, E)
      BY <2>3, <3>4, <3>5 DEF Greeted
    <3>7. StreamOK(k2, f.arg, m, E)
      BY <1>4, <2>3, <3>6 DEF StreamOK
    <3> QED
      BY <2>5, <3>1, <3>3, <3>7
  <2> QED
    BY <2>4, <2>5
<1> QED
  BY <1>2, <1>3, <1>4

\* A numbered frame is sent to a registered connection.
LEMMA EventIsSent ==
    ASSUME NEW k \in SockType, NEW k2 \in SockType, NEW L \in Nat, NEW m \in Nat, L <= m,
           NEW E, StreamOK(k, L, m, E), k.phase = "open", k.peer \in {"registered", "active"},
           k2.phase = "open", k2.peer = k.peer, k2.replay = k.replay,
           k2.recovery = k.recovery, k2.handled = k.handled,
           k2.inbox = Append(k.inbox, Event(m + 1))
    PROVE  StreamOK(k2, L, m + 1, E)
<1>1. k.inbox \in Seq(WireFrames) /\ Event(m + 1) \in WireFrames
      /\ Event(m + 1).type = "event" /\ Event(m + 1).arg = m + 1
  BY DEF SockType, WireFrames, Event
<1>2. PICK q \in Seq(WireFrames), e \in WireFrames : q = k.inbox /\ e = Event(m + 1)
  BY <1>1
<1>3. /\ k2.inbox = Append(q, e) /\ Len(q) \in Nat /\ Len(k2.inbox) = Len(q) + 1
      /\ k2.inbox[Len(q) + 1] = e /\ e.type = "event" /\ e.arg = m + 1
      /\ \A i \in 1 .. Len(q) : k2.inbox[i] = q[i] /\ i \in 1 .. Len(q) + 1
      /\ \A i \in 1 .. Len(q) + 1 : i \in 1 .. Len(q) \/ i = Len(q) + 1
      /\ Len(q) + 1 \in 1 .. Len(q) + 1
  BY <1>1, <1>2, AppendParts
<1>4. ASSUME NEW more, Covered(q, more, L, m, E)
      PROVE  Covered(k2.inbox, more, L, m + 1, E)
  <2> SUFFICES ASSUME NEW x \in 1 .. m + 1, x > L, x \notin E \cup more
               PROVE  \E i \in 1 .. Len(k2.inbox) : k2.inbox[i].type = "event" /\ k2.inbox[i].arg = x
    BY DEF Covered
  <2>1. CASE x = m + 1
    BY <1>3, <2>1
  <2>2. CASE x # m + 1
    <3>1. x \in 1 .. m
      BY <2>2
    <3>2. PICK i \in 1 .. Len(q) : q[i].type = "event" /\ q[i].arg = x
      BY <1>4, <3>1 DEF Covered
    <3> QED
      BY <1>3, <3>2
  <2> QED
    BY <2>1, <2>2
<1>5. ASSUME NEW a \in 0 .. Len(q), InOrder(q, a, L, m)
      PROVE  InOrder(k2.inbox, a, L, m + 1)
  <2>1. ASSUME NEW i \in 1 .. Len(k2.inbox), i > a, k2.inbox[i].type = "event"
        PROVE  k2.inbox[i].arg > L /\ k2.inbox[i].arg <= m + 1
    <3>1. CASE i \in 1 .. Len(q)
      BY <1>3, <1>5, <2>1, <3>1, EventNumbers DEF InOrder
    <3>2. CASE i = Len(q) + 1
      BY <1>3, <3>2
    <3> QED
      BY <1>3, <2>1, <3>1, <3>2
  <2>2. ASSUME NEW i \in 1 .. Len(k2.inbox), NEW j \in 1 .. Len(k2.inbox), i > a, i < j,
               k2.inbox[i].type = "event", k2.inbox[j].type = "event"
        PROVE  k2.inbox[i].arg < k2.inbox[j].arg
    <3>1. i \in 1 .. Len(q) /\ q[i].type = "event"
      BY <1>3, <2>2
    <3>2. q[i].arg \in Nat /\ q[i].arg <= m
      BY <1>5, <2>2, <3>1, EventNumbers DEF InOrder
    <3>3. CASE j \in 1 .. Len(q)
      BY <1>3, <1>5, <2>2, <3>1, <3>3 DEF InOrder
    <3>4. CASE j = Len(q) + 1
      BY <1>3, <3>1, <3>2, <3>4
    <3> QED
      BY <1>3, <2>2, <3>3, <3>4
  <2> QED
    BY <2>1, <2>2 DEF InOrder
<1>6. CASE k.peer = "registered"
  <2>1. Chosen(k, L, m, E)
    BY <1>6 DEF StreamOK
  <2>2. Covered(k2.inbox, {k.replay[i] : i \in 1 .. Len(k.replay)}, L, m + 1, E)
    BY <1>2, <1>4, <2>1 DEF Chosen
  <2>3. \A i \in 1 .. Len(k2.inbox) : k2.inbox[i].type = "event"
    BY <1>2, <1>3, <2>1 DEF Chosen
  <2>4. ReplayFits(k.replay, L, m + 1)
    <3>1. k.replay \in Seq(Nat)
      BY DEF SockType
    <3>2. \A i \in 1 .. Len(k.replay) : k.replay[i] \in Nat
      BY <3>1
    <3> QED
      BY <2>1, <3>2 DEF Chosen, ReplayFits
  <2>5. Chosen(k2, L, m + 1, E)
    BY <2>1, <2>2, <2>3, <2>4 DEF Chosen
  <2> QED
    BY <1>6, <2>5 DEF StreamOK
<1>7. CASE k.peer = "active"
  <2>1. PICK a \in 0 .. Len(q) : Greeted(k, a, L, m, E)
    BY <1>2, <1>7 DEF StreamOK
  <2>2. InOrder(k2.inbox, a, L, m + 1) /\ Covered(k2.inbox, {}, L, m + 1, E)
    BY <1>2, <1>4, <1>5, <2>1 DEF Greeted
  <2>3. \A i \in 1 .. Len(k2.inbox) : i # a => k2.inbox[i].type \in {"event", "response"}
    BY <1>2, <1>3, <2>1 DEF Greeted
  <2>4. a > 0 => k2.inbox[a].type = "authenticated"
    BY <1>2, <1>3, <2>1 DEF Greeted
  <2>5. Greeted(k2, a, L, m + 1, E)
    BY <2>1, <2>2, <2>3, <2>4 DEF Greeted
  <2>6. a \in 0 .. Len(k2.inbox)
    BY <1>3
  <2> QED
    BY <1>7, <2>5, <2>6 DEF StreamOK
<1> QED
  BY <1>6, <1>7

\* An answer to a request is sent to an authenticated connection.
LEMMA AnswerIsSent ==
    ASSUME NEW k \in SockType, NEW k2 \in SockType, NEW L \in Nat, NEW m \in Nat,
           NEW E, StreamOK(k, L, m, E), k.phase = "open", k.peer = "active",
           k2.phase = "open", k2.peer = k.peer, k2.handled = k.handled,
           NEW r \in Requests, k2.inbox = Append(k.inbox, Response(r))
    PROVE  StreamOK(k2, L, m, E)
<1>1. k.inbox \in Seq(WireFrames) /\ Response(r) \in WireFrames
      /\ Response(r).type = "response"
  BY DEF SockType, WireFrames, Response
<1>2. PICK q \in Seq(WireFrames), e \in WireFrames : q = k.inbox /\ e = Response(r)
  BY <1>1
<1>3. /\ k2.inbox = Append(q, e) /\ Len(q) \in Nat /\ Len(k2.inbox) = Len(q) + 1
      /\ k2.inbox[Len(q) + 1] = e /\ e.type = "response"
      /\ \A i \in 1 .. Len(q) : k2.inbox[i] = q[i] /\ i \in 1 .. Len(q) + 1
      /\ \A i \in 1 .. Len(q) + 1 : i \in 1 .. Len(q) \/ i = Len(q) + 1
  BY <1>1, <1>2, AppendParts
<1>4. PICK a \in 0 .. Len(q) : Greeted(k, a, L, m, E)
  BY <1>2 DEF StreamOK
<1>5. Covered(k2.inbox, {}, L, m, E)
  BY <1>2, <1>3, <1>4 DEF Greeted, Covered
<1>6. \A i \in 1 .. Len(k2.inbox) :
         k2.inbox[i].type = "event" => i \in 1 .. Len(q) /\ k2.inbox[i] = q[i]
  BY <1>3
<1>7. InOrder(k2.inbox, a, L, m)
  BY <1>2, <1>4, <1>6 DEF Greeted, InOrder
<1>8. /\ \A i \in 1 .. Len(k2.inbox) : i # a => k2.inbox[i].type \in {"event", "response"}
      /\ a > 0 => k2.inbox[a].type = "authenticated"
      /\ a \in 0 .. Len(k2.inbox)
  BY <1>2, <1>3, <1>4 DEF Greeted
<1>9. Greeted(k2, a, L, m, E)
  BY <1>4, <1>5, <1>7, <1>8 DEF Greeted
<1> QED
  BY <1>8, <1>9 DEF StreamOK

\* The signet registers the connection and chooses what it replays.
LEMMA ReplayIsChosen ==
    ASSUME NEW k \in SockType, NEW k2 \in SockType, NEW L \in Nat, NEW m \in Nat, L <= m,
           NEW E, StreamOK(k, L, m, E), k.phase = "open", k.peer = "asked",
           k2.phase = "open", k2.peer = "registered", k2.handled = k.handled,
           k2.inbox = k.inbox,
           \/ k2.replay = <<>> /\ (L + 1 .. m) \subseteq E
           \/ ~k2.recovery /\ k2.replay = [i \in 1 .. (m - L) |-> L + i]
    PROVE  StreamOK(k2, L, m, E)
<1>1. ~k.handled /\ k2.inbox = <<>> /\ Len(k2.inbox) = 0
  BY DEF StreamOK
<1>2. CASE k2.replay = <<>> /\ (L + 1 .. m) \subseteq E
  <2>1. \A x \in 1 .. m : x > L => x \in E
    BY <1>2
  <2>2. Covered(k2.inbox, {k2.replay[i] : i \in 1 .. Len(k2.replay)}, L, m, E)
    BY <2>1 DEF Covered
  <2>3. Len(k2.replay) = 0
    BY <1>2
  <2>4. ReplayFits(k2.replay, L, m)
    BY <2>3 DEF ReplayFits
  <2>5. Chosen(k2, L, m, E)
    BY <1>1, <1>2, <2>2, <2>4 DEF Chosen
  <2> QED
    BY <2>5 DEF StreamOK
<1>3. CASE ~k2.recovery /\ k2.replay = [i \in 1 .. (m - L) |-> L + i]
  <2>1. m - L \in Nat
    OBVIOUS
  <2>2. Len(k2.replay) = m - L /\ \A i \in 1 .. m - L : k2.replay[i] = L + i
    BY <1>3, <2>1
  <2>3. ReplayFits(k2.replay, L, m)
    BY <2>1, <2>2 DEF ReplayFits
  <2>4. ASSUME NEW x \in 1 .. m, x > L
        PROVE  x \in {k2.replay[i] : i \in 1 .. Len(k2.replay)}
    <3>1. x - L \in 1 .. m - L /\ L + (x - L) = x
      BY <2>4
    <3> QED
      BY <2>2, <3>1
  <2>5. Covered(k2.inbox, {k2.replay[i] : i \in 1 .. Len(k2.replay)}, L, m, E)
    BY <2>4 DEF Covered
  <2>6. Chosen(k2, L, m, E)
    <3>1. ~k2.handled /\ ~k2.recovery /\ \A i \in 1 .. Len(k2.inbox) : FALSE
      BY <1>1, <1>3
    <3> QED
      BY <2>3, <2>5, <3>1 DEF Chosen
  <2> QED
    BY <2>6 DEF StreamOK
<1> QED
  BY <1>2, <1>3

\* A sequence, one more element and another sequence.
LEMMA ConcatParts ==
    ASSUME NEW S, NEW q \in Seq(S), NEW x \in S, NEW e \in Seq(S), NEW p, p = q \o <<x>> \o e
    PROVE  /\ Len(p) = Len(q) + 1 + Len(e)
           /\ p[Len(q) + 1] = x
           /\ \A i \in 1 .. Len(q) : p[i] = q[i]
           /\ \A i \in 1 .. Len(e) : p[Len(q) + 1 + i] = e[i]
<1>1. PICK g \in Seq(S) : g = q \o <<x>>
  <2>1. q \o <<x>> \in Seq(S)
    OBVIOUS
  <2> QED
    BY <2>1, Zenon
<1>2. Len(g) = Len(q) + 1 /\ g[Len(q) + 1] = x /\ \A i \in 1 .. Len(q) : g[i] = q[i]
  BY <1>1
<1>3. ASSUME NEW f, f = g \o e
      PROVE  /\ Len(f) = Len(g) + Len(e)
             /\ \A i \in 1 .. Len(g) : f[i] = g[i]
             /\ \A i \in 1 .. Len(e) : f[Len(g) + i] = e[i]
  BY <1>3
<1>4. p = g \o e
  BY <1>1
<1>5. /\ Len(p) = Len(g) + Len(e)
      /\ \A i \in 1 .. Len(g) : p[i] = g[i]
      /\ \A i \in 1 .. Len(e) : p[Len(g) + i] = e[i]
  BY <1>3, <1>4, Zenon
<1> QED
  BY <1>2, <1>5

\* A sequence and two more elements.
LEMMA PairParts ==
    ASSUME NEW S, NEW q \in Seq(S), NEW x \in S, NEW y \in S, NEW p, p = q \o <<x, y>>
    PROVE  /\ Len(p) = Len(q) + 2 /\ p[Len(q) + 1] = x /\ p[Len(q) + 2] = y
           /\ \A i \in 1 .. Len(q) : p[i] = q[i]
OBVIOUS

\* The auth answer goes out, with the recovery event or the replay after it.
LEMMA GreetingIsSent ==
    ASSUME NEW k \in SockType, NEW k2 \in SockType, NEW L \in Nat, NEW m \in Nat, L <= m,
           NEW E, StreamOK(k, L, m, E), k.phase = "open", k.peer = "registered",
           k2.phase = "open", k2.peer = "active", k2.handled = k.handled,
           NEW m2,
           NEW r \in Seq(Nat), ReplayFits(r, L, m2),
           \/ k.recovery /\ m2 = m + 1 /\ r = <<m + 1>>
           \/ ~k.recovery /\ m2 = m /\ r = k.replay,
           Len(k2.inbox) = Len(k.inbox) + 1 + Len(r),
           \A i \in 1 .. Len(k.inbox) : k2.inbox[i] = k.inbox[i],
           k2.inbox[Len(k.inbox) + 1] = Authenticated,
           \A i \in 1 .. Len(r) : k2.inbox[Len(k.inbox) + 1 + i] = Event(r[i])
    PROVE  StreamOK(k2, L, m2, E)
<1>1. PICK q \in Seq(WireFrames) : q = k.inbox
  BY DEF SockType
<1>2. PICK n \in Nat : n = Len(q)
  OBVIOUS
<1>4. PICK z \in Nat : z = Len(r)
  OBVIOUS
<1>5. Len(k2.inbox) = n + 1 + z
  BY <1>1, <1>2, <1>4
<1>6. /\ \A i \in 1 .. n : k2.inbox[i] = q[i]
      /\ k2.inbox[n + 1] = Authenticated
      /\ \A i \in 1 .. z : k2.inbox[n + 1 + i] = Event(r[i]) /\ r[i] \in Nat
  BY <1>1, <1>2, <1>4
<1>7. Authenticated.type = "authenticated"
      /\ \A x \in Nat : Event(x).type = "event" /\ Event(x).arg = x
  BY DEF Authenticated, Event
<1>8. ASSUME NEW i \in 1 .. Len(k2.inbox), i > n + 1
      PROVE  \E j \in 1 .. z : i = n + 1 + j /\ k2.inbox[i].type = "event"
                               /\ k2.inbox[i].arg = r[j]
  <2>1. i - (n + 1) \in 1 .. z /\ i = n + 1 + (i - (n + 1))
    BY <1>5, <1>8
  <2>2. PICK j \in 1 .. z : i = n + 1 + j
    BY <2>1
  <2> QED
    BY <1>6, <1>7, <2>2
<1>9. Chosen(k, L, m, E)
  BY DEF StreamOK
<1>10. m2 \in Nat
  OBVIOUS
<1>11. InOrder(k2.inbox, n + 1, L, m2)
  <2>1. ASSUME NEW i \in 1 .. Len(k2.inbox), i > n + 1, k2.inbox[i].type = "event"
        PROVE  k2.inbox[i].arg > L /\ k2.inbox[i].arg <= m2
    BY <1>4, <1>8, <2>1 DEF ReplayFits
  <2>2. ASSUME NEW i \in 1 .. Len(k2.inbox), NEW j \in 1 .. Len(k2.inbox), i > n + 1, i < j
        PROVE  k2.inbox[i].arg < k2.inbox[j].arg
    <3>1. PICK x \in 1 .. z : i = n + 1 + x /\ k2.inbox[i].arg = r[x]
      BY <1>8, <2>2
    <3>2. j > n + 1
      BY <1>5, <2>2
    <3>3. PICK y \in 1 .. z : j = n + 1 + y /\ k2.inbox[j].arg = r[y]
      BY <1>8, <3>2
    <3>4. x < y
      BY <2>2, <3>1, <3>3
    <3> QED
      BY <1>4, <3>1, <3>3, <3>4 DEF ReplayFits
  <2> QED
    BY <2>1, <2>2 DEF InOrder
<1>12. Covered(k2.inbox, {}, L, m2, E)
  <2> SUFFICES ASSUME NEW x \in 1 .. m2, x > L, x \notin E
               PROVE  \E i \in 1 .. Len(k2.inbox) : k2.inbox[i].type = "event" /\ k2.inbox[i].arg = x
    BY DEF Covered
  <2>1. ASSUME NEW j \in 1 .. z, r[j] = x
        PROVE  \E i \in 1 .. Len(k2.inbox) : k2.inbox[i].type = "event" /\ k2.inbox[i].arg = x
    <3>1. n + 1 + j \in 1 .. Len(k2.inbox)
      BY <1>5
    <3> QED
      BY <1>6, <1>7, <2>1, <3>1, ZenonT(30)
  <2>2. ASSUME NEW i \in 1 .. n, q[i].type = "event", q[i].arg = x
        PROVE  \E j \in 1 .. Len(k2.inbox) : k2.inbox[j].type = "event" /\ k2.inbox[j].arg = x
    <3>1. i \in 1 .. Len(k2.inbox)
      BY <1>5, SMTT(30)
    <3> QED
      BY <1>6, <2>2, <3>1
  <2>3. CASE x \in 1 .. m
    <3>1. \/ x \in {k.replay[i] : i \in 1 .. Len(k.replay)}
          \/ \E i \in 1 .. n : q[i].type = "event" /\ q[i].arg = x
      BY <1>1, <1>2, <1>9, <2>3 DEF Chosen, Covered
    <3>2. CASE x \in {k.replay[i] : i \in 1 .. Len(k.replay)}
      <4>1. PICK i \in 1 .. Len(k.replay) : x = k.replay[i]
        BY <3>2
      <4>2. ~k.recovery
        BY <1>9, <4>1 DEF Chosen
      <4> QED
        BY <1>4, <2>1, <4>1, <4>2
    <3> QED
      BY <2>2, <3>1, <3>2
  <2>4. CASE x \notin 1 .. m
    <3>1. x = m + 1 /\ r = <<m + 1>>
      BY <2>4
    <3>2. z = 1 /\ r[1] = x
      BY <1>4, <3>1
    <3>3. 1 \in 1 .. z
      BY <3>2
    <3> QED
      BY <2>1, <3>2, <3>3
  <2> QED
    BY <2>3, <2>4
<1>13. \A i \in 1 .. Len(k2.inbox) : i # n + 1 => k2.inbox[i].type \in {"event", "response"}
  <2>1. \A i \in 1 .. n : q[i].type = "event"
    BY <1>1, <1>2, <1>9 DEF Chosen
  <2>2. ASSUME NEW i \in 1 .. Len(k2.inbox), i # n + 1
        PROVE  k2.inbox[i].type \in {"event", "response"}
    <3>1. CASE i <= n
      <4>1. i \in 1 .. n
        BY <1>5, <3>1
      <4> QED
        BY <1>6, <2>1, <4>1
    <3>2. CASE i > n + 1
      BY <1>8, <3>2
    <3> QED
      BY <2>2, <1>5, <3>1, <3>2
  <2> QED
    BY <2>2
<1>14. Greeted(k2, n + 1, L, m2, E)
  <2>1. n + 1 > 0 /\ n + 1 # 0
    OBVIOUS
  <2>2. ~k2.handled /\ k2.inbox[n + 1].type = "authenticated"
    BY <1>6, <1>7, <1>9 DEF Chosen
  <2> QED
    BY <1>11, <1>12, <1>13, <2>1, <2>2 DEF Greeted
<1>15. n + 1 \in 0 .. Len(k2.inbox)
  BY <1>5
<1> QED
  BY <1>14, <1>15 DEF StreamOK

\* A step that pushes nothing and touches no open connection.
LEMMA StreamKept ==
    ASSUME ClientType, StreamInv,
           \A s \in Sockets : sock'[s].phase # "open" \/ sock'[s] = sock[s],
           h'.lastSeenSeq = h.lastSeenSeq, UNCHANGED <<seq, excused, early>>,
           \/ pushed' = <<>>
           \/ pushed' = pushed /\ (h.done => h'.done)
    PROVE  StreamInv'
<1>1. \A s \in Sockets :
         StreamOK(sock'[s], h'.lastSeenSeq, seq', excused' \cup early')
  <2> SUFFICES ASSUME NEW s \in Sockets
               PROVE  StreamOK(sock'[s], h.lastSeenSeq, seq, excused \cup early)
    OBVIOUS
  <2>1. CASE sock'[s].phase # "open"
    BY <2>1 DEF StreamOK
  <2>2. CASE sock'[s] = sock[s]
    BY <2>2 DEF StreamInv
  <2> QED
    BY <2>1, <2>2
<1>2. StreamGapsAreExplained'
  <2>1. CASE pushed' = <<>>
    <3>1. Len(pushed') = 0
      BY <2>1
    <3>2. 1 .. Len(pushed') - 1 = {}
      BY <3>1
    <3> QED
      BY <3>2 DEF StreamGapsAreExplained
  <2>2. CASE pushed' = pushed
    BY <2>2 DEF StreamGapsAreExplained, StreamInv
  <2> QED
    BY <2>1, <2>2
<1>3. ~h'.done /\ pushed' # <<>> => pushed'[Len(pushed')] = h'.lastSeenSeq
  BY DEF StreamInv
<1>4. h'.lastSeenSeq <= seq'
  BY DEF StreamInv
<1> QED
  BY <1>1, <1>2, <1>3, <1>4 DEF StreamInv

\* What a step of the handler does to its record, apart from the messages: it
\* keeps lastSeenSeq, and only connect opens a new stream.
LEMMA HandlerKeepsPlace ==
    ASSUME ClientType, NEW s \in Sockets,
           \/ ReconnectTimer(s) \/ Disconnect \/ MonitorFires \/ AuthTimeout(s)
           \/ \E retryable \in BOOLEAN : SocketClose(s, retryable)
           \/ \E r \in Requests : ApiCall(r) \/ RequestTimeout(r)
    PROVE  /\ h'.lastSeenSeq = h.lastSeenSeq /\ (h.done => h'.done)
           /\ UNCHANGED <<seq, pushed, excused, early>>
<1>0. h \in HandlerType
  BY DEF ClientType
<1>1. ASSUME NEW x \in HandlerType
      PROVE  /\ AttemptReconnect(x).lastSeenSeq = x.lastSeenSeq
             /\ x.done => AttemptReconnect(x).done
  <2>1. PICK y : y = [x EXCEPT !.attempt = x.attempt + 1, !.timers = x.timers + 1]
    OBVIOUS
  <2>2. y.lastSeenSeq = x.lastSeenSeq /\ y.done = x.done /\ NextDelay(x) = y
    BY <2>1 DEF NextDelay, HandlerType
  <2>3. CASE Exhausted(x)
    BY <2>3 DEF AttemptReconnect, HandlerType
  <2>4. CASE ~Exhausted(x)
    <3>1. AttemptReconnect(x) = [y EXCEPT !.state = "reconnecting"]
      BY <2>2, <2>4 DEF AttemptReconnect
    <3>2. [y EXCEPT !.state = "reconnecting"].lastSeenSeq = y.lastSeenSeq
          /\ [y EXCEPT !.state = "reconnecting"].done = y.done
      BY <2>1 DEF HandlerType
    <3> QED
      BY <2>2, <3>1, <3>2
  <2> QED
    BY <2>3, <2>4
<1>2. CASE ReconnectTimer(s)
  <2>1. PICK x : x = [h EXCEPT !.timers = h.timers - 1]
    OBVIOUS
  <2>2. h' = x \/ h' = [x EXCEPT !.state = "connecting", !.ws = s]
    BY <1>2, <2>1 DEF ReconnectTimer, ConnectInternal
  <2>3. h'.lastSeenSeq = h.lastSeenSeq /\ h'.done = h.done
    BY <1>0, <2>1, <2>2 DEF HandlerType
  <2> QED
    BY <1>2, <2>3 DEF ReconnectTimer
<1>3. PICK x : x = [h EXCEPT !.monitor = FALSE]
  OBVIOUS
<1>4. x \in HandlerType /\ x.lastSeenSeq = h.lastSeenSeq /\ x.done = h.done
      /\ StopMonitor(h) = x
  BY <1>0, <1>3 DEF HandlerType, StopMonitor
<1>5. CASE Disconnect
  BY <1>0, <1>5 DEF Disconnect, RejectAll, StopMonitor, HandlerType
<1>6. CASE MonitorFires
  <2>1. h' = x \/ h' = AttemptReconnect(x)
    BY <1>4, <1>6 DEF MonitorFires
  <2> QED
    BY <1>1, <1>4, <1>6, <2>1 DEF MonitorFires
<1>7. CASE AuthTimeout(s)
  BY <1>0, <1>7 DEF AuthTimeout, HandlerType
<1>8. ASSUME NEW retryable \in BOOLEAN, SocketClose(s, retryable)
      PROVE  h'.lastSeenSeq = h.lastSeenSeq /\ (h.done => h'.done)
  <2>1. PICK z : z = [x EXCEPT !.pending = {}]
    OBVIOUS
  <2>2. z \in HandlerType /\ z.lastSeenSeq = h.lastSeenSeq /\ z.done = h.done
        /\ RejectAll(x) = z
    BY <1>4, <2>1 DEF HandlerType, RejectAll
  <2>3. PICK w : w = [x EXCEPT !.ws = NoSocket]
    OBVIOUS
  <2>4. PICK y : y = [w EXCEPT !.pending = {}]
    OBVIOUS
  <2>5. y \in HandlerType /\ y.lastSeenSeq = h.lastSeenSeq /\ y.done = h.done
        /\ RejectAll(w) = y
    <3>1. w \in HandlerType /\ w.lastSeenSeq = h.lastSeenSeq /\ w.done = h.done
      BY <1>4, <2>3 DEF HandlerType
    <3> QED
      BY <2>4, <3>1 DEF HandlerType, RejectAll
  <2>6. \/ h' = [x EXCEPT !.state = "closed"]
        \/ h' = AttemptReconnect(z)
        \/ h' = [y EXCEPT !.state = "closed", !.done = TRUE]
        \/ h' = AttemptReconnect(y)
        \/ h' = y
    BY <1>4, <1>8, <2>2, <2>3, <2>5 DEF SocketClose, Closed
  <2>7. CASE h' = [x EXCEPT !.state = "closed"]
    BY <1>4, <2>7 DEF HandlerType
  <2>8. CASE h' = [y EXCEPT !.state = "closed", !.done = TRUE]
    BY <2>5, <2>8 DEF HandlerType
  <2> QED
    BY <1>1, <2>2, <2>5, <2>6, <2>7, <2>8
<1>9. ASSUME NEW r \in Requests, ApiCall(r) \/ RequestTimeout(r)
      PROVE  h'.lastSeenSeq = h.lastSeenSeq /\ (h.done => h'.done)
  <2>1. PICK p : h' = [h EXCEPT !.pending = p]
    BY <1>9 DEF ApiCall, SendRequest, Track, RequestTimeout, Resolve
  <2> QED
    BY <1>0, <2>1 DEF HandlerType
<1>10. (\E retryable \in BOOLEAN : SocketClose(s, retryable))
          => UNCHANGED <<seq, pushed, excused, early>>
  BY DEF SocketClose
<1>11. (\E r \in Requests : ApiCall(r) \/ RequestTimeout(r))
          => UNCHANGED <<seq, pushed, excused, early>>
  BY DEF ApiCall, RequestTimeout
<1>12. Disconnect \/ MonitorFires \/ AuthTimeout(s) => UNCHANGED <<seq, pushed, excused, early>>
  BY DEF Disconnect, MonitorFires, AuthTimeout
<1> QED
  BY <1>2, <1>5, <1>6, <1>7, <1>8, <1>9, <1>10, <1>11, <1>12

\* Calls, timers and close events.
LEMMA QuietStream ==
    ASSUME ClientType, StreamInv, NEW s \in Sockets,
           \/ Connect(s) \/ ReconnectTimer(s) \/ Disconnect \/ MonitorFires \/ AuthTimeout(s)
           \/ \E retryable \in BOOLEAN : SocketClose(s, retryable)
           \/ \E r \in Requests : ApiCall(r) \/ RequestTimeout(r)
    PROVE  StreamInv'
<1>1. \A t \in Sockets : sock'[t].phase # "open" \/ sock'[t] = sock[t]
  <2>0. sock \in [Sockets -> SockType] /\ h \in HandlerType
    BY DEF ClientType
  <2>1. ASSUME NEW x, ConnectInternal(x, s)
        PROVE  \A t \in Sockets : sock'[t].phase # "open" \/ sock'[t] = sock[t]
    <3>1. PICK k : k = [Unused EXCEPT !.phase = "opening"]
      OBVIOUS
    <3>2. k.phase = "opening"
      BY <3>1 DEF Unused
    <3>3. sock' = [sock EXCEPT ![s] = k]
      BY <2>1, <3>1 DEF ConnectInternal
    <3> QED
      BY <2>0, <3>2, <3>3
  <2>2. ASSUME NEW t \in Sockets, sock' = CloseSocket(t)
        PROVE  \A u \in Sockets : sock'[u].phase # "open" \/ sock'[u] = sock[u]
    <3>1. sock'[t].phase = "closing" /\ \A u \in Sockets : u # t => sock'[u] = sock[u]
      BY <2>0, <2>2 DEF CloseSocket, SockType
    <3> QED
      BY <3>1
  <2>3. CASE Connect(s) \/ ReconnectTimer(s)
    BY <2>1, <2>3 DEF Connect, ReconnectTimer
  <2>4. CASE Disconnect
    BY <2>2, <2>4 DEF Disconnect, Live
  <2>5. CASE MonitorFires
    <3>1. h.ws # NoSocket => h.ws \in Sockets
      BY <2>0 DEF HandlerType
    <3>2. UNCHANGED sock \/ (h.ws \in Sockets /\ sock' = CloseSocket(h.ws))
      BY <2>5, <3>1 DEF MonitorFires
    <3> QED
      BY <2>2, <3>2
  <2>6. CASE AuthTimeout(s)
    <3>1. sock'[s].phase = "closing" /\ \A u \in Sockets : u # s => sock'[u] = sock[u]
      BY <2>0, <2>6 DEF AuthTimeout, CloseSocket, SockType
    <3> QED
      BY <3>1
  <2>7. CASE \E retryable \in BOOLEAN : SocketClose(s, retryable)
    BY <2>0, <2>7, UnusedIsTyped DEF SocketClose
  <2>8. CASE \E r \in Requests : ApiCall(r) \/ RequestTimeout(r)
    BY <2>8 DEF ApiCall, RequestTimeout
  <2> QED
    BY <2>3, <2>4, <2>5, <2>6, <2>7, <2>8
<1>2. CASE Connect(s)
  <2>1. PICK x : x = [h EXCEPT !.done = FALSE]
    OBVIOUS
  <2>2. h' = [x EXCEPT !.state = "connecting", !.ws = s]
        /\ pushed' = <<>> /\ UNCHANGED <<seq, excused, early>>
    BY <1>2, <2>1 DEF Connect, ConnectInternal
  <2>3. h'.lastSeenSeq = h.lastSeenSeq
    BY <2>1, <2>2 DEF ClientType, HandlerType
  <2> QED
    BY <1>1, <2>2, <2>3, StreamKept
<1>3. CASE ~Connect(s)
  BY <1>1, <1>3, HandlerKeepsPlace, StreamKept
<1> QED
  BY <1>2, <1>3

\* A step on one connection that pushes nothing, while the others are idle.
LEMMA OneConnection ==
    ASSUME ClientType, ControlInv, StreamInv, ClientType', NEW s \in Sockets,
           sock[s].phase # "idle",
           \A t \in Sockets : t # s => sock'[t] = sock[t],
           StreamOK(sock'[s], h.lastSeenSeq, seq', excused' \cup early'),
           h'.lastSeenSeq = h.lastSeenSeq, h'.done = h.done, pushed' = pushed,
           seq <= seq', excused \cup early \subseteq excused' \cup early'
    PROVE  StreamInv'
<1>1. \A t \in Sockets : StreamOK(sock'[t], h'.lastSeenSeq, seq', excused' \cup early')
  <2> SUFFICES ASSUME NEW t \in Sockets, t # s
               PROVE  StreamOK(sock'[t], h.lastSeenSeq, seq', excused' \cup early')
    OBVIOUS
  <2>1. sock[t].phase = "idle"
    BY DEF ControlInv
  <2> QED
    BY <2>1 DEF StreamOK
<1>2. h'.lastSeenSeq <= seq'
  <2>1. h.lastSeenSeq \in Nat /\ seq \in Nat /\ seq' \in Nat /\ h.lastSeenSeq <= seq
    BY DEF ClientType, HandlerType, StreamInv
  <2> QED
    BY <2>1
<1>3. StreamGapsAreExplained'
  BY DEF StreamInv, StreamGapsAreExplained
<1>4. ~h'.done /\ pushed' # <<>> => pushed'[Len(pushed')] = h'.lastSeenSeq
  BY DEF StreamInv
<1> QED
  BY <1>1, <1>2, <1>3, <1>4 DEF StreamInv

\* The socket opens and the auth frame goes out.
LEMMA OpenStream ==
    ASSUME ClientType, ControlInv, StreamInv, ClientType', NEW s \in Sockets, SocketOpen(s)
    PROVE  StreamInv'
<1>1. PICK k : k = [sock[s] EXCEPT !.phase = "open", !.peer = "asked",
                                   !.lastSeen = h.lastSeenSeq]
  OBVIOUS
<1>2. sock' = [sock EXCEPT ![s] = k] /\ UNCHANGED <<seq, pushed, excused, early>>
      /\ h' = [h EXCEPT !.state = "authenticating"] /\ sock[s].phase = "opening"
  BY <1>1 DEF SocketOpen, ClientType
<1>3. sock[s] \in SockType /\ ~sock[s].handled /\ sock[s].inbox = <<>>
      /\ h \in HandlerType /\ seq \in Nat
  BY <1>2 DEF ControlInv, InUse, ClientType
<1>4. k.peer = "asked" /\ k.inbox = <<>> /\ ~k.handled /\ k.lastSeen = h.lastSeenSeq
  BY <1>1, <1>3 DEF SockType
<1>5. StreamOK(k, h.lastSeenSeq, seq, excused \cup early)
  BY <1>4 DEF StreamOK
<1>6. sock'[s] = k /\ \A t \in Sockets : t # s => sock'[t] = sock[t]
  BY <1>2 DEF ClientType
<1>7. h'.lastSeenSeq = h.lastSeenSeq /\ h'.done = h.done
  BY <1>2, <1>3 DEF HandlerType
<1>8. seq <= seq'
  BY <1>2, <1>3
<1> QED
  BY <1>2, <1>5, <1>6, <1>7, <1>8, OneConnection

\* A message: dropped before the auth answer, the answer itself, or a frame of
\* the stream, which is pushed after the frames before it are explained.
LEMMA MessageStream ==
    ASSUME ClientType, ControlInv, StreamInv, ClientType', NEW s \in Sockets, SocketMessage(s)
    PROVE  StreamInv'
<1>1. PICK k, k2, f : k = sock[s] /\ k2 = sock'[s] /\ f = Head(sock[s].inbox)
  OBVIOUS
<1>2. /\ k \in SockType /\ k2 \in SockType /\ k.phase = "open" /\ k.inbox # <<>>
      /\ UNCHANGED <<seq, excused>> /\ HandleFrame(s, f) /\ seq \in Nat
      /\ h \in HandlerType /\ h.lastSeenSeq \in Nat
      /\ StreamOK(k, h.lastSeenSeq, seq, excused \cup early)
  BY <1>1 DEF SocketMessage, ClientType, HandlerType, StreamInv
<1>3. \A t \in Sockets : t # s => sock'[t] = sock[t]
  BY <1>2 DEF HandleFrame, ClientType
<1>4. k2.phase = "open" /\ k2.peer = k.peer /\ k2.replay = k.replay
      /\ k2.recovery = k.recovery /\ k2.inbox = Tail(k.inbox)
  BY <1>1, <1>2 DEF HandleFrame, ClientType, SockType
<1>a. seq <= seq' /\ sock[s].phase # "idle"
  BY <1>1, <1>2
<1>5. CASE ~k.handled
  <2>1. /\ k2.handled = (f.type \in {"authenticated", "auth_error"})
        /\ early' = (IF f.type = "event" THEN early \cup {f.arg} ELSE early)
        /\ pushed' = pushed
    BY <1>1, <1>2, <1>5 DEF HandleFrame, ClientType, SockType
  <2>2. h'.lastSeenSeq = h.lastSeenSeq /\ h'.done = h.done
    <3>1. h' = (CASE f.type = "authenticated" ->
                        [StartMonitor(h) EXCEPT !.state = "connected",
                                                !.attempt = 0]
                   [] f.type = "auth_error" -> [h EXCEPT !.state = "closed"]
                   [] OTHER -> h)
      BY <1>1, <1>2, <1>5 DEF HandleFrame
    <3>2. CASE f.type = "authenticated"
      <4>1. h' = [StartMonitor(h) EXCEPT !.state = "connected", !.attempt = 0]
        BY <3>1, <3>2
      <4> QED
        BY <1>2, <4>1 DEF StartMonitor, HandlerType
    <3>3. CASE f.type = "auth_error"
      <4>1. h' = [h EXCEPT !.state = "closed"]
        BY <3>1, <3>3
      <4> QED
        BY <1>2, <4>1 DEF HandlerType
    <3>4. CASE f.type \notin {"authenticated", "auth_error"}
      BY <3>1, <3>4
    <3> QED
      BY <3>2, <3>3, <3>4
  <2>3. excused \cup early \subseteq excused' \cup early'
    BY <1>2, <2>1
  <2>4. CASE f.type \in {"authenticated", "auth_error"}
    <3>1. k2.handled /\ early' = early
      BY <2>1, <2>4
    <3>2. StreamOK(k2, h.lastSeenSeq, seq, excused \cup early)
      BY <1>1, <1>2, <1>4, <1>5, <2>4, <3>1, AnswerFrame
    <3> QED
      BY <1>a, <1>1, <1>2, <1>3, <2>1, <2>2, <2>3, <3>1, <3>2, OneConnection
  <2>5. CASE f.type \notin {"authenticated", "auth_error"}
    <3>1. ~k2.handled
      BY <2>1, <2>5
    <3>2. f.type = "event" => f.arg \in excused' \cup early'
      BY <2>1
    <3>3. PICK E1, E2 : E1 = excused \cup early /\ E2 = excused' \cup early'
      OBVIOUS
    <3>4. StreamOK(k2, h.lastSeenSeq, seq, E2)
      BY <1>1, <1>2, <1>4, <1>5, <2>3, <2>5, <3>1, <3>2, <3>3, EarlyFrame
    <3> QED
      BY <1>a, <1>1, <1>2, <1>3, <2>1, <2>2, <2>3, <3>3, <3>4, OneConnection
  <2> QED
    BY <2>4, <2>5
<1>6. CASE k.handled
  <2>1. /\ early' = early
        /\ h' = (CASE f.type = "event" -> [h EXCEPT !.lastSeenSeq = f.arg]
                   [] f.type = "response" -> Resolve(h, f.arg)
                   [] OTHER -> h)
        /\ pushed' = (IF f.type = "event" THEN Pushed(f.arg) ELSE pushed)
    BY <1>1, <1>2, <1>6 DEF HandleFrame
  <2>2. k2.handled
    <3>1. sock' = [sock EXCEPT ![s].inbox = Tail(@)]
      BY <1>1, <1>2, <1>6 DEF HandleFrame
    <3> QED
      BY <1>1, <1>2, <1>6, <3>1 DEF ClientType, SockType
  <2>3. /\ f.type # "event" => StreamOK(k2, h.lastSeenSeq, seq, excused \cup early)
        /\ f.type = "event" =>
                /\ f.arg \in Nat /\ f.arg > h.lastSeenSeq /\ f.arg <= seq
                /\ (h.lastSeenSeq + 1 .. f.arg - 1) \subseteq excused \cup early
                /\ StreamOK(k2, f.arg, seq, excused \cup early)
    BY <1>1, <1>2, <1>4, <1>6, <2>2, StreamFrame, SMTT(30)
  <2>6. excused \cup early \subseteq excused' \cup early'
    BY <1>2, <2>1
  <2>4. CASE f.type # "event"
    <3>1. PICK p : h' = [h EXCEPT !.pending = p] \/ h' = h
      BY <2>1, <2>4 DEF Resolve
    <3>2. h'.lastSeenSeq = h.lastSeenSeq /\ h'.done = h.done
      BY <1>2, <3>1 DEF HandlerType
    <3> QED
      BY <1>a, <1>1, <1>2, <1>3, <2>1, <2>3, <2>4, <2>6, <3>2, OneConnection
  <2>5. CASE f.type = "event"
    <3>1. h' = [h EXCEPT !.lastSeenSeq = f.arg] /\ pushed' = Pushed(f.arg)
      BY <2>1, <2>5
    <3>2. h'.lastSeenSeq = f.arg /\ h'.done = h.done
      BY <1>2, <3>1 DEF HandlerType
    <3>3. \A t \in Sockets : StreamOK(sock'[t], h'.lastSeenSeq, seq', excused' \cup early')
      <4> SUFFICES ASSUME NEW t \in Sockets, t # s
                   PROVE  StreamOK(sock'[t], f.arg, seq, excused \cup early)
        BY <1>1, <1>2, <2>1, <2>3, <2>5, <3>2
      <4>1. sock[t].phase = "idle"
        BY <1>1, <1>2 DEF ControlInv
      <4> QED
        BY <1>3, <4>1 DEF StreamOK
    <3>4. h'.lastSeenSeq <= seq'
      BY <1>2, <2>3, <2>5, <3>2
    <3>5. CASE h.done
      <4>1. pushed' = pushed
        BY <3>1, <3>5 DEF Pushed
      <4>2. StreamGapsAreExplained'
        BY <1>2, <2>1, <4>1 DEF StreamInv, StreamGapsAreExplained
      <4> QED
        BY <3>2, <3>3, <3>4, <3>5, <4>2 DEF StreamInv
    <3>6. CASE ~h.done
      <4>1. PICK n \in Nat : n = f.arg
        BY <2>3, <2>5
      <4>2. pushed' = Append(pushed, n) /\ pushed \in Seq(Nat)
        BY <3>1, <3>6, <4>1 DEF Pushed, ClientType
      <4>3. /\ Len(pushed) \in Nat /\ Len(pushed') = Len(pushed) + 1
            /\ pushed'[Len(pushed) + 1] = n
            /\ \A i \in 1 .. Len(pushed) : pushed'[i] = pushed[i]
        BY <4>2, AppendParts
      <4>4. pushed # <<>> => pushed[Len(pushed)] = h.lastSeenSeq
        BY <3>6 DEF StreamInv
      <4>5. ASSUME NEW i \in 1 .. Len(pushed') - 1
            PROVE  /\ pushed'[i] < pushed'[i + 1]
                   /\ (pushed'[i] + 1 .. pushed'[i + 1] - 1) \subseteq (excused' \cup early')
        <5>1. CASE i + 1 \in 1 .. Len(pushed)
          <6>1. i \in 1 .. Len(pushed) - 1 /\ i \in 1 .. Len(pushed)
            BY <4>3, <5>1
          <6> QED
            BY <1>2, <2>1, <4>3, <5>1, <6>1 DEF StreamInv, StreamGapsAreExplained
        <5>2. CASE i + 1 = Len(pushed) + 1
          <6>1. i = Len(pushed) /\ pushed # <<>> /\ i \in 1 .. Len(pushed)
            BY <4>2, <4>3, <5>2
          <6>2. pushed'[i] = h.lastSeenSeq /\ pushed'[i + 1] = n
            BY <4>3, <4>4, <6>1
          <6> QED
            BY <1>2, <2>1, <2>3, <2>5, <4>1, <6>2
        <5> QED
          BY <4>3, <5>1, <5>2
      <4>6. StreamGapsAreExplained'
        BY <4>5 DEF StreamGapsAreExplained
      <4>7. pushed'[Len(pushed')] = h'.lastSeenSeq
        BY <3>2, <4>1, <4>3
      <4> QED
        BY <3>3, <3>4, <4>6, <4>7 DEF StreamInv
    <3> QED
      BY <1>2, <3>5, <3>6 DEF HandlerType
  <2> QED
    BY <2>4, <2>5
<1> QED
  BY <1>2, <1>5, <1>6 DEF SockType

\* The signet registers, refuses or greets a connection, or answers on it.
LEMMA PeerStream ==
    ASSUME ClientType, ControlInv, StreamInv, ClientType', NEW s \in Sockets,
           PeerRegisters(s) \/ PeerRefuses(s) \/ PeerGreets(s)
              \/ \E r \in Requests : PeerAnswers(s, r)
    PROVE  StreamInv'
<1>1. PICK k, k2 : k = sock[s] /\ k2 = sock'[s]
  OBVIOUS
<1>2. PICK L \in Nat : L = h.lastSeenSeq
  BY DEF ClientType, HandlerType
<1>3. PICK E1, E2 : E1 = excused \cup early /\ E2 = excused' \cup early'
  OBVIOUS
<1>4. /\ k \in SockType /\ k2 \in SockType /\ seq \in Nat /\ seq' \in Nat /\ L <= seq
      /\ UNCHANGED <<h, pushed>> /\ k.phase \in {"open", "closing"} /\ k2.phase = k.phase
      /\ k2.handled = k.handled /\ (\A t \in Sockets : t # s => sock'[t] = sock[t])
      /\ StreamOK(k, L, seq, E1)
  <2>1. k \in SockType /\ k2 \in SockType /\ seq \in Nat /\ seq' \in Nat
    BY <1>1 DEF ClientType
  <2>2. L <= seq /\ StreamOK(k, L, seq, E1)
    BY <1>1, <1>2, <1>3 DEF StreamInv
  <2> QED
    BY <1>1, <2>1, <2>2, PeerControl
<1>5. E1 \subseteq E2 /\ seq <= seq'
  <2>1. excused \subseteq excused' /\ early' = early
    BY DEF PeerRegisters, PeerRefuses, PeerGreets, PeerAnswers
  <2>2. seq' = seq \/ seq' = seq + 1
    BY DEF PeerRegisters, PeerRefuses, PeerGreets, PeerAnswers
  <2> QED
    BY <1>3, <1>4, <2>1, <2>2
<1>6. SUFFICES ASSUME k.phase = "open"
               PROVE  StreamOK(k2, L, seq', E2)
  <2>1. StreamOK(k2, L, seq', E2)
    BY <1>4, <1>6 DEF StreamOK
  <2> QED
    BY <1>1, <1>2, <1>3, <1>4, <1>5, <2>1, OneConnection
<1>7. CASE PeerRegisters(s)
  <2>1. PICK last, recovery :
          /\ last = k.lastSeen
          /\ sock' = [sock EXCEPT ![s].peer = "registered", ![s].recovery = recovery,
                   ![s].replay = IF last = 0 \/ recovery THEN <<>>
                                 ELSE [i \in 1 .. (seq - last) |-> last + i]]
          /\ excused' = IF last = 0 \/ recovery
                        THEN excused \cup (last + 1 .. seq) ELSE excused
          /\ k.peer = "asked" /\ seq' = seq
    BY <1>1, <1>7 DEF PeerRegisters
  <2>2. k.lastSeen = L
    BY <1>4, <1>6, <2>1 DEF StreamOK
  <2>3. /\ k2.peer = "registered" /\ k2.inbox = k.inbox /\ k2.recovery = recovery
        /\ k2.replay = IF last = 0 \/ recovery THEN <<>>
                       ELSE [i \in 1 .. (seq - last) |-> last + i]
    BY <1>1, <1>4, <2>1 DEF ClientType, SockType
  <2>4. \/ k2.replay = <<>> /\ (L + 1 .. seq) \subseteq E2
        \/ ~k2.recovery /\ k2.replay = [i \in 1 .. (seq - L) |-> L + i]
    BY <1>3, <2>1, <2>2, <2>3
  <2>5. StreamOK(k, L, seq, E2)
    BY <1>4, <1>5, ExcusesOnlyHelp
  <2> QED
    BY <1>4, <1>6, <2>1, <2>3, <2>4, <2>5, ReplayIsChosen
<1>8. CASE PeerRefuses(s)
  <2>1. sock' = [sock EXCEPT ![s].peer = "refused",
                             ![s].inbox = Append(sock[s].inbox, AuthErrorFrame)]
        /\ k.peer = "asked"
    BY <1>1, <1>8 DEF PeerRefuses, ClientType
  <2>2. k.inbox = <<>>
    BY <1>4, <1>6, <2>1 DEF StreamOK
  <2>3. k2.peer = "refused" /\ k2.inbox = Append(k.inbox, AuthErrorFrame)
    BY <1>1, <1>4, <2>1 DEF ClientType, SockType
  <2>4. k2.inbox = <<AuthErrorFrame>>
    BY <2>2, <2>3
  <2>5. \A i \in 1 .. Len(k2.inbox) : k2.inbox[i].type = "auth_error"
    BY <2>4 DEF AuthErrorFrame
  <2> QED
    BY <2>3, <2>5 DEF StreamOK
<1>9. CASE PeerGreets(s)
  <2>1. k.peer = "registered" /\ Chosen(k, L, seq, E1) /\ E2 = E1
    BY <1>1, <1>3, <1>4, <1>6, <1>9 DEF PeerGreets, StreamOK
  <2>2. k.inbox \in Seq(WireFrames) /\ k.replay \in Seq(Nat) /\ Authenticated \in WireFrames
        /\ \A n \in Nat : Event(n) \in WireFrames
    BY <1>4 DEF SockType, WireFrames, Authenticated, Event
  <2>3. PICK r : /\ k2.peer = "active" /\ r \in Seq(Nat)
                 /\ Len(k2.inbox) = Len(k.inbox) + 1 + Len(r)
                 /\ \A i \in 1 .. Len(k.inbox) : k2.inbox[i] = k.inbox[i]
                 /\ k2.inbox[Len(k.inbox) + 1] = Authenticated
                 /\ \A i \in 1 .. Len(r) : k2.inbox[Len(k.inbox) + 1 + i] = Event(r[i])
                 /\ \/ k.recovery /\ seq' = seq + 1 /\ r = <<seq + 1>>
                    \/ ~k.recovery /\ seq' = seq /\ r = k.replay
    <3>1. CASE k.recovery
      <4>1. PICK q : /\ q = k.inbox \o <<Authenticated, Event(seq + 1)>>
                     /\ sock' = [sock EXCEPT ![s].peer = "active", ![s].inbox = q]
                     /\ seq' = seq + 1
        BY <1>1, <1>9, <3>1 DEF PeerGreets, ClientType
      <4>2. k2.peer = "active" /\ k2.inbox = q
        BY <1>1, <1>4, <4>1 DEF ClientType, SockType
      <4>3. Event(seq + 1) \in WireFrames
        BY <1>4, <2>2
      <4>4. /\ Len(q) = Len(k.inbox) + 2 /\ q[Len(k.inbox) + 1] = Authenticated
            /\ q[Len(k.inbox) + 2] = Event(seq + 1)
            /\ \A i \in 1 .. Len(k.inbox) : q[i] = k.inbox[i]
        <5>1. PICK z \in Seq(WireFrames), x \in WireFrames, y \in WireFrames :
                 z = k.inbox /\ x = Authenticated /\ y = Event(seq + 1)
          BY <2>2, <4>3, Zenon
        <5>2. q = z \o <<x, y>>
          BY <4>1, <5>1, Zenon
        <5>3. /\ Len(q) = Len(z) + 2 /\ q[Len(z) + 1] = x /\ q[Len(z) + 2] = y
              /\ \A i \in 1 .. Len(z) : q[i] = z[i]
          BY <5>2, PairParts
        <5> QED
          BY <5>1, <5>3, Zenon
      <4>5. PICK r : r = <<seq + 1>>
        OBVIOUS
      <4>6. r \in Seq(Nat) /\ Len(r) = 1 /\ r[1] = seq + 1
        BY <1>4, <4>5
      <4>7. PICK n \in Nat : n = Len(k.inbox)
        BY <2>2
      <4>8. n + 2 = n + 1 + 1 /\ 1 .. Len(r) = {1}
        BY <4>6
      <4>9. /\ Len(k2.inbox) = Len(k.inbox) + 1 + Len(r)
            /\ \A i \in 1 .. Len(r) : k2.inbox[Len(k.inbox) + 1 + i] = Event(r[i])
        BY <4>2, <4>4, <4>6, <4>7, <4>8
      <4> QED
        BY <3>1, <4>1, <4>2, <4>4, <4>5, <4>6, <4>9, ZenonT(30)
    <3>2. CASE ~k.recovery
      <4>1. PICK q, e : /\ q = k.inbox \o <<Authenticated>> \o e
                        /\ e = [i \in DOMAIN k.replay |-> Event(k.replay[i])]
                        /\ sock' = [sock EXCEPT ![s].peer = "active", ![s].inbox = q]
                        /\ seq' = seq
        BY <1>1, <1>9, <3>2 DEF PeerGreets, ClientType
      <4>2. k2.peer = "active" /\ k2.inbox = q
        BY <1>1, <1>4, <4>1 DEF ClientType, SockType
      <4>3. /\ e \in Seq(WireFrames) /\ Len(e) = Len(k.replay)
            /\ \A i \in 1 .. Len(k.replay) : e[i] = Event(k.replay[i])
        <5>1. DOMAIN k.replay = 1 .. Len(k.replay) /\ Len(k.replay) \in Nat
              /\ \A i \in 1 .. Len(k.replay) : k.replay[i] \in Nat
          BY <2>2
        <5>2. e = [i \in 1 .. Len(k.replay) |-> Event(k.replay[i])]
          BY <4>1, <5>1
        <5>3. \A i \in 1 .. Len(k.replay) : Event(k.replay[i]) \in WireFrames
          BY <2>2, <5>1
        <5> QED
          BY <5>1, <5>2, <5>3
      <4>4. /\ Len(q) = Len(k.inbox) + 1 + Len(e)
            /\ q[Len(k.inbox) + 1] = Authenticated
            /\ \A i \in 1 .. Len(k.inbox) : q[i] = k.inbox[i]
            /\ \A i \in 1 .. Len(e) : q[Len(k.inbox) + 1 + i] = e[i]
        <5>1. PICK z \in Seq(WireFrames), x \in WireFrames : z = k.inbox /\ x = Authenticated
          BY <2>2, Zenon
        <5>2. q = z \o <<x>> \o e /\ e \in Seq(WireFrames)
          BY <4>1, <4>3, <5>1, Zenon
        <5>3. /\ Len(q) = Len(z) + 1 + Len(e) /\ q[Len(z) + 1] = x
              /\ \A i \in 1 .. Len(z) : q[i] = z[i]
              /\ \A i \in 1 .. Len(e) : q[Len(z) + 1 + i] = e[i]
          BY <5>2, ConcatParts
        <5> QED
          BY <5>1, <5>3, Zenon
      <4>5. /\ Len(k2.inbox) = Len(k.inbox) + 1 + Len(k.replay)
            /\ \A i \in 1 .. Len(k.replay) :
                  k2.inbox[Len(k.inbox) + 1 + i] = Event(k.replay[i])
        BY <4>2, <4>3, <4>4, Zenon
      <4> QED
        BY <2>2, <3>2, <4>1, <4>2, <4>4, <4>5, Zenon
    <3> QED
      BY <1>4, <3>1, <3>2 DEF SockType
  <2>7. ReplayFits(r, L, seq')
    <3>1. CASE r = <<seq + 1>> /\ seq' = seq + 1
      <4>1. Len(r) = 1 /\ r[1] = seq + 1
        BY <3>1
      <4> QED
        BY <1>4, <3>1, <4>1 DEF ReplayFits
    <3>2. CASE r = k.replay /\ seq' = seq
      BY <2>1, <3>2 DEF Chosen
    <3> QED
      BY <2>3, <3>1, <3>2
  <2>8. PICK m2 : m2 = seq'
    OBVIOUS
  <2>9. StreamOK(k2, L, m2, E1)
    BY <1>4, <1>6, <2>1, <2>3, <2>7, <2>8, GreetingIsSent
  <2> QED
    BY <2>1, <2>8, <2>9
<1>10. ASSUME NEW r \in Requests, PeerAnswers(s, r)
       PROVE  StreamOK(k2, L, seq', E2)
  <2>1. sock' = [sock EXCEPT ![s].inbox = Append(sock[s].inbox, Response(r))]
        /\ k.peer = "active" /\ seq' = seq /\ E2 = E1
    BY <1>1, <1>3, <1>10 DEF PeerAnswers, ClientType
  <2>2. k2.peer = k.peer /\ k2.inbox = Append(k.inbox, Response(r))
    BY <1>1, <1>4, <2>1 DEF ClientType, SockType
  <2> QED
    BY <1>4, <1>6, <2>1, <2>2, AnswerIsSent
<1> QED
  BY <1>7, <1>8, <1>9, <1>10

\* An event or a heartbeat reaches every registered connection.
LEMMA EventStream ==
    ASSUME ClientType, ControlInv, StreamInv, ClientType', PeerEvent
    PROVE  StreamInv'
<1>1. /\ seq \in Nat /\ h.lastSeenSeq \in Nat /\ h.lastSeenSeq <= seq /\ seq' = seq + 1
      /\ UNCHANGED <<h, pushed, excused, early>>
  BY DEF PeerEvent, ClientType, HandlerType, StreamInv
<1>2. ASSUME NEW s \in Sockets
      PROVE  StreamOK(sock'[s], h.lastSeenSeq, seq + 1, excused \cup early)
  <2>1. PICK k, k2 : k = sock[s] /\ k2 = sock'[s]
    OBVIOUS
  <2>2. k \in SockType /\ k2 \in SockType
        /\ StreamOK(k, h.lastSeenSeq, seq, excused \cup early)
    BY <2>1 DEF ClientType, StreamInv
  <2>3. k2 = IF k.phase = "open" /\ k.peer \in {"registered", "active"}
             THEN [k EXCEPT !.inbox = Append(k.inbox, Event(seq + 1))]
             ELSE k
    BY <2>1 DEF PeerEvent
  <2>4. CASE k.phase = "open" /\ k.peer \in {"registered", "active"}
    <3>1. k2 = [k EXCEPT !.inbox = Append(k.inbox, Event(seq + 1))]
      BY <2>3, <2>4
    <3>2. /\ k2.phase = k.phase /\ k2.peer = k.peer /\ k2.replay = k.replay
          /\ k2.recovery = k.recovery /\ k2.handled = k.handled
          /\ k2.inbox = Append(k.inbox, Event(seq + 1))
      BY <2>2, <3>1 DEF SockType
    <3>3. StreamOK(k2, h.lastSeenSeq, seq + 1, excused \cup early)
      BY <1>1, <2>2, <2>4, <3>2, EventIsSent
    <3> QED
      BY <2>1, <3>3
  <2>5. CASE ~(k.phase = "open" /\ k.peer \in {"registered", "active"})
    <3>1. k2 = k
      BY <2>3, <2>5
    <3>2. StreamOK(k, h.lastSeenSeq, seq + 1, excused \cup early)
      BY <2>2, <2>5 DEF StreamOK
    <3> QED
      BY <2>1, <3>1, <3>2
  <2> QED
    BY <2>4, <2>5
<1>3. \A s \in Sockets : StreamOK(sock'[s], h'.lastSeenSeq, seq', excused' \cup early')
  BY <1>1, <1>2
<1>4. h'.lastSeenSeq <= seq'
  BY <1>1
<1>5. StreamGapsAreExplained' /\ (~h'.done /\ pushed' # <<>> => pushed'[Len(pushed')] = h'.lastSeenSeq)
  BY <1>1 DEF StreamInv, StreamGapsAreExplained
<1> QED
  BY <1>3, <1>4, <1>5 DEF StreamInv

\* handler.ts: over any number of reconnections, timeouts, late close events and
\* calls of the harness, a session has one socket under way, its requests are
\* pending only while it is connected, and its stream carries each frame once
\* and in order and misses only frames that are accounted for.
THEOREM SessionIsAlwaysSound == Spec => []SessionIsSound
<1> DEFINE SessionInv == ClientType /\ ControlInv /\ StreamInv
<1>1. Init => SessionInv
  <2> SUFFICES ASSUME Init
               PROVE  SessionInv
    OBVIOUS
  <2>1. ClientType /\ ControlInv
    BY ClientStarts
  <2>2. /\ h.lastSeenSeq = 0 /\ seq = 0 /\ pushed = <<>> /\ Len(pushed) = 0
        /\ \A s \in Sockets : sock[s].phase = "idle"
    BY UnusedIsTyped DEF Init
  <2>3. 1 .. Len(pushed) - 1 = {}
    BY <2>2
  <2>4. StreamInv
    BY <2>2, <2>3 DEF StreamInv, StreamOK, StreamGapsAreExplained
  <2> QED
    BY <2>1, <2>4
<1>2. SessionInv /\ [Next]_vars => SessionInv'
  <2> SUFFICES ASSUME SessionInv, [Next]_vars
               PROVE  SessionInv'
    OBVIOUS
  <2>1. CASE UNCHANGED vars
    BY <2>1 DEF vars, ClientType, ControlInv, InUse, StreamInv, StreamGapsAreExplained
  <2>2. ASSUME NEW s \in Sockets, Connect(s) \/ ReconnectTimer(s)
        PROVE  SessionInv'
    BY <2>2, ConnectingSteps, QuietStream
  <2>3. ASSUME NEW s \in Sockets, SocketStep(s)
        PROVE  SessionInv'
    <3>1. CASE SocketOpen(s)
      BY <3>1, OpeningSteps, OpenStream
    <3>2. CASE SocketMessage(s)
      <4>1. PICK f \in WireFrames : f = Head(sock[s].inbox)
        BY <3>2, HeadAndTail DEF SocketMessage, ClientType, SockType
      <4>2. ClientType' /\ ControlInv'
        BY <3>2, <4>1, MessageControl
      <4> QED
        BY <3>2, <4>2, MessageStream
    <3>3. CASE \E retryable \in BOOLEAN : SocketClose(s, retryable)
      BY <3>3, CloseEventSteps, QuietStream
    <3>4. CASE AuthTimeout(s)
      BY <3>4, OpeningSteps, QuietStream
    <3> QED
      BY <2>3, <3>1, <3>2, <3>3, <3>4 DEF SocketStep
  <2>4. CASE Disconnect \/ MonitorFires
    <3>1. ClientType' /\ ControlInv'
      BY <2>4, HarnessSteps
    <3>2. CASE \E s \in Sockets : TRUE
      BY <2>4, <3>1, <3>2, QuietStream
    <3>3. CASE ~\E s \in Sockets : TRUE
      <4>1. UNCHANGED <<seq, pushed, excused, early>>
        BY <2>4 DEF Disconnect, MonitorFires
      <4>2. ~MonitorFires
        BY <3>3 DEF MonitorFires, ControlInv, ClientType
      <4>3. h' = [RejectAll(StopMonitor(h)) EXCEPT !.ws = NoSocket,
                                !.state = "closed", !.done = TRUE]
        BY <2>4, <4>2 DEF Disconnect
      <4>4. h'.lastSeenSeq = h.lastSeenSeq /\ h'.done
        BY <4>3 DEF RejectAll, StopMonitor, ClientType, HandlerType
      <4> QED
        BY <3>1, <3>3, <4>1, <4>4, StreamKept
    <3> QED
      BY <3>2, <3>3
  <2>5. CASE PeerEvent
    <3>1. ClientType' /\ ControlInv'
      BY <2>5, EventControl
    <3> QED
      BY <2>5, <3>1, EventStream
  <2>6. ASSUME NEW r \in Requests, ApiCall(r) \/ RequestTimeout(r)
        PROVE  SessionInv'
    <3>1. ClientType' /\ ControlInv'
      BY <2>6, RequestControl
    <3>2. PICK s \in Sockets : TRUE
      BY <2>6 DEF ApiCall, SendRequest, RequestTimeout, ControlInv, ClientType, HandlerType
    <3> QED
      BY <2>6, <3>1, <3>2, QuietStream
  <2>7. ASSUME NEW s \in Sockets,
               PeerRegisters(s) \/ PeerRefuses(s) \/ PeerGreets(s)
                 \/ \E r \in Requests : PeerAnswers(s, r)
        PROVE  SessionInv'
    <3>1. ClientType' /\ ControlInv'
      BY <2>7, PeerControl
    <3> QED
      BY <2>7, <3>1, PeerStream
  <2>8. CASE Next
    BY <2>2, <2>3, <2>4, <2>5, <2>6, <2>7, <2>8 DEF Next
  <2> QED
    BY <2>1, <2>8
<1>3. SessionInv => SessionIsSound
  <2> SUFFICES ASSUME SessionInv
               PROVE  SessionIsSound
    OBVIOUS
  <2>1. Cardinality(Live) <= 1
    <3>1. CASE Live = {}
      BY <3>1, FS_EmptySet
    <3>2. CASE Live # {}
      <4>1. PICK s : s \in Live
        BY <3>2
      <4>2. Live = {s}
        BY <4>1 DEF Live, ControlInv
      <4>3. Cardinality(Live) = 1
        BY <4>2, FS_Singleton
      <4> QED
        BY <4>3
    <3> QED
      BY <3>1, <3>2
  <2>2. OneSocketUnderWay
    BY <2>1, ClientAssumption DEF ControlInv, OneSocketUnderWay
  <2> QED
    BY <2>2 DEF SessionIsSound, StreamInv, ControlInv, PendingOnlyWhileConnected
<1> QED
  BY <1>1, <1>2, <1>3, PTL DEF Spec
=============================================================================
