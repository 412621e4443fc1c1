---------------------------- MODULE RuntimeProofs ----------------------------
(***************************************************************************)
(* Theorems about the daemon process, the network core and the read        *)
(* elevations of the admin.                                                *)
(***************************************************************************)
EXTENDS DaemonRuntime, SignetCore, ReadElevation, FiniteSetTheorems, WellFoundedInduction, TLAPS

(***************************************************************************)
(* The daemon.  What a process holds goes with how far its start has come, *)
(* so that the rollback of a failed step finds everything in the set of    *)
(* its transports, and nothing upgrades the core before the WebSocket      *)
(* server is up.                                                           *)
(***************************************************************************)
StartPhase == {"keys", "network", "ws", "admin", "http", "pid", "audit"}

PcLabels == StartPhase \cup
  {"none", "failed", "announce", "serving", "stop http", "stop admin", "stop ws", "stop core",
   "stop pid", "stop audit", "ended"}

DType ==
  /\ proc \in [Procs -> {"unborn", "alive", "dead"}]
  /\ rt \in [Procs -> {"created", "starting", "running", "draining", "stopped", "error"}]
  /\ pc \in [Procs -> PcLabels]
  /\ core \in [Procs -> {"idle", "local", "starting", "running", "error", "stopped"}]
  /\ up \in [Procs -> SUBSET Transports]
  /\ rotating \in [Procs -> BOOLEAN] /\ upgrading \in [Procs -> BOOLEAN]
  /\ refused \in [Procs -> BOOLEAN] /\ threw \in [Procs -> BOOLEAN]

ProcOK(p) ==
  /\ wsPort = p => "ws" \in up[p]
  /\ httpPort = p => "http" \in up[p]
  /\ upgrading[p] => core[p] = "starting"
  /\ proc[p] = "unborn" =>
       /\ up[p] = {} /\ core[p] = "idle" /\ ~rotating[p]
       /\ sockFile # p /\ pidFile # p
  /\ proc[p] = "alive" =>
       /\ pc[p] = "keys" => core[p] = "idle"
       /\ pc[p] \in {"keys", "network", "ws"} => up[p] = {} /\ ~upgrading[p]
       /\ pc[p] \in StartPhase => /\ ~rotating[p]
                                  /\ sockFile = p => "admin" \in up[p]
                                  /\ pc[p] # "audit" => pidFile # p
       /\ pc[p] = "failed" /\ ~threw[p] =>
            /\ up[p] = {} /\ ~rotating[p]
            /\ refused[p] \/ core[p] \in {"idle", "stopped"}
            /\ wsPort # p /\ httpPort # p /\ sockFile # p /\ pidFile # p

DaemonInv == DType /\ \A p \in Procs : ProcOK(p)

\* A step of the process p leaves every other process alone, but for the socket
\* path and the PID file it may take over or remove.
Apart(p) ==
  /\ \A q \in Procs : q # p =>
       /\ proc'[q] = proc[q] /\ rt'[q] = rt[q] /\ pc'[q] = pc[q] /\ core'[q] = core[q]
       /\ up'[q] = up[q] /\ rotating'[q] = rotating[q] /\ upgrading'[q] = upgrading[q]
       /\ refused'[q] = refused[q] /\ threw'[q] = threw[q]
  /\ wsPort' \in {wsPort, p, Nobody} /\ httpPort' \in {httpPort, p, Nobody}
  /\ sockFile' \in {sockFile, p, Nobody} /\ pidFile' \in {pidFile, p, Nobody}

ProcStep(p) ==
  \/ \E d \in BOOLEAN : Launch(p, d)
  \/ DStep(p) \/ ParentReads(p)
  \/ UpgradeBegins(p) \/ UpgradeEnds(p) \/ StopRequest(p) \/ Signal(p) \/ Crash(p)

\* The end of a process.
LEMMA ExitApart ==
    ASSUME DType, NEW p \in Procs, Exit(p),
           UNCHANGED <<rt, refused, threw, sockFile, pidFile>>
    PROVE  DType' /\ Apart(p) /\ proc'[p] = "dead" /\ wsPort' # p /\ httpPort' # p /\ ~upgrading'[p]
<1>1. DType'
  BY DEF DType, Exit, Goto, PcLabels
<1> QED
  BY <1>1, DaemonAssumption DEF DType, Exit, Goto, Apart

\* A rollback.
LEMMA RollbackApart ==
    ASSUME DType, NEW p \in Procs, Rollback(p), pidFile' \in {pidFile, Nobody}
    PROVE  /\ DType' /\ Apart(p) /\ proc' = proc /\ rotating' = rotating
           /\ pc'[p] = "failed" /\ rt'[p] = "error" /\ up'[p] = {} /\ upgrading' = upgrading
           /\ core'[p] = IF core[p] \in {"local", "running", "error"} THEN "stopped" ELSE core[p]
           /\ refused[p] \/ core[p] = "starting" => refused'[p]
           /\ "ws" \in up[p] => wsPort' # p
           /\ "ws" \notin up[p] => wsPort' = wsPort
           /\ "http" \in up[p] => httpPort' # p
           /\ "http" \notin up[p] => httpPort' = httpPort
           /\ "admin" \in up[p] => sockFile' # p
           /\ "admin" \notin up[p] => sockFile' = sockFile
<1>0. PICK v \in BOOLEAN : v = (refused[p] \/ core[p] = "starting")
  OBVIOUS
<1>1. refused' = [refused EXCEPT ![p] = v] /\ refused \in [Procs -> BOOLEAN]
  BY <1>0 DEF Rollback, StopCore, DType
<1>2. refused' \in [Procs -> BOOLEAN] /\ (\A q \in Procs : q # p => refused'[q] = refused[q])
      /\ refused'[p] = v
  BY <1>1
<1>3. DType'
  BY <1>2 DEF DType, Rollback, ReleaseAll, StopCore, Goto, PcLabels
<1>4. refused[p] \/ core[p] = "starting" => refused'[p]
  BY <1>0, <1>2
<1>5. Apart(p)
  BY <1>2 DEF DType, Rollback, ReleaseAll, StopCore, Goto, Apart
<1>6. /\ proc' = proc /\ rotating' = rotating /\ upgrading' = upgrading
      /\ pc'[p] = "failed" /\ rt'[p] = "error" /\ up'[p] = {}
      /\ core'[p] = IF core[p] \in {"local", "running", "error"} THEN "stopped" ELSE core[p]
  BY DEF DType, Rollback, ReleaseAll, StopCore, Goto
<1>7. /\ "ws" \in up[p] => wsPort' # p
      /\ "ws" \notin up[p] => wsPort' = wsPort
      /\ "http" \in up[p] => httpPort' # p
      /\ "http" \notin up[p] => httpPort' = httpPort
      /\ "admin" \in up[p] => sockFile' # p
      /\ "admin" \notin up[p] => sockFile' = sockFile
  BY DaemonAssumption DEF Rollback, ReleaseAll
<1> QED
  BY <1>3, <1>4, <1>5, <1>6, <1>7

\* What is left of the claims about a process that is dead.
LEMMA DeadIsOK ==
    ASSUME NEW p \in Procs, proc'[p] = "dead", wsPort' # p, httpPort' # p, ~upgrading'[p]
    PROVE  ProcOK(p)'
BY DEF ProcOK

\* A failed step of the start that rolls back gives everything back.
LEMMA RollbackReleases ==
    ASSUME DType, NEW p \in Procs, ProcOK(p), proc[p] = "alive", pc[p] \in StartPhase,
           Rollback(p), (pidFile' = pidFile /\ pc[p] # "audit") \/ pidFile' = Nobody
    PROVE  ProcOK(p)'
<1>1. /\ proc'[p] = "alive" /\ rotating' = rotating /\ ~rotating[p]
      /\ pc'[p] = "failed" /\ up'[p] = {} /\ upgrading' = upgrading
      /\ core'[p] = IF core[p] \in {"local", "running", "error"} THEN "stopped" ELSE core[p]
      /\ refused[p] \/ core[p] = "starting" => refused'[p]
  BY RollbackApart DEF ProcOK
<1>2. wsPort' # p /\ httpPort' # p /\ sockFile' # p
  BY RollbackApart DEF ProcOK
<1>3. pidFile' # p
  BY DaemonAssumption DEF ProcOK
<1>4. upgrading'[p] => core'[p] = "starting"
  BY <1>1 DEF ProcOK
<1>5. refused'[p] \/ core'[p] \in {"idle", "stopped"}
  BY <1>1 DEF DType
<1> QED
  BY <1>1, <1>2, <1>3, <1>4, <1>5 DEF ProcOK, StartPhase

\* The steps of a start keep what is claimed of its process.
LEMMA StartingKeepsOK ==
    ASSUME DType, NEW p \in Procs, ProcOK(p),
           \/ \E d \in BOOLEAN : Launch(p, d)
           \/ StartKeys(p) \/ StartNetwork(p)
           \/ StartTransport(p, "ws", "admin") \/ StartTransport(p, "admin", "http")
           \/ StartTransport(p, "http", "pid")
           \/ StartPid(p) \/ StartAudit(p) \/ Announce(p)
    PROVE  DType' /\ Apart(p) /\ ProcOK(p)'
<1>1. ASSUME NEW d \in BOOLEAN, Launch(p, d)
      PROVE  DType' /\ Apart(p) /\ ProcOK(p)'
  <2>1. DType' /\ Apart(p) /\ proc'[p] = "alive" /\ pc'[p] = "keys"
    BY <1>1 DEF DType, Apart, Launch, Goto, transportVars, PcLabels, StartPhase
  <2>2. ~upgrading[p]
    BY <1>1 DEF ProcOK, Launch
  <2> QED
    BY <1>1, <2>1, <2>2 DEF ProcOK, Launch, transportVars
<1>2. CASE StartKeys(p)
  <2>1. DType' /\ Apart(p)
    BY <1>2, ZenonT(30) DEF DType, Apart, StartKeys, Quiet, Goto, transportVars, PcLabels, StartPhase
  <2>2. /\ proc'[p] = "alive" /\ proc[p] = "alive" /\ pc[p] = "keys" /\ pc'[p] \in {"failed", "network", "ws"}
        /\ pc'[p] = "failed" => core'[p] = core[p]
        /\ UNCHANGED <<up, rotating, upgrading, wsPort, httpPort, sockFile, pidFile>>
    BY <1>2 DEF DType, StartKeys, At, Quiet, Goto, transportVars
  <2> QED
    BY <2>1, <2>2 DEF ProcOK, StartPhase
<1>3. CASE StartNetwork(p)
  <2>1. /\ \/ core' = [core EXCEPT ![p] = "running"] \/ core' = core
        /\ \/ rt' = [rt EXCEPT ![p] = "error"] \/ rt' = rt
        /\ \/ threw' = [threw EXCEPT ![p] = TRUE] \/ threw' = threw
        /\ \E l \in {"ws", "failed"} : pc' = [pc EXCEPT ![p] = l]
        /\ UNCHANGED <<proc, up, rotating, upgrading, refused, wsPort, httpPort, sockFile, pidFile>>
    BY <1>3 DEF StartNetwork, Goto, transportVars
  <2>3. DType'
    <3>1. core' \in [Procs -> {"idle", "local", "starting", "running", "error", "stopped"}]
      BY <2>1 DEF DType
    <3>2. rt' \in [Procs -> {"created", "starting", "running", "draining", "stopped", "error"}]
      BY <2>1 DEF DType
    <3>3. threw' \in [Procs -> BOOLEAN]
      BY <2>1 DEF DType
    <3>4. pc' \in [Procs -> PcLabels]
      BY <2>1 DEF DType, PcLabels, StartPhase
    <3> QED
      BY <2>1, <3>1, <3>2, <3>3, <3>4, Zenon DEF DType
  <2>4. Apart(p)
    BY <2>1 DEF DType, Apart
  <2>2. /\ proc'[p] = "alive" /\ proc[p] = "alive" /\ pc[p] = "network" /\ pc'[p] \in {"failed", "ws"}
        /\ pc'[p] = "failed" => threw'[p]
        /\ UNCHANGED <<up, rotating, upgrading, wsPort, httpPort, sockFile, pidFile>>
    BY <1>3 DEF DType, StartNetwork, At, Goto, transportVars
  <2> QED
    BY <2>2, <2>3, <2>4 DEF ProcOK, StartPhase
<1>4. ASSUME NEW t \in Transports, NEW next \in {"admin", "http", "pid"}, StartTransport(p, t, next)
      PROVE  DType' /\ Apart(p) /\ ProcOK(p)'
  <2>1. At(p, t) /\ t \in StartPhase /\ t # "audit"
    BY <1>4 DEF StartTransport, Transports, StartPhase
  <2>2. CASE Rollback(p) /\ pidFile' = pidFile
    BY <2>1, <2>2, RollbackApart, RollbackReleases DEF At
  <2>3. CASE ~(Rollback(p) /\ pidFile' = pidFile)
    <3>1. /\ IF t = "admin" THEN BindAdmin(p) /\ UNCHANGED <<wsPort, httpPort>>
             ELSE BindPort(p, t) /\ UNCHANGED sockFile
          /\ Goto(p, next) /\ Quiet(p) /\ UNCHANGED <<rt, core, pidFile, audit>>
      BY <1>4, <2>3 DEF StartTransport
    <3>2. /\ up' = [up EXCEPT ![p] = up[p] \cup {t}]
          /\ wsPort' = IF t = "ws" THEN p ELSE wsPort
          /\ httpPort' = IF t = "http" THEN p ELSE httpPort
          /\ sockFile' = IF t = "admin" THEN p ELSE sockFile
      BY <3>1 DEF BindAdmin, BindPort, Transports
    <3>3. up' \in [Procs -> SUBSET Transports] /\ up'[p] = up[p] \cup {t}
          /\ \A q \in Procs : q # p => up'[q] = up[q]
      BY <3>2 DEF DType
    <3>4. DType' /\ Apart(p) /\ pc'[p] = next /\ proc' = proc
      BY <3>1, <3>2, <3>3 DEF DType, Apart, Quiet, Goto, PcLabels, StartPhase
    <3> QED
      BY <2>1, <3>1, <3>2, <3>3, <3>4 DEF ProcOK, StartPhase, Quiet, At
  <2> QED
    BY <2>2, <2>3
<1>5. CASE StartPid(p)
  <2>1. At(p, "pid")
    BY <1>5 DEF StartPid
  <2>2. CASE Rollback(p) /\ pidFile' = pidFile
    BY <2>1, <2>2, RollbackApart, RollbackReleases DEF At, StartPhase
  <2>3. CASE ~(Rollback(p) /\ pidFile' = pidFile)
    <3>1. /\ WritePid(p) /\ Goto(p, "audit")
          /\ Quiet(p) /\ UNCHANGED <<rt, core, up, wsPort, httpPort, sockFile, audit>>
      BY <1>5, <2>3 DEF StartPid
    <3>2. DType' /\ Apart(p) /\ pc'[p] = "audit"
      BY <3>1 DEF DType, Apart, Quiet, Goto, WritePid, PcLabels, StartPhase
    <3> QED
      BY <2>1, <3>1, <3>2 DEF ProcOK, StartPhase, Quiet, At
  <2> QED
    BY <2>2, <2>3
<1>6. CASE StartAudit(p)
  <2>1. At(p, "audit")
    BY <1>6 DEF StartAudit
  <2>2. CASE Rollback(p) /\ pidFile' = Nobody
    BY <2>1, <2>2, RollbackApart, RollbackReleases DEF At, StartPhase
  <2>3. CASE ~(Rollback(p) /\ pidFile' = Nobody)
    <3>1. /\ rotating' = [rotating EXCEPT ![p] = TRUE]
          /\ rt' = [rt EXCEPT ![p] = "running"] /\ Goto(p, "announce")
          /\ UNCHANGED <<proc, core, up, upgrading, refused, threw, transportVars>>
      BY <1>6, <2>3 DEF StartAudit, CleanupPid
    <3>2. DType' /\ Apart(p) /\ pc'[p] = "announce"
      BY <3>1 DEF DType, Apart, Goto, transportVars, PcLabels
    <3> QED
      BY <2>1, <3>1, <3>2 DEF ProcOK, StartPhase, At, transportVars
  <2> QED
    BY <2>2, <2>3
<1>7. CASE Announce(p)
  <2>1. CASE At(p, "failed") /\ Exit(p)
    BY <1>7, <2>1, ExitApart, DeadIsOK DEF Announce, At
  <2>2. CASE ~(At(p, "failed") /\ Exit(p))
    <3>1. /\ Goto(p, "serving")
          /\ UNCHANGED <<proc, rt, core, up, rotating, upgrading, refused, threw, transportVars>>
      BY <1>7, <2>2 DEF Announce
    <3>2. DType' /\ Apart(p) /\ pc'[p] = "serving"
      BY <3>1 DEF DType, Apart, Goto, transportVars, PcLabels
    <3> QED
      BY <3>1, <3>2 DEF ProcOK, StartPhase, transportVars
  <2> QED
    BY <2>1, <2>2
<1>8. /\ \A t \in {"ws", "admin", "http"} : t \in Transports
      /\ \A t \in {"admin", "http", "pid"} : t \in {"admin", "http", "pid"}
  BY DEF Transports
<1> QED
  BY <1>1, <1>2, <1>3, <1>4, <1>5, <1>6, <1>7, <1>8

\* The steps of a process that serves or shuts down keep what is claimed of it.
LEMMA ServingKeepsOK ==
    ASSUME DType, NEW p \in Procs, ProcOK(p),
           \/ StopTransport(p, "http", "stop http", "stop admin")
           \/ StopTransport(p, "admin", "stop admin", "stop ws")
           \/ StopTransport(p, "ws", "stop ws", "stop core")
           \/ ShutdownCore(p) \/ ShutdownPid(p) \/ ShutdownAudit(p) \/ HandlerExits(p)
           \/ ParentReads(p) \/ UpgradeBegins(p) \/ UpgradeEnds(p) \/ StopRequest(p)
           \/ Signal(p) \/ Crash(p)
    PROVE  DType' /\ Apart(p) /\ ProcOK(p)'
<1>0. ASSUME Exit(p), UNCHANGED <<rt, refused, threw, sockFile, pidFile>>
      PROVE  DType' /\ Apart(p) /\ ProcOK(p)'
  BY <1>0, ExitApart, DeadIsOK
<1>1. ASSUME NEW t \in Transports, NEW here, NEW next \in {"stop admin", "stop ws", "stop core"},
             StopTransport(p, t, here, next)
      PROVE  DType' /\ Apart(p) /\ ProcOK(p)'
  <2>1. /\ Goto(p, next) /\ proc[p] = "alive"
        /\ UNCHANGED <<proc, rt, core, rotating, upgrading, refused, threw, pidFile>>
        /\ ReleaseAll(p, {t}) \/ UNCHANGED <<up, wsPort, httpPort, sockFile>>
    BY <1>1 DEF StopTransport, At
  <2>2. up' \in [Procs -> SUBSET Transports] /\ \A q \in Procs : q # p => up'[q] = up[q]
    <3>1. up' = [up EXCEPT ![p] = up[p] \ {t}] \/ up' = up
      BY <2>1 DEF ReleaseAll
    <3> QED
      BY <3>1, ZenonT(30) DEF DType
  <2>3. /\ (wsPort' = wsPort /\ ("ws" \in up[p] => "ws" \in up'[p])) \/ wsPort' # p
        /\ (httpPort' = httpPort /\ ("http" \in up[p] => "http" \in up'[p])) \/ httpPort' # p
        /\ wsPort' \in {wsPort, p, Nobody} /\ httpPort' \in {httpPort, p, Nobody}
        /\ sockFile' \in {sockFile, p, Nobody}
    <3>1. CASE ReleaseAll(p, {t})
      <4>1. up'[p] = up[p] \ {t}
        BY <3>1 DEF DType, ReleaseAll
      <4>2. /\ wsPort' = IF t = "ws" /\ wsPort = p THEN Nobody ELSE wsPort
            /\ httpPort' = IF t = "http" /\ httpPort = p THEN Nobody ELSE httpPort
            /\ sockFile' \in {sockFile, Nobody}
        BY <3>1 DEF ReleaseAll
      <4> QED
        BY <4>1, <4>2, DaemonAssumption
    <3>2. CASE UNCHANGED <<up, wsPort, httpPort, sockFile>>
      BY <3>2
    <3> QED
      BY <2>1, <3>1, <3>2
  <2>4. DType' /\ Apart(p) /\ pc'[p] = next
    BY <2>1, <2>2, <2>3 DEF DType, Apart, Goto, PcLabels
  <2> QED
    BY <2>1, <2>3, <2>4 DEF ProcOK, StartPhase
<1>2. CASE ShutdownCore(p)
  <2>1. /\ StopCore(p) /\ Goto(p, "stop pid") /\ proc[p] = "alive"
        /\ UNCHANGED <<proc, rt, up, rotating, upgrading, threw, transportVars>>
    BY <1>2 DEF ShutdownCore, At
  <2>2. PICK v \in BOOLEAN : v = (refused[p] \/ core[p] = "starting")
    OBVIOUS
  <2>3. refused' = [refused EXCEPT ![p] = v] /\ refused \in [Procs -> BOOLEAN]
    BY <2>1, <2>2 DEF StopCore, DType
  <2>4. refused' \in [Procs -> BOOLEAN] /\ (\A q \in Procs : q # p => refused'[q] = refused[q])
    BY <2>3
  <2>5. DType' /\ Apart(p) /\ pc'[p] = "stop pid" /\ (core[p] = "starting" => core'[p] = "starting")
    BY <2>1, <2>4 DEF DType, Apart, StopCore, Goto, transportVars, PcLabels
  <2> QED
    BY <2>1, <2>5 DEF ProcOK, StartPhase, transportVars
<1>3. CASE ShutdownPid(p)
  <2>1. /\ Goto(p, "stop audit") /\ proc[p] = "alive" /\ pidFile' \in {pidFile, Nobody}
        /\ UNCHANGED <<proc, rt, core, up, rotating, upgrading, refused, threw, wsPort, httpPort,
                       sockFile>>
    BY <1>3 DEF ShutdownPid, At, CleanupPid
  <2>2. DType' /\ Apart(p) /\ pc'[p] = "stop audit"
    BY <2>1 DEF DType, Apart, Goto, PcLabels
  <2> QED
    BY <2>1, <2>2 DEF ProcOK, StartPhase
<1>4. CASE ShutdownAudit(p)
  <2>1. /\ Goto(p, "ended") /\ proc[p] = "alive"
        /\ \E s \in {"error", "stopped"} : rt' = [rt EXCEPT ![p] = s]
        /\ UNCHANGED <<proc, core, up, rotating, upgrading, refused, threw, transportVars>>
    BY <1>4 DEF ShutdownAudit, At
  <2>2. DType' /\ Apart(p) /\ pc'[p] = "ended"
    <3>1. PICK s \in {"error", "stopped"} : rt' = [rt EXCEPT ![p] = s]
      BY <2>1
    <3> QED
      BY <2>1, <3>1 DEF DType, Apart, Goto, PcLabels, transportVars
  <2> QED
    BY <2>1, <2>2 DEF ProcOK, StartPhase, transportVars
<1>5. CASE ParentReads(p)
  <2>1. UNCHANGED <<proc, rt, pc, core, up, rotating, upgrading, refused, threw, transportVars>>
    BY <1>5 DEF ParentReads
  <2> QED
    BY <2>1 DEF DType, Apart, ProcOK, transportVars
<1>6. CASE UpgradeBegins(p)
  <2>1. /\ proc[p] = "alive" /\ "ws" \in up[p]
        /\ upgrading' = [upgrading EXCEPT ![p] = TRUE]
        /\ core' = [core EXCEPT ![p] = "starting"]
        /\ UNCHANGED <<proc, rt, pc, up, rotating, refused, threw, transportVars>>
    BY <1>6 DEF UpgradeBegins
  <2>2. DType' /\ Apart(p) /\ core'[p] = "starting"
    BY <2>1 DEF DType, Apart, transportVars
  <2> QED
    BY <2>1, <2>2 DEF ProcOK, transportVars
<1>7. CASE UpgradeEnds(p)
  <2>1. /\ upgrading[p] /\ upgrading' = [upgrading EXCEPT ![p] = FALSE]
        /\ \E s \in {"running", "local"} : core' = [core EXCEPT ![p] = s]
        /\ UNCHANGED <<proc, rt, pc, up, rotating, refused, threw, transportVars>>
    BY <1>7 DEF UpgradeEnds
  <2>2. DType' /\ Apart(p) /\ ~upgrading'[p]
    <3>1. PICK s \in {"running", "local"} : core' = [core EXCEPT ![p] = s]
      BY <2>1
    <3> QED
      BY <2>1, <3>1 DEF DType, Apart, transportVars
  <2>3. core[p] = "starting"
    BY <2>1 DEF ProcOK
  <2> QED
    BY <2>1, <2>2, <2>3 DEF ProcOK, transportVars
<1>8. ASSUME BeginShutdown(p), proc[p] = "alive",
             UNCHANGED <<proc, core, up, upgrading, refused, threw, transportVars>>
      PROVE  DType' /\ Apart(p) /\ ProcOK(p)'
  <2>1. DType' /\ Apart(p) /\ pc'[p] = "stop http"
    BY <1>8 DEF DType, Apart, BeginShutdown, Goto, transportVars, PcLabels
  <2> QED
    BY <1>8, <2>1 DEF ProcOK, StartPhase, transportVars
<1>9. CASE StopRequest(p)
  BY <1>8, <1>9 DEF StopRequest
<1>10. CASE Signal(p)
  BY <1>0, <1>8, <1>10 DEF Signal
<1>11. CASE Crash(p)
  BY <1>0, <1>11 DEF Crash
<1>12. CASE HandlerExits(p)
  BY <1>0, <1>12 DEF HandlerExits
<1>13. \A t \in {"ws", "admin", "http"} : t \in Transports
  BY DEF Transports
<1> QED
  BY <1>1, <1>2, <1>3, <1>4, <1>5, <1>6, <1>7, <1>9, <1>10, <1>11, <1>12, <1>13

\* Every step of a process keeps the invariant.
LEMMA ProcStepsKeepInv ==
    ASSUME DaemonInv, NEW p \in Procs, ProcStep(p)
    PROVE  DaemonInv' /\ Apart(p)
<1>1. DType' /\ Apart(p) /\ ProcOK(p)'
  BY StartingKeepsOK, ServingKeepsOK DEF DaemonInv, ProcStep, DStep
<1>2. ASSUME NEW q \in Procs, q # p
      PROVE  ProcOK(q)'
  <2>1. ProcOK(q) /\ q # Nobody
    BY DaemonAssumption DEF DaemonInv
  <2>2. /\ proc'[q] = proc[q] /\ pc'[q] = pc[q] /\ core'[q] = core[q]
        /\ up'[q] = up[q] /\ rotating'[q] = rotating[q] /\ upgrading'[q] = upgrading[q]
        /\ refused'[q] = refused[q] /\ threw'[q] = threw[q]
        /\ wsPort' = q => wsPort = q
        /\ httpPort' = q => httpPort = q
        /\ sockFile' = q => sockFile = q
        /\ pidFile' = q => pidFile = q
    BY <1>1, <1>2, <2>1 DEF Apart
  <2> QED
    BY <2>1, <2>2 DEF ProcOK
<1> QED
  BY <1>1, <1>2 DEF DaemonInv

\* The invariant of the daemon.
LEMMA DaemonKeepsInv == DaemonSpec => []DaemonInv
<1>1. DInit => DaemonInv
  <2> SUFFICES ASSUME DInit PROVE DaemonInv
    OBVIOUS
  <2>1. DType
    BY DEF DInit, DType, PcLabels
  <2>2. ASSUME NEW p \in Procs PROVE ProcOK(p)
    BY DaemonAssumption DEF DInit, ProcOK
  <2> QED
    BY <2>1, <2>2 DEF DaemonInv
<1>2. DaemonInv /\ [DNext]_dvars => DaemonInv'
  <2> SUFFICES ASSUME DaemonInv, [DNext]_dvars PROVE DaemonInv'
    OBVIOUS
  <2>1. CASE DNext
    BY <2>1, ProcStepsKeepInv DEF DNext, ProcStep
  <2>2. CASE UNCHANGED dvars
    BY <2>2 DEF dvars, DaemonInv, DType, ProcOK
  <2> QED
    BY <2>1, <2>2
<1> QED
  BY <1>1, <1>2, PTL DEF DaemonSpec

\* A start that fails has given back its ports, its socket, the PID file and the
\* core, however many processes are started side by side.
THEOREM FailureAlwaysReleases == DaemonSpec => []FailureReleases
<1>1. DaemonInv => FailureReleases
  BY DEF DaemonInv, FailureReleases, ProcOK, At
<1> QED
  BY <1>1, DaemonKeepsInv, PTL

(***************************************************************************)
(* One process at a time: how far its start has come says which ports and  *)
(* files are its own, and running comes after the last of them.            *)
(***************************************************************************)
ReachOK(p) ==
  proc[p] = "alive" =>
    /\ pc[p] \in {"admin", "http", "pid", "audit", "announce", "serving"} => wsPort = p
    /\ pc[p] \in {"http", "pid", "audit", "announce", "serving"} => sockFile = p
    /\ pc[p] \in {"pid", "audit", "announce", "serving"} => httpPort = p
    /\ pc[p] \in {"audit", "announce", "serving"} => pidFile = p
    /\ rt[p] = "running" => pc[p] \in {"announce", "serving"}

OneAlive == \A p, q \in Procs : proc[p] = "alive" /\ proc[q] = "alive" => p = q

ReachInv == OneAlive /\ \A p \in Procs : ReachOK(p)

\* A step that leaves a process which is not running outside the steps of a good
\* start.
LEMMA OutOfReach ==
    ASSUME NEW p \in Procs,
           proc'[p] = "dead" \/ (rt'[p] # "running" /\ pc'[p] \notin
             {"admin", "http", "pid", "audit", "announce", "serving"})
    PROVE  ReachOK(p)'
BY DEF ReachOK

\* The steps of the process that is alive.
LEMMA AliveStepsReach ==
    ASSUME DType, NEW p \in Procs, ReachOK(p), proc[p] = "alive", ProcStep(p)
    PROVE  ReachOK(p)'
<1>0. ASSUME Exit(p) PROVE ReachOK(p)'
  <2>1. proc'[p] = "dead"
    BY <1>0 DEF Exit, DType
  <2> QED
    BY <2>1, OutOfReach
<1>1. ASSUME Rollback(p) PROVE ReachOK(p)'
  <2>1. rt'[p] = "error" /\ pc'[p] = "failed"
    BY <1>1 DEF Rollback, Goto, DType
  <2> QED
    BY <2>1, OutOfReach
<1>2. CASE \E d \in BOOLEAN : Launch(p, d)
  BY <1>2 DEF Launch
<1>3. CASE StartKeys(p)
  <2>1. rt'[p] # "running" /\ pc'[p] \in {"failed", "network", "ws"}
    BY <1>3 DEF StartKeys, At, Goto, DType, ReachOK
  <2> QED
    BY <2>1, OutOfReach
<1>4. CASE StartNetwork(p)
  <2>1. rt'[p] # "running" /\ pc'[p] \in {"failed", "ws"}
    BY <1>4 DEF StartNetwork, At, Goto, DType, ReachOK
  <2> QED
    BY <2>1, OutOfReach
<1>5. CASE StartTransport(p, "ws", "admin")
  <2>1. CASE Rollback(p)
    BY <1>1, <2>1
  <2>2. CASE ~Rollback(p)
    <3>1. wsPort' = p /\ pc' = [pc EXCEPT ![p] = "admin"] /\ rt' = rt /\ pc[p] = "ws"
      BY <1>5, <2>2 DEF StartTransport, BindPort, Goto, At
    <3> QED
      BY <3>1 DEF DType, ReachOK
  <2> QED
    BY <2>1, <2>2
<1>6. CASE StartTransport(p, "admin", "http")
  <2>1. CASE Rollback(p)
    BY <1>1, <2>1
  <2>2. CASE ~Rollback(p)
    <3>1. sockFile' = p /\ pc' = [pc EXCEPT ![p] = "http"] /\ rt' = rt /\ pc[p] = "admin"
          /\ wsPort' = wsPort
      BY <1>6, <2>2 DEF StartTransport, BindAdmin, Goto, At
    <3> QED
      BY <3>1 DEF DType, ReachOK
  <2> QED
    BY <2>1, <2>2
<1>7. CASE StartTransport(p, "http", "pid")
  <2>1. CASE Rollback(p)
    BY <1>1, <2>1
  <2>2. CASE ~Rollback(p)
    <3>1. httpPort' = p /\ pc' = [pc EXCEPT ![p] = "pid"] /\ rt' = rt /\ pc[p] = "http"
          /\ wsPort' = wsPort /\ sockFile' = sockFile
      BY <1>7, <2>2 DEF StartTransport, BindPort, Goto, At
    <3> QED
      BY <3>1 DEF DType, ReachOK
  <2> QED
    BY <2>1, <2>2
<1>8. CASE StartPid(p)
  <2>1. CASE Rollback(p)
    BY <1>1, <2>1
  <2>2. CASE ~Rollback(p)
    <3>1. pidFile' = p /\ pc' = [pc EXCEPT ![p] = "audit"] /\ rt' = rt /\ pc[p] = "pid"
          /\ wsPort' = wsPort /\ sockFile' = sockFile /\ httpPort' = httpPort
      BY <1>8, <2>2 DEF StartPid, WritePid, Goto, At
    <3> QED
      BY <3>1 DEF DType, ReachOK
  <2> QED
    BY <2>1, <2>2
<1>9. CASE StartAudit(p)
  <2>1. CASE Rollback(p)
    BY <1>1, <2>1
  <2>2. CASE ~Rollback(p)
    <3>1. pc' = [pc EXCEPT ![p] = "announce"] /\ pc[p] = "audit" /\ UNCHANGED transportVars
      BY <1>9, <2>2 DEF StartAudit, Goto, At
    <3> QED
      BY <3>1 DEF DType, ReachOK, transportVars
  <2> QED
    BY <2>1, <2>2
<1>10. CASE Announce(p)
  <2>1. CASE Exit(p)
    BY <1>0, <2>1
  <2>2. CASE ~Exit(p)
    <3>1. pc' = [pc EXCEPT ![p] = "serving"] /\ pc[p] = "announce" /\ UNCHANGED <<rt, transportVars>>
      BY <1>10, <2>2 DEF Announce, Goto, At
    <3> QED
      BY <3>1 DEF DType, ReachOK, transportVars
  <2> QED
    BY <2>1, <2>2
<1>11. CASE \/ ParentReads(p) \/ UpgradeBegins(p) \/ UpgradeEnds(p)
  <2>1. UNCHANGED <<proc, rt, pc, transportVars>>
    BY <1>11 DEF ParentReads, UpgradeBegins, UpgradeEnds
  <2> QED
    BY <2>1 DEF ReachOK, transportVars
<1>12. ASSUME BeginShutdown(p) PROVE ReachOK(p)'
  <2>1. rt'[p] = "draining" /\ pc'[p] = "stop http"
    BY <1>12 DEF BeginShutdown, Goto, DType
  <2> QED
    BY <2>1, OutOfReach
<1>13. CASE StopRequest(p) \/ Signal(p) \/ Crash(p) \/ HandlerExits(p)
  BY <1>0, <1>12, <1>13 DEF StopRequest, Signal, Crash, HandlerExits
<1>14. ASSUME NEW t, NEW here \in {"stop http", "stop admin", "stop ws"},
              NEW next \in {"stop admin", "stop ws", "stop core"},
              StopTransport(p, t, here, next)
       PROVE  ReachOK(p)'
  <2>1. pc[p] = here /\ pc' = [pc EXCEPT ![p] = next] /\ rt' = rt
    BY <1>14 DEF StopTransport, Goto, At
  <2>2. rt'[p] # "running" /\ pc'[p] = next
    BY <2>1 DEF DType, ReachOK
  <2> QED
    BY <2>2, OutOfReach
<1>15. CASE ShutdownCore(p) \/ ShutdownPid(p)
  <2>1. pc[p] \in {"stop core", "stop pid"} /\ rt' = rt
        /\ \E l \in {"stop pid", "stop audit"} : pc' = [pc EXCEPT ![p] = l]
    BY <1>15 DEF ShutdownCore, ShutdownPid, Goto, At
  <2>2. rt'[p] # "running" /\ pc'[p] \in {"stop pid", "stop audit"}
    BY <2>1 DEF DType, ReachOK
  <2> QED
    BY <2>2, OutOfReach
<1>16. CASE ShutdownAudit(p)
  <2>1. pc' = [pc EXCEPT ![p] = "ended"]
        /\ \E s \in {"error", "stopped"} : rt' = [rt EXCEPT ![p] = s]
    BY <1>16 DEF ShutdownAudit, Goto
  <2>2. rt'[p] # "running" /\ pc'[p] = "ended"
    BY <2>1 DEF DType
  <2> QED
    BY <2>2, OutOfReach
<1> QED
  BY <1>2, <1>3, <1>4, <1>5, <1>6, <1>7, <1>8, <1>9, <1>10, <1>11, <1>13, <1>14, <1>15, <1>16
  DEF ProcStep, DStep

\* Whatever crashed before and left its files behind, a running daemon that is alone
\* on its machine has the ports, the socket path and the PID file.
THEOREM RunningIsAlwaysReachable ==
    ASSUME ~Overlap
    PROVE  DaemonSpec => []RunningIsReachable
<1>1. DInit => ReachInv
  BY DEF ReachInv, DInit, OneAlive, ReachOK
<1>2. ASSUME DaemonInv, ReachInv, NEW p \in Procs, ProcStep(p)
      PROVE  OneAlive' /\ \A q \in Procs : ReachOK(q)'
  <2>1. Apart(p) /\ DType /\ DType' /\ OneAlive /\ \A q \in Procs : ReachOK(q)
    BY <1>2, ProcStepsKeepInv DEF ReachInv, DaemonInv
  <2>2. CASE proc[p] = "alive"
    <3>1. ReachOK(p)'
      BY <1>2, <2>1, <2>2, AliveStepsReach
    <3>2. \A q \in Procs : q # p => proc'[q] # "alive"
      BY <2>1, <2>2 DEF OneAlive, Apart
    <3> QED
      BY <3>1, <3>2 DEF OneAlive, ReachOK
  <2>3. CASE proc[p] # "alive" /\ UNCHANGED <<proc, rt, pc, transportVars>>
    BY <2>1, <2>3 DEF OneAlive, ReachOK, transportVars
  <2>4. ASSUME NEW d \in BOOLEAN, Launch(p, d)
        PROVE  OneAlive' /\ \A q \in Procs : ReachOK(q)'
    <3>1. /\ \A q \in Procs : proc[q] # "alive"
          /\ pc' = [pc EXCEPT ![p] = "keys"] /\ rt' = [rt EXCEPT ![p] = "starting"]
      BY <2>4 DEF Launch, Goto
    <3>2. \A q \in Procs : q # p => proc'[q] # "alive"
      BY <2>1, <3>1 DEF Apart
    <3>3. ReachOK(p)'
      BY <2>1, <3>1, OutOfReach DEF DType
    <3> QED
      BY <3>2, <3>3 DEF OneAlive, ReachOK
  <2>5. CASE proc[p] # "alive" /\ ~(\E d \in BOOLEAN : Launch(p, d))
    <3>1. ParentReads(p) \/ UpgradeEnds(p)
      BY <1>2, <2>5 DEF ProcStep, DStep, StartKeys, StartNetwork, StartTransport, StartPid, StartAudit,
         Announce, StopTransport, ShutdownCore, ShutdownPid, ShutdownAudit, HandlerExits, At,
         UpgradeBegins, StopRequest, Signal, Crash
    <3>2. UNCHANGED <<proc, rt, pc, transportVars>>
      BY <3>1 DEF ParentReads, UpgradeEnds
    <3> QED
      BY <2>3, <2>5, <3>2
  <2> QED
    BY <2>2, <2>4, <2>5
<1>3. ReachInv /\ UNCHANGED dvars => ReachInv'
  BY DEF ReachInv, dvars, OneAlive, ReachOK
<1>4. DaemonInv /\ ReachInv /\ [DNext]_dvars => ReachInv'
  BY <1>2, <1>3 DEF DNext, ProcStep, ReachInv
<1>5. ReachInv => RunningIsReachable
  BY DEF ReachInv, ReachOK, RunningIsReachable
<1> QED
  BY <1>1, <1>4, <1>5, DaemonKeepsInv, PTL DEF DaemonSpec

(***************************************************************************)
(* The core.  An identity that was handled by one operation at a time is   *)
(* as far as that operation has brought it: nothing open until its client  *)
(* syncs, then one more stream per step, in a core that has not stopped or *)
(* restarted meanwhile.                                                    *)
(***************************************************************************)
OpType ==
  [kind : {"none", "register", "attach", "start"}, id : Ids \cup {"none"},
   pc : {"idle", "keys", "client", "inbox", "sync", "messages", "groups", "dms", "address"},
   todo : SUBSET Ids, fallback : {"error", "local"}]

StateType ==
  /\ store \subseteq used /\ store \subseteq Ids /\ registry \subseteq Ids
  /\ groupIds \in [Ids -> SUBSET Groups] /\ bound \in [Ids -> Groups \cup {NoGroup}]
  /\ \A i \in Ids \ registry : groupIds[i] = {}

CoreType ==
  /\ StateType /\ ops \in [Tasks -> OpType]
  /\ cstate \in {"idle", "local", "starting", "running", "error", "stopped"}
  /\ open \in BOOLEAN /\ (open \/ cstate = "stopped")

\* What is always so of an operation under way in a core in state C.
OpOK(o, C) ==
  IF o.kind = "none" THEN o.pc = "idle"
  ELSE /\ o.id \in Ids /\ o.id \notin o.todo /\ o.pc # "idle"
       /\ o.kind = "start" => C = "starting"
       /\ o.kind # "start" => o.todo = {}
       /\ o.pc = "address" => o.kind = "register"

Handles(o, i) == o.kind # "none" /\ (o.id = i \/ i \in o.todo)

OpenedBy(i, t, K) == {[id |-> i, kind |-> k, task |-> t] : k \in K}
AllOpen(i, S) == \E t \in Tasks : S = OpenedBy(i, t, Kinds)

\* The operation o of the task t on the identity i, whose open streams are S, with
\* the core in state C and the clients R.
WorkOK(i, t, o, C, R, S) ==
  o.kind # "none" =>
    /\ i \in o.todo => S = {}
    /\ o.id = i =>
         /\ o.kind # "start" => C \in {"running", "local"}
         /\ o.pc \in {"keys", "client", "inbox"} => S = {}
         /\ o.pc \in {"sync", "messages", "groups", "dms"} =>
              C \in {"running", "starting"} /\ i \in R
         /\ o.pc \in {"sync", "messages"} => S = {}
         /\ o.pc = "groups" => S = OpenedBy(i, t, {"messages"})
         /\ o.pc = "dms" => S = OpenedBy(i, t, {"messages", "groups"})
         /\ o.pc = "address" => \/ C = "running" /\ i \in R /\ AllOpen(i, S)
                                \/ C = "local" /\ i \in R /\ S = {}

\* An identity nobody works on, with the groups G routed to it.
SettledOK(i, C, R, G, S) ==
  \/ i \notin R /\ S = {} /\ G = {}
  \/ C \in {"running", "starting"} /\ i \in R /\ AllOpen(i, S)
  \/ C = "local" /\ i \in R /\ S = {}

OpenOf(i, X) == {s \in X : s.id = i}

IdOK(i, O, C, st, R, G, S) ==
  /\ \A t, u \in Tasks : Handles(O[t], i) /\ Handles(O[u], i) => t = u
  /\ \A t \in Tasks : Handles(O[t], i) => i \in st
  /\ \A t \in Tasks : WorkOK(i, t, O[t], C, R, S)
  /\ (\A t \in Tasks : ~Handles(O[t], i)) => SettledOK(i, C, R, G, S)
  /\ i \notin st => i \notin R /\ S = {} /\ G = {}

CoreInv ==
  /\ CoreType
  /\ \A t \in Tasks : OpOK(ops[t], cstate)
  /\ \A t, u \in Tasks : ops[t].kind = "start" /\ ops[u].kind = "start" => t = u
  /\ \A i \in Ids \ mixed :
       IdOK(i, ops, cstate, store, registry, groupIds[i], OpenOf(i, streams))

\* The model's words for it.
LEMMA HandledIs ==
    ASSUME CoreType, NEW i \in Ids
    PROVE  Handled(i) <=> \E t \in Tasks : Handles(ops[t], i)
BY DEF Handled, Active, Handles

\* One stream of each kind makes three streams.
LEMMA AllOpenListens ==
    ASSUME NEW i \in Ids, i \in registry, AllOpen(i, OpenOf(i, streams))
    PROVE  Listening(i)
<1>1. PICK t \in Tasks : OpenOf(i, streams) = OpenedBy(i, t, Kinds)
  BY DEF AllOpen
<1>2. PICK a : a = [id |-> i, kind |-> "messages", task |-> t]
  OBVIOUS
<1>3. PICK b : b = [id |-> i, kind |-> "groups", task |-> t]
  OBVIOUS
<1>4. PICK c : c = [id |-> i, kind |-> "dms", task |-> t]
  OBVIOUS
<1>5. a.kind = "messages" /\ b.kind = "groups" /\ c.kind = "dms"
  BY <1>2, <1>3, <1>4
<1>6. a # b /\ a # c /\ b # c
  BY <1>5
<1>7. Open(i) = {a, b, c}
  BY <1>1, <1>2, <1>3, <1>4 DEF OpenedBy, Kinds, Open, OpenOf
<1>8. Cardinality({a}) = 1 /\ IsFiniteSet({a})
  BY FS_Singleton
<1>9. Cardinality({a} \cup {b}) = 2 /\ IsFiniteSet({a} \cup {b})
  <2>1. b \notin {a}
    BY <1>6
  <2> QED
    BY <1>8, <2>1, FS_AddElement, SMTT(30)
<1>10. Cardinality(({a} \cup {b}) \cup {c}) = 3
  <2>1. c \notin {a} \cup {b}
    BY <1>6
  <2>2. PICK T : T = {a} \cup {b}
    OBVIOUS
  <2>3. Cardinality(T \cup {c}) = Cardinality(T) + 1
    BY <1>9, <2>1, <2>2, FS_AddElement
  <2> QED
    BY <1>9, <2>2, <2>3
<1>11. ({a} \cup {b}) \cup {c} = {a, b, c}
  OBVIOUS
<1>12. {s.kind : s \in Open(i)} = Kinds
  BY <1>5, <1>7 DEF Kinds
<1> QED
  BY <1>7, <1>10, <1>11, <1>12 DEF Listening

\* The invariant says what the model promises.
LEMMA CoreInvIsLiveOrGone ==
    ASSUME CoreInv
    PROVE  LiveOrGone
<1> SUFFICES ASSUME NEW i \in Ids \ mixed, ~Handled(i), cstate # "starting"
             PROVE  \/ Gone(i)
                    \/ cstate = "running" /\ Listening(i)
                    \/ cstate = "local" /\ i \in registry /\ Open(i) = {}
  BY DEF LiveOrGone
<1>1. IdOK(i, ops, cstate, store, registry, groupIds[i], OpenOf(i, streams)) /\ CoreType
  BY DEF CoreInv
<1>2. SettledOK(i, cstate, registry, groupIds[i], OpenOf(i, streams))
  BY <1>1, HandledIs DEF IdOK
<1>3. Open(i) = OpenOf(i, streams)
  BY DEF Open, OpenOf
<1> QED
  BY <1>2, <1>3, AllOpenListens DEF SettledOK, Gone

\* An identity that a step does not touch.
LEMMA UntouchedIdOK ==
    ASSUME NEW i, NEW O \in [Tasks -> OpType], NEW t \in Tasks, NEW k,
           NEW C, NEW st, NEW R, NEW G, NEW S, NEW stt, NEW RR, NEW GG,
           IdOK(i, O, C, st, R, G, S),
           i \in stt <=> i \in st, i \in RR <=> i \in R, G = {} => GG = {},
           Handles(k, i) <=> Handles(O[t], i),
           Handles(k, i) => i \in k.todo /\ i \in O[t].todo /\ k.id # i
    PROVE  IdOK(i, [O EXCEPT ![t] = k], C, stt, RR, GG, S)
<1>0. PICK OO : OO = [O EXCEPT ![t] = k]
  OBVIOUS
<1>1. OO[t] = k /\ \A u \in Tasks : u # t => OO[u] = O[u]
  BY <1>0
<1>2. \A u \in Tasks : Handles(OO[u], i) <=> Handles(O[u], i)
  BY <1>1
<1>3. ASSUME NEW u \in Tasks
      PROVE  WorkOK(i, u, OO[u], C, RR, S)
  <2>1. WorkOK(i, u, O[u], C, R, S)
    BY DEF IdOK
  <2>2. CASE u # t
    BY <1>1, <2>1, <2>2 DEF WorkOK
  <2>3. CASE u = t
    BY <1>1, <2>1, <2>3 DEF WorkOK, Handles
  <2> QED
    BY <2>2, <2>3
<1> QED
  BY <1>0, <1>2, <1>3 DEF IdOK, SettledOK

\* The identity an operation works on, after a step of the operation.
LEMMA OwnIdOK ==
    ASSUME NEW i, NEW O \in [Tasks -> OpType], NEW t \in Tasks, NEW k, NEW OO, OO = [O EXCEPT ![t] = k],
           NEW st, NEW CC, NEW stt, NEW RR, NEW GG, NEW SS,
           \A u \in Tasks : u # t => ~Handles(O[u], i),
           i \notin stt => i \notin RR /\ SS = {} /\ GG = {},
           \/ Handles(k, i) /\ WorkOK(i, t, k, CC, RR, SS) /\ i \in stt
           \/ ~Handles(k, i) /\ SettledOK(i, CC, RR, GG, SS)
    PROVE  IdOK(i, OO, CC, stt, RR, GG, SS)
<1>1. OO[t] = k /\ \A u \in Tasks : u # t => OO[u] = O[u]
  OBVIOUS
<1>2. \A u \in Tasks : u # t => ~Handles(OO[u], i)
  BY <1>1
<1>3. \A u \in Tasks : WorkOK(i, u, OO[u], CC, RR, SS)
  BY <1>1, <1>2 DEF WorkOK, Handles
<1> QED
  BY <1>1, <1>2, <1>3 DEF IdOK

\* What a step leaves alone of the identity i.
Kept(i) ==
  /\ OpenOf(i, streams') = OpenOf(i, streams) /\ (i \in registry' <=> i \in registry)
  /\ (i \in store' <=> i \in store) /\ (groupIds[i] = {} => groupIds'[i] = {})

\* An identity handled by one operation is handled by no other.
LEMMA NobodyElse ==
    ASSUME CoreInv, NEW t \in Tasks, NEW i \in Ids \ mixed,
           Handles(ops[t], i) \/ ops[t].kind = "start", NEW u \in Tasks, u # t
    PROVE  ~Handles(ops[u], i)
<1>1. IdOK(i, ops, cstate, store, registry, groupIds[i], OpenOf(i, streams))
  BY DEF CoreInv
<1>2. CASE Handles(ops[t], i)
  BY <1>1, <1>2 DEF IdOK
<1>3. CASE ops[t].kind = "start"
  <2>1. ops[u].kind # "start" /\ OpOK(ops[t], cstate) /\ OpOK(ops[u], cstate)
    BY <1>3 DEF CoreInv
  <2>2. (cstate = "starting" /\ ops[u].todo = {}) \/ ops[u].kind = "none"
    BY <1>3, <2>1 DEF OpOK
  <2>3. WorkOK(i, u, ops[u], cstate, registry, OpenOf(i, streams))
    BY <1>1 DEF IdOK
  <2>4. ops[u].kind # "none" => cstate = "starting"
    BY <1>3, <2>1 DEF OpOK
  <2> QED
    BY <2>1, <2>2, <2>3, <2>4 DEF Handles, WorkOK
<1> QED
  BY <1>2, <1>3

\* A step of one operation on its identity, in a core that stays as it is.
LEMMA OpMoves ==
    ASSUME CoreInv, NEW t \in Tasks, ops[t].kind # "none", NEW j, j = ops[t].id,
           NEW k \in OpType, ops' = [ops EXCEPT ![t] = k],
           cstate' = cstate, mixed' = mixed, StateType', open' = open, OpOK(k, cstate),
           \/ k.kind = ops[t].kind /\ k.id = j /\ k.todo = ops[t].todo
           \/ k.kind = "none" /\ ops[t].kind # "start",
           \A i \in Ids : i # j => Kept(i),
           j \notin mixed =>
             /\ j \notin store' => j \notin registry' /\ OpenOf(j, streams') = {} /\ groupIds'[j] = {}
             /\ \/ k.kind # "none" /\ WorkOK(j, t, k, cstate, registry', OpenOf(j, streams')) /\ j \in store'
                \/ k.kind = "none" /\ SettledOK(j, cstate, registry', groupIds'[j], OpenOf(j, streams'))
    PROVE  CoreInv'
<1>1. /\ CoreType /\ ops \in [Tasks -> OpType] /\ OpOK(ops[t], cstate)
      /\ j \in Ids /\ j \notin ops[t].todo
  BY DEF CoreInv, CoreType, OpOK
<1>2. CoreType'
  BY <1>1 DEF CoreType
<1>3. ops'[t] = k /\ \A u \in Tasks : u # t => ops'[u] = ops[u]
  BY <1>1
<1>4. /\ \A u \in Tasks : OpOK(ops'[u], cstate')
      /\ \A u, v \in Tasks : ops'[u].kind = "start" /\ ops'[v].kind = "start" => u = v
  BY <1>3 DEF CoreInv
<1>5. ASSUME NEW i \in Ids \ mixed
      PROVE  IdOK(i, ops', cstate', store', registry', groupIds'[i], OpenOf(i, streams'))
  <2>1. IdOK(i, ops, cstate, store, registry, groupIds[i], OpenOf(i, streams))
    BY DEF CoreInv
  <2>2. CASE i # j
    <3>1. Handles(k, i) <=> Handles(ops[t], i)
      BY <1>1, <2>2 DEF Handles, OpOK
    <3>2. Handles(k, i) => i \in k.todo /\ i \in ops[t].todo /\ k.id # i
      BY <1>1, <2>2 DEF Handles, OpOK
    <3>3. /\ i \in store' <=> i \in store
          /\ i \in registry' <=> i \in registry
          /\ groupIds[i] = {} => groupIds'[i] = {}
          /\ OpenOf(i, streams') = OpenOf(i, streams)
      BY <2>2 DEF Kept
    <3>4. IdOK(i, ops', cstate, store', registry', groupIds'[i], OpenOf(i, streams))
      <4>1. PICK OO, stt, RR, GG, S, G :
              /\ OO = ops' /\ stt = store' /\ RR = registry' /\ GG = groupIds'[i]
              /\ S = OpenOf(i, streams) /\ G = groupIds[i]
        OBVIOUS
      <4>2. OO = [ops EXCEPT ![t] = k] /\ IdOK(i, ops, cstate, store, registry, G, S)
        BY <2>1, <4>1
      <4>3. /\ i \in stt <=> i \in store
            /\ i \in RR <=> i \in registry
            /\ G = {} => GG = {}
        BY <3>3, <4>1
      <4>4. ops \in [Tasks -> OpType]
        BY <1>1
      <4>5. IdOK(i, [ops EXCEPT ![t] = k], cstate, stt, RR, GG, S)
        BY <3>1, <3>2, <4>2, <4>3, <4>4, UntouchedIdOK, Zenon
      <4> QED
        BY <4>1, <4>2, <4>5
    <3> QED
      BY <3>3, <3>4
  <2>3. CASE i = j
    <3>1. Handles(ops[t], j)
      BY DEF Handles
    <3>2. \A u \in Tasks : u # t => ~Handles(ops[u], i)
      BY <2>3, <3>1, NobodyElse
    <3>3. k.kind # "none" => Handles(k, i)
      BY <1>1, <2>3 DEF Handles
    <3>4. k.kind = "none" => ~Handles(k, i)
      BY DEF Handles
    <3>5. IdOK(i, ops', cstate, store', registry', groupIds'[i], OpenOf(i, streams'))
      BY <1>1, <1>5, <2>3, <3>2, <3>3, <3>4, OwnIdOK
    <3> QED
      BY <3>5
  <2> QED
    BY <2>2, <2>3
<1> QED
  BY <1>2, <1>4, <1>5 DEF CoreInv

\* No operation.
LEMMA IdleIsTyped ==
    Idle \in OpType /\ Idle.kind = "none" /\ Idle.pc = "idle" /\ \A C : OpOK(Idle, C)
<1>1. Idle \in OpType /\ Idle.kind = "none" /\ Idle.pc = "idle"
  BY DEF Idle, OpType
<1> QED
  BY <1>1 DEF OpOK

\* A core in which nothing is left of any identity that one operation at a time
\* handled.
LEMMA EverythingGone ==
    ASSUME CoreInv, CoreType', streams' = {}, registry' = {}, groupIds' = [i \in Ids |-> {}],
           \A i \in Ids \ mixed' : i \notin mixed /\ \A u \in Tasks : ~Handles(ops'[u], i),
           \A t \in Tasks : OpOK(ops'[t], cstate'),
           \A t, u \in Tasks : ops'[t].kind = "start" /\ ops'[u].kind = "start" => t = u
    PROVE  CoreInv'
<1>1. ASSUME NEW i \in Ids \ mixed'
      PROVE  IdOK(i, ops', cstate', store', registry', groupIds'[i], OpenOf(i, streams'))
  <2>1. OpenOf(i, streams') = {} /\ i \notin registry' /\ groupIds'[i] = {}
    BY DEF OpenOf
  <2>2. \A u \in Tasks : ~Handles(ops'[u], i)
    OBVIOUS
  <2>3. \A u \in Tasks : WorkOK(i, u, ops'[u], cstate', registry', OpenOf(i, streams'))
    BY <2>2 DEF WorkOK, Handles
  <2> QED
    BY <2>1, <2>2, <2>3 DEF IdOK, SettledOK
<1> QED
  BY <1>1 DEF CoreInv

\* A step of hydration fails.
LEMMA FailingKeepsInv ==
    ASSUME CoreInv, NEW t \in Tasks, ops[t].pc # "idle", HydrateFails(t)
    PROVE  CoreInv'
<1>0. /\ CoreType /\ StateType /\ ops[t] \in OpType /\ OpOK(ops[t], cstate) /\ ops[t].kind # "none"
      /\ ops \in [Tasks -> OpType]
  BY DEF CoreInv, CoreType, OpOK
<1>1. CASE ops[t].kind \in {"register", "attach"}
  <2>1. PICK j : j = ops[t].id
    OBVIOUS
  <2>2. /\ ops' = [ops EXCEPT ![t] = Idle] /\ Detach(j)
        /\ store' = store \ {j} \/ store' = store
        /\ cstate' = cstate /\ mixed' = mixed /\ open' = open /\ used' = used /\ bound' = bound
    BY <1>1, <2>1 DEF HydrateFails, RemoveRecords
  <2>3. j \in Ids
    BY <1>0, <2>1 DEF OpOK
  <2>4. /\ registry' = registry \ {j} /\ groupIds' = [groupIds EXCEPT ![j] = {}]
        /\ streams' = {s \in streams : s.id # j}
    BY <2>2 DEF Detach
  <2>5. StateType'
    BY <1>0, <2>2, <2>3, <2>4 DEF StateType
  <2>6. \A i \in Ids : i # j => Kept(i)
    BY <1>0, <2>2, <2>3, <2>4 DEF Kept, OpenOf, StateType
  <2>7. j \notin registry' /\ OpenOf(j, streams') = {} /\ groupIds'[j] = {}
    BY <1>0, <2>3, <2>4 DEF OpenOf, StateType
  <2>8. SettledOK(j, cstate, registry', groupIds'[j], OpenOf(j, streams'))
    BY <2>7 DEF SettledOK
  <2> QED
    BY <1>0, <1>1, <2>1, <2>2, <2>5, <2>6, <2>7, <2>8, IdleIsTyped, OpMoves
<1>2. CASE ops[t].kind = "start"
  <2>1. /\ ops' = [ops EXCEPT ![t] = Idle] /\ ResetStartup /\ cstate' = ops[t].fallback
        /\ UNCHANGED <<store, used, bound, open, mixed>>
    BY <1>2 DEF HydrateFails
  <2>2. cstate = "starting" /\ cstate' \in {"error", "local"} /\ open
    BY <1>0, <1>2, <2>1 DEF OpOK, OpType, CoreType
  <2>3. ops' \in [Tasks -> OpType] /\ ops'[t] = Idle /\ \A u \in Tasks : u # t => ops'[u] = ops[u]
    BY <1>0, <2>1, IdleIsTyped
  <2>4. streams' = {} /\ registry' = {} /\ groupIds' = [i \in Ids |-> {}]
    BY <2>1 DEF ResetStartup
  <2>5. CoreType'
    BY <1>0, <2>1, <2>2, <2>3, <2>4 DEF CoreType, StateType
  <2>6. \A u \in Tasks : ops'[u].kind # "start" /\ OpOK(ops'[u], cstate')
    BY <1>2, <2>3, IdleIsTyped DEF CoreInv, OpOK
  <2>7. \A i \in Ids \ mixed : \A u \in Tasks : ~Handles(ops'[u], i)
    <3> SUFFICES ASSUME NEW i \in Ids \ mixed, NEW u \in Tasks PROVE ~Handles(ops'[u], i)
      OBVIOUS
    <3>1. CASE u = t
      BY <2>3, <3>1, IdleIsTyped DEF Handles
    <3>2. CASE u # t
      BY <1>2, <2>3, <3>2, NobodyElse
    <3> QED
      BY <3>1, <3>2
  <2>8. mixed' = mixed
    BY <2>1
  <2> QED
    BY <2>4, <2>5, <2>6, <2>7, <2>8, EverythingGone
<1> QED
  BY <1>1, <1>2 DEF HydrateFails

\* An identity is hydrated, with its streams or, in a local core, without: its
\* operation ends, goes on to the address or to the next identity.
LEMMA HydratedKeepsInv ==
    ASSUME CoreInv, NEW t \in Tasks, ops[t].kind # "none", NEW j, j = ops[t].id, Hydrated(t, j),
           StateType', open' = open, mixed' = mixed, store' = store,
           \A i \in Ids : i # j => Kept(i),
           j \notin mixed =>
             /\ j \in registry'
             /\ \/ cstate \in {"running", "starting"} /\ AllOpen(j, OpenOf(j, streams'))
                \/ cstate = "local" /\ OpenOf(j, streams') = {}
    PROVE  CoreInv'
<1>0. /\ CoreType /\ ops[t] \in OpType /\ OpOK(ops[t], cstate) /\ ops \in [Tasks -> OpType]
      /\ j \in Ids /\ j \notin ops[t].todo
  BY DEF CoreInv, CoreType, OpOK
<1>1. CASE ops[t].kind = "start" /\ ops[t].todo # {}
  <2>1. PICK n \in ops[t].todo :
          ops' = [ops EXCEPT ![t].id = n, ![t].todo = @ \ {n}, ![t].pc = "keys"]
    BY <1>1 DEF Hydrated
  <2>2. cstate' = cstate /\ cstate = "starting"
    BY <1>0, <1>1 DEF Hydrated, OpOK
  <2>3. PICK k : k = [ops[t] EXCEPT !.id = n, !.todo = ops[t].todo \ {n}, !.pc = "keys"]
    OBVIOUS
  <2>4. n \in Ids /\ n # j
    BY <1>0, <2>1 DEF OpType
  <2>5. k \in OpType /\ k.kind = "start" /\ k.id = n /\ k.todo = ops[t].todo \ {n} /\ k.pc = "keys"
    BY <1>0, <1>1, <2>3, <2>4 DEF OpType
  <2>6. ops' = [ops EXCEPT ![t] = k]
    BY <1>0, <2>1, <2>3
  <2>7. ops'[t] = k /\ ops' \in [Tasks -> OpType] /\ \A u \in Tasks : u # t => ops'[u] = ops[u]
    BY <1>0, <2>5, <2>6
  <2>8. CoreType'
    BY <1>0, <2>2, <2>7 DEF CoreType
  <2>9. /\ \A u \in Tasks : OpOK(ops'[u], cstate')
        /\ \A u, v \in Tasks : ops'[u].kind = "start" /\ ops'[v].kind = "start" => u = v
    <3>1. OpOK(k, cstate)
      BY <2>2, <2>4, <2>5 DEF OpOK
    <3> QED
      BY <1>1, <2>2, <2>5, <2>7, <3>1 DEF CoreInv
  <2>10. ASSUME NEW i \in Ids \ mixed
         PROVE  IdOK(i, ops', cstate', store', registry', groupIds'[i], OpenOf(i, streams'))
    <3>1. IdOK(i, ops, cstate, store, registry, groupIds[i], OpenOf(i, streams))
      BY DEF CoreInv
    <3>2. \A u \in Tasks : u # t => ~Handles(ops[u], i)
      BY <1>1, NobodyElse
    <3>3. CASE i = j
      <4>1. Handles(ops[t], i) /\ ~Handles(k, i)
        BY <1>0, <2>4, <2>5, <3>3 DEF Handles
      <4>2. i \in store'
        BY <3>1, <4>1 DEF IdOK
      <4>3. SettledOK(i, cstate, registry', groupIds'[i], OpenOf(i, streams'))
        BY <2>2, <2>10, <3>3 DEF SettledOK
      <4> QED
        BY <1>0, <2>2, <2>6, <3>2, <4>1, <4>2, <4>3, OwnIdOK
    <3>4. CASE i = n
      <4>1. Handles(ops[t], i) /\ Handles(k, i)
        BY <2>1, <2>5, <3>4 DEF Handles
      <4>2. i \in store' /\ OpenOf(i, streams) = {}
        BY <2>1, <3>1, <3>4, <4>1 DEF IdOK, WorkOK
      <4>3. OpenOf(i, streams') = {}
        BY <2>4, <3>4, <4>2 DEF Kept
      <4>4. WorkOK(i, t, k, cstate, registry', OpenOf(i, streams'))
        BY <2>5, <4>3 DEF WorkOK
      <4> QED
        BY <1>0, <2>2, <2>6, <3>2, <4>1, <4>2, <4>4, OwnIdOK
    <3>5. CASE i # j /\ i # n
      <4>1. Handles(k, i) <=> Handles(ops[t], i)
        BY <2>5, <3>5 DEF Handles
      <4>2. Handles(k, i) => i \in k.todo /\ i \in ops[t].todo /\ k.id # i
        BY <2>5, <3>5 DEF Handles
      <4>3. /\ i \in store' <=> i \in store
            /\ i \in registry' <=> i \in registry
            /\ groupIds[i] = {} => groupIds'[i] = {}
            /\ OpenOf(i, streams') = OpenOf(i, streams)
        BY <3>5 DEF Kept
      <4>4. IdOK(i, [ops EXCEPT ![t] = k], cstate, store', registry', groupIds'[i], OpenOf(i, streams))
        BY <1>0, <3>1, <4>1, <4>2, <4>3, UntouchedIdOK, Zenon
      <4> QED
        BY <2>2, <2>6, <4>3, <4>4
    <3> QED
      BY <3>3, <3>4, <3>5
  <2> QED
    BY <2>8, <2>9, <2>10 DEF CoreInv
<1>2. CASE ops[t].kind = "start" /\ ops[t].todo = {}
  <2>1. ops' = [ops EXCEPT ![t] = Idle] /\ cstate' = "running" /\ cstate = "starting"
    BY <1>0, <1>2 DEF Hydrated, OpOK
  <2>2. ops'[t] = Idle /\ ops' \in [Tasks -> OpType] /\ \A u \in Tasks : u # t => ops'[u] = ops[u]
    BY <1>0, <2>1, IdleIsTyped
  <2>3. CoreType'
    BY <1>0, <2>1, <2>2 DEF CoreType
  <2>4. \A u \in Tasks : ops'[u].kind # "start" /\ OpOK(ops'[u], cstate')
    BY <1>2, <2>2, IdleIsTyped DEF CoreInv, OpOK
  <2>5. ASSUME NEW i \in Ids \ mixed
        PROVE  IdOK(i, ops', cstate', store', registry', groupIds'[i], OpenOf(i, streams'))
    <3>1. IdOK(i, ops, cstate, store, registry, groupIds[i], OpenOf(i, streams))
      BY DEF CoreInv
    <3>2. \A u \in Tasks : u # t => ~Handles(ops[u], i)
      BY <1>2, NobodyElse
    <3>3. ~Handles(Idle, i)
      BY IdleIsTyped DEF Handles
    <3>4. CASE i = j
      <4>1. i \in store'
        BY <1>2, <3>1, <3>4 DEF IdOK, Handles
      <4>2. SettledOK(i, cstate', registry', groupIds'[i], OpenOf(i, streams'))
        BY <2>1, <2>5, <3>4 DEF SettledOK
      <4> QED
        BY <1>0, <2>1, <3>2, <3>3, <4>1, <4>2, OwnIdOK
    <3>5. CASE i # j
      <4>1. \A u \in Tasks : ~Handles(ops[u], i)
        BY <1>2, <3>2, <3>5 DEF Handles
      <4>2. SettledOK(i, cstate, registry, groupIds[i], OpenOf(i, streams))
        BY <3>1, <4>1 DEF IdOK
      <4>3. /\ i \in store' <=> i \in store
            /\ i \in registry' <=> i \in registry
            /\ groupIds[i] = {} => groupIds'[i] = {}
            /\ OpenOf(i, streams') = OpenOf(i, streams)
        BY <3>5 DEF Kept
      <4>4. SettledOK(i, cstate', registry', groupIds'[i], OpenOf(i, streams'))
        BY <2>1, <4>2, <4>3 DEF SettledOK
      <4>5. i \notin store' => i \notin registry' /\ OpenOf(i, streams') = {} /\ groupIds'[i] = {}
        BY <3>1, <4>3 DEF IdOK
      <4> QED
        BY <1>0, <2>1, <3>2, <3>3, <4>4, <4>5, OwnIdOK
    <3> QED
      BY <3>4, <3>5
  <2> QED
    BY <2>3, <2>4, <2>5 DEF CoreInv
<1>3. ASSUME j \notin mixed
      PROVE  j \in store /\ (ops[t].kind # "start" => cstate \in {"running", "local"})
  <2>1. IdOK(j, ops, cstate, store, registry, groupIds[j], OpenOf(j, streams)) /\ Handles(ops[t], j)
    BY <1>0, <1>3 DEF CoreInv, Handles
  <2> QED
    BY <2>1 DEF IdOK, WorkOK
<1>4. CASE ops[t].kind = "register"
  <2>1. PICK k : k = [ops[t] EXCEPT !.pc = "address"]
    OBVIOUS
  <2>2. ops' = [ops EXCEPT ![t].pc = "address"] /\ cstate' = cstate
    BY <1>4 DEF Hydrated
  <2>3. ops' = [ops EXCEPT ![t] = k]
    BY <1>0, <2>1, <2>2
  <2>4. k \in OpType /\ k.kind = "register" /\ k.id = j /\ k.todo = ops[t].todo /\ k.pc = "address"
    BY <1>0, <1>4, <2>1 DEF OpType
  <2>5. OpOK(k, cstate)
    BY <1>0, <1>4, <2>4 DEF OpOK
  <2>6. j \notin mixed => WorkOK(j, t, k, cstate, registry', OpenOf(j, streams'))
    BY <1>0, <1>3, <1>4, <2>4 DEF WorkOK
  <2> QED
    BY <1>3, <1>4, <2>2, <2>3, <2>4, <2>5, <2>6, OpMoves, ZenonT(30)
<1>5. CASE ops[t].kind = "attach"
  <2>1. ops' = [ops EXCEPT ![t] = Idle] /\ cstate' = cstate
    BY <1>5 DEF Hydrated
  <2>2. j \notin mixed => SettledOK(j, cstate, registry', groupIds'[j], OpenOf(j, streams'))
    BY <1>3, <1>5 DEF SettledOK
  <2> QED
    BY <1>3, <1>5, <2>1, <2>2, IdleIsTyped, OpMoves
<1> QED
  BY <1>0, <1>1, <1>2, <1>4, <1>5 DEF OpType

\* The client of an identity is registered.
LEMMA RegisteredKeepsInv ==
    ASSUME CoreInv, NEW t \in Tasks, NEW j, j = ops[t].id, ops[t].pc \in {"client", "inbox"},
           Registered(t, j), UNCHANGED <<store, used, bound, streams, open, mixed>>
    PROVE  CoreInv'
<1>0. /\ CoreType /\ StateType /\ ops[t] \in OpType /\ OpOK(ops[t], cstate) /\ ops \in [Tasks -> OpType]
      /\ ops[t].kind # "none" /\ j \in Ids /\ j \notin ops[t].todo
  BY DEF CoreInv, CoreType, OpOK
<1>1. \/ registry' = registry \cup {j} /\ groupIds' = [groupIds EXCEPT ![j] = {bound[j]} \cap Groups]
      \/ registry' = registry /\ groupIds' = groupIds /\ cstate \notin {"running", "starting", "local"}
  BY DEF Registered
<1>2. StateType' /\ \A i \in Ids : i # j => Kept(i)
  BY <1>0, <1>1 DEF StateType, Kept
<1>3. ASSUME j \notin mixed
      PROVE  /\ j \in store /\ OpenOf(j, streams) = {}
             /\ ops[t].kind # "start" => cstate \in {"running", "local"}
  <2>1. IdOK(j, ops, cstate, store, registry, groupIds[j], OpenOf(j, streams)) /\ Handles(ops[t], j)
    BY <1>0, <1>3 DEF CoreInv, Handles
  <2> QED
    BY <2>1 DEF IdOK, WorkOK, Handles
<1>4. OpenOf(j, streams') = OpenOf(j, streams) /\ store' = store
  OBVIOUS
<1>5. CASE cstate \in {"running", "starting"}
  <2>1. PICK k : k = [ops[t] EXCEPT !.pc = "sync"]
    OBVIOUS
  <2>2. /\ ops' = [ops EXCEPT ![t] = k] /\ cstate' = cstate /\ j \in registry'
        /\ mixed' = mixed /\ open' = open
    BY <1>0, <1>5, <2>1 DEF Registered
  <2>3. k \in OpType /\ k.kind = ops[t].kind /\ k.id = j /\ k.todo = ops[t].todo /\ k.pc = "sync"
    BY <1>0, <2>1 DEF OpType
  <2>4. OpOK(k, cstate)
    BY <1>0, <2>3 DEF OpOK
  <2>5. j \notin mixed => WorkOK(j, t, k, cstate, registry', OpenOf(j, streams')) /\ j \in store'
    BY <1>0, <1>3, <1>4, <1>5, <2>2, <2>3 DEF WorkOK
  <2> QED
    BY <1>0, <1>2, <2>2, <2>3, <2>4, <2>5, OpMoves
<1>6. CASE cstate \notin {"running", "starting"}
  <2>1. Hydrated(t, j) /\ (cstate = "local" => j \in registry') /\ open' = open /\ mixed' = mixed
    BY <1>6 DEF Registered
  <2>2. j \notin mixed => cstate = "local"
    BY <1>0, <1>3, <1>6 DEF OpOK
  <2> QED
    BY <1>0, <1>2, <1>3, <1>4, <2>1, <2>2, HydratedKeepsInv
<1> QED
  BY <1>5, <1>6

\* A step of hydration that only moves its label on.
LEMMA LabelMoves ==
    ASSUME CoreInv, NEW t \in Tasks, ops[t].pc # "idle",
           NEW l \in {"client", "inbox", "messages"}, ops' = [ops EXCEPT ![t].pc = l],
           StateType', UNCHANGED <<cstate, store, registry, streams, open, mixed>>,
           \A i \in Ids : i # ops[t].id => (groupIds[i] = {} => groupIds'[i] = {}),
           l \in {"client", "inbox"} => ops[t].pc \in {"keys", "client"},
           l = "messages" => ops[t].pc = "sync"
    PROVE  CoreInv'
<1> PICK j : j = ops[t].id
  OBVIOUS
<1>0. /\ CoreType /\ ops[t] \in OpType /\ OpOK(ops[t], cstate) /\ ops \in [Tasks -> OpType]
      /\ ops[t].kind # "none" /\ j \in Ids
  BY DEF CoreInv, CoreType, OpOK
<1>1. PICK k : k = [ops[t] EXCEPT !.pc = l]
  OBVIOUS
<1>2. k \in OpType /\ k.kind = ops[t].kind /\ k.id = j /\ k.todo = ops[t].todo /\ k.pc = l
  BY <1>0, <1>1 DEF OpType
<1>3. ops' = [ops EXCEPT ![t] = k] /\ cstate' = cstate /\ mixed' = mixed /\ open' = open
      /\ store' = store /\ registry' = registry /\ streams' = streams
  BY <1>0, <1>1
<1>4. OpOK(k, cstate)
  BY <1>0, <1>2 DEF OpOK
<1>5. \A i \in Ids : i # j => Kept(i)
  BY <1>3 DEF Kept
<1>6. ASSUME j \notin mixed
      PROVE  j \in store' /\ WorkOK(j, t, k, cstate, registry', OpenOf(j, streams'))
  <2>1. IdOK(j, ops, cstate, store, registry, groupIds[j], OpenOf(j, streams)) /\ Handles(ops[t], j)
    BY <1>0, <1>6 DEF CoreInv, Handles
  <2>2. j \in store /\ WorkOK(j, t, ops[t], cstate, registry, OpenOf(j, streams))
    BY <2>1 DEF IdOK
  <2> QED
    BY <1>0, <1>2, <1>3, <2>2 DEF WorkOK
<1> QED
  BY <1>0, <1>2, <1>3, <1>4, <1>5, <1>6, OpMoves

\* The steps of an operation on its identity.
LEMMA HydratingKeepsInv ==
    ASSUME CoreInv, NEW t \in Tasks,
           \/ HydrateKeys(t) \/ HydrateClient(t) \/ HydrateInbox(t)
           \/ HydrateSync(t) \/ HydrateStream(t) \/ RegisterAddress(t)
    PROVE  CoreInv'
<1> PICK j : j = ops[t].id
  OBVIOUS
<1>0. /\ CoreType /\ StateType /\ ops[t] \in OpType /\ OpOK(ops[t], cstate) /\ ops \in [Tasks -> OpType]
      /\ ops[t].pc # "idle" /\ ops[t].kind # "none" /\ j \in Ids
  <2>1. ops[t].pc # "idle"
    BY DEF HydrateKeys, HydrateClient, HydrateInbox, HydrateSync, HydrateStream, RegisterAddress, Kinds
  <2> QED
    BY <2>1 DEF CoreInv, CoreType, OpOK
<1>1. ASSUME j \notin mixed
      PROVE  j \in store /\ WorkOK(j, t, ops[t], cstate, registry, OpenOf(j, streams))
  <2>1. IdOK(j, ops, cstate, store, registry, groupIds[j], OpenOf(j, streams)) /\ Handles(ops[t], j)
    BY <1>0, <1>1 DEF CoreInv, Handles
  <2> QED
    BY <2>1 DEF IdOK
<1>2. CASE HydrateFails(t)
  BY <1>0, <1>2, FailingKeepsInv
<1>3. CASE HydrateKeys(t) /\ ~HydrateFails(t)
  <2>1. /\ ops[t].pc = "keys" /\ ops' = [ops EXCEPT ![t].pc = "client"]
        /\ UNCHANGED <<cstate, store, used, bound, registry, groupIds, streams, open, mixed>>
    BY <1>3 DEF HydrateKeys
  <2>2. StateType'
    BY <1>0, <2>1 DEF StateType
  <2> QED
    BY <1>0, <2>1, <2>2, LabelMoves
<1>4. CASE HydrateClient(t) /\ ~HydrateFails(t)
  <2>1. ops[t].pc = "client" /\ UNCHANGED <<store, used, bound, streams, open, mixed>>
    BY <1>4 DEF HydrateClient
  <2>2. CASE ops' = [ops EXCEPT ![t].pc = "inbox"] /\ UNCHANGED <<cstate, registry, groupIds>>
    <3>1. StateType'
      BY <1>0, <2>1, <2>2 DEF StateType
    <3> QED
      BY <1>0, <2>1, <2>2, <3>1, LabelMoves
  <2>3. CASE Registered(t, j)
    BY <2>1, <2>3, RegisteredKeepsInv
  <2> QED
    BY <1>4, <2>2, <2>3 DEF HydrateClient
<1>5. CASE HydrateInbox(t) /\ ~HydrateFails(t)
  <2>1. ops[t].pc = "inbox"
    BY <1>5 DEF HydrateInbox
  <2>2. CASE ~open
    <3>1. cstate = "stopped"
      BY <1>0, <2>2 DEF CoreType
    <3>2. ops[t].kind # "start"
      BY <1>0, <3>1 DEF OpOK
    <3>3. /\ ops' = [ops EXCEPT ![t] = Idle]
          /\ UNCHANGED <<cstate, store, used, bound, registry, groupIds, streams, open, mixed>>
      BY <1>5, <2>2, <3>2 DEF HydrateInbox, HydrateThrows
    <3>4. StateType' /\ \A i \in Ids : Kept(i)
      BY <1>0, <3>3 DEF StateType, Kept
    <3>5. j \in mixed
      BY <1>0, <1>1, <3>1, <3>2 DEF WorkOK
    <3> QED
      BY <1>0, <3>2, <3>3, <3>4, <3>5, IdleIsTyped, OpMoves
  <2>3. CASE open
    <3>1. Registered(t, j) /\ UNCHANGED <<store, used, bound, streams, open, mixed>>
      BY <1>5, <2>3 DEF HydrateInbox
    <3> QED
      BY <2>1, <3>1, RegisteredKeepsInv
  <2> QED
    BY <2>2, <2>3
<1>6. CASE HydrateSync(t) /\ ~HydrateFails(t)
  <2>1. PICK g \in SUBSET Groups :
          groupIds' = [groupIds EXCEPT ![j] = IF j \in registry THEN @ \cup g ELSE @]
    BY <1>6 DEF HydrateSync
  <2>2. /\ ops[t].pc = "sync" /\ ops' = [ops EXCEPT ![t].pc = "messages"]
        /\ UNCHANGED <<cstate, store, used, bound, registry, streams, open, mixed>>
    BY <1>6 DEF HydrateSync
  <2>3. PICK G : G = IF j \in registry THEN groupIds[j] \cup g ELSE groupIds[j]
    OBVIOUS
  <2>5. groupIds[j] \in SUBSET Groups /\ (j \notin registry => groupIds[j] = {})
    BY <1>0 DEF StateType
  <2>6. G \in SUBSET Groups /\ (j \notin registry => G = {})
    BY <2>3, <2>5
  <2>7. groupIds' = [groupIds EXCEPT ![j] = G]
    BY <2>1, <2>3
  <2>4. StateType' /\ \A i \in Ids : i # j => groupIds'[i] = groupIds[i]
    BY <1>0, <2>2, <2>6, <2>7 DEF StateType
  <2> QED
    BY <1>0, <2>2, <2>4, LabelMoves
<1>7. CASE HydrateStream(t) /\ ~HydrateFails(t)
  <2>1. PICK s : s = [id |-> j, kind |-> ops[t].pc, task |-> t]
    OBVIOUS
  <2>2. /\ ops[t].pc \in Kinds /\ streams' = streams \cup {s} /\ s.id = j
        /\ UNCHANGED <<store, used, bound, registry, groupIds, open, mixed>>
    BY <1>7, <2>1 DEF HydrateStream
  <2>3. StateType' /\ (\A i \in Ids : i # j => Kept(i)) /\ OpenOf(j, streams') = OpenOf(j, streams) \cup {s}
    BY <1>0, <2>2 DEF StateType, Kept, OpenOf
  <2>4. CASE ops[t].pc = "dms"
    <3>1. Hydrated(t, j)
      BY <1>7, <2>4 DEF HydrateStream
    <3>2. ASSUME j \notin mixed
          PROVE  j \in registry' /\ cstate \in {"running", "starting"}
                 /\ AllOpen(j, OpenOf(j, streams'))
      <4>1. OpenOf(j, streams) = OpenedBy(j, t, {"messages", "groups"})
            /\ j \in registry /\ cstate \in {"running", "starting"}
        BY <1>0, <1>1, <2>4, <3>2 DEF WorkOK
      <4>2. OpenOf(j, streams') = OpenedBy(j, t, Kinds)
        BY <2>1, <2>3, <2>4, <4>1 DEF OpenedBy, Kinds
      <4> QED
        BY <2>2, <4>1, <4>2 DEF AllOpen
    <3>3. open' = open /\ mixed' = mixed /\ store' = store
      BY <2>2
    <3> QED
      BY <1>0, <2>3, <3>1, <3>2, <3>3, HydratedKeepsInv
  <2>5. CASE ops[t].pc \in {"messages", "groups"}
    <3>1. PICK l \in {"groups", "dms"} : l = StreamStep[ops[t].pc]
      BY <2>5 DEF StreamStep
    <3>2. l = IF ops[t].pc = "messages" THEN "groups" ELSE "dms"
      BY <2>5, <3>1 DEF StreamStep
    <3>3. ops' = [ops EXCEPT ![t].pc = l] /\ cstate' = cstate
      BY <1>7, <2>5, <3>1 DEF HydrateStream
    <3>4. PICK k : k = [ops[t] EXCEPT !.pc = l]
      OBVIOUS
    <3>5. k \in OpType /\ k.kind = ops[t].kind /\ k.id = j /\ k.todo = ops[t].todo /\ k.pc = l
      BY <1>0, <3>4 DEF OpType
    <3>6. ops' = [ops EXCEPT ![t] = k] /\ OpOK(k, cstate)
      BY <1>0, <3>3, <3>4, <3>5 DEF OpOK
    <3>7. ASSUME j \notin mixed
          PROVE  j \in store' /\ WorkOK(j, t, k, cstate, registry', OpenOf(j, streams'))
      <4>1. /\ ops[t].pc = "messages" => OpenOf(j, streams) = {}
            /\ ops[t].pc = "groups" => OpenOf(j, streams) = OpenedBy(j, t, {"messages"})
            /\ j \in registry /\ cstate \in {"running", "starting"} /\ j \in store
            /\ ops[t].kind # "start" => cstate \in {"running", "local"}
        BY <1>0, <1>1, <2>5, <3>7 DEF WorkOK
      <4>2. /\ l = "groups" => OpenOf(j, streams') = OpenedBy(j, t, {"messages"})
            /\ l = "dms" => OpenOf(j, streams') = OpenedBy(j, t, {"messages", "groups"})
        BY <2>1, <2>3, <2>5, <3>2, <4>1 DEF OpenedBy
      <4>3. j \notin k.todo
        BY <1>0, <3>5 DEF OpOK
      <4> QED
        BY <2>2, <3>5, <4>1, <4>2, <4>3 DEF WorkOK
    <3> QED
      BY <1>0, <2>2, <2>3, <3>3, <3>5, <3>6, <3>7, OpMoves
  <2> QED
    BY <2>2, <2>4, <2>5 DEF Kinds
<1>8. CASE RegisterAddress(t) /\ ~HydrateFails(t)
  <2>1. /\ ops[t].pc = "address" /\ ops' = [ops EXCEPT ![t] = Idle]
        /\ UNCHANGED <<cstate, store, used, bound, registry, groupIds, streams, open, mixed>>
    BY <1>8 DEF RegisterAddress
  <2>2. ops[t].kind = "register"
    BY <1>0, <2>1 DEF OpOK
  <2>3. StateType' /\ \A i \in Ids : Kept(i)
    BY <1>0, <2>1 DEF StateType, Kept
  <2>4. ASSUME j \notin mixed
        PROVE  j \in store' /\ SettledOK(j, cstate, registry', groupIds'[j], OpenOf(j, streams'))
    BY <1>0, <1>1, <2>1, <2>4 DEF WorkOK, SettledOK
  <2> QED
    BY <1>0, <2>1, <2>2, <2>3, <2>4, IdleIsTyped, OpMoves
<1> QED
  BY <1>2, <1>3, <1>4, <1>5, <1>6, <1>7, <1>8

\* An identity nobody works on and nothing is left of.
LEMMA ClearIdOK ==
    ASSUME NEW i, NEW O, NEW C, NEW st, NEW R, NEW G, NEW S,
           \A u \in Tasks : ~Handles(O[u], i), i \notin R, G = {}, S = {}
    PROVE  IdOK(i, O, C, st, R, G, S)
BY DEF IdOK, WorkOK, SettledOK, Handles

\* An identity of which a step changes at most the groups routed to its client.
LEMMA SameOpsIdOK ==
    ASSUME NEW i, NEW O, NEW C, NEW st, NEW R, NEW G, NEW S, NEW stt, NEW RR, NEW GG,
           IdOK(i, O, C, st, R, G, S),
           i \in stt <=> i \in st, i \in RR <=> i \in R, i \in R \/ (G = {} => GG = {})
    PROVE  IdOK(i, O, C, stt, RR, GG, S)
BY DEF IdOK, WorkOK, SettledOK

\* Outside a start, the identities a step adds to mixed are all that anyone works on.
LEMMA UnmixedIsUnhandled ==
    ASSUME CoreInv, cstate # "starting", NEW i \in Ids, i \notin {ops[u].id : u \in Active},
           NEW u \in Tasks
    PROVE  ~Handles(ops[u], i)
<1>1. OpOK(ops[u], cstate)
  BY DEF CoreInv
<1> QED
  BY <1>1 DEF OpOK, Handles, Active

\* A task takes up an identity that nobody works on.
LEMMA TakenUpKeepsInv ==
    ASSUME CoreInv, NEW t \in Tasks, Free(t), NEW j \in Ids, NEW k \in OpType,
           k.kind \in {"register", "attach"}, k.id = j, k.pc = "keys", k.todo = {},
           ops' = [ops EXCEPT ![t] = k], cstate \in {"running", "local"},
           store' = store \cup {j}, StateType', mixed \subseteq mixed',
           UNCHANGED <<cstate, registry, groupIds, streams, open>>,
           j \notin mixed' => /\ OpenOf(j, streams) = {}
                              /\ \A u \in Tasks : ~Handles(ops[u], j)
    PROVE  CoreInv'
<1>0. CoreType /\ ops \in [Tasks -> OpType] /\ ops[t].kind = "none"
  BY DEF CoreInv, CoreType, Free
<1>1. /\ cstate' = cstate /\ registry' = registry /\ groupIds' = groupIds
      /\ streams' = streams /\ open' = open
  OBVIOUS
<1>2. ops'[t] = k /\ \A u \in Tasks : u # t => ops'[u] = ops[u]
  BY <1>0
<1>3. CoreType'
  BY <1>0, <1>1 DEF CoreType
<1>4. OpOK(k, cstate)
  BY DEF OpOK
<1>5. /\ \A u \in Tasks : OpOK(ops'[u], cstate')
      /\ \A u, v \in Tasks : ops'[u].kind = "start" /\ ops'[v].kind = "start" => u = v
  BY <1>1, <1>2, <1>4 DEF CoreInv
<1>6. ASSUME NEW i \in Ids \ mixed'
      PROVE  IdOK(i, ops', cstate', store', registry', groupIds'[i], OpenOf(i, streams'))
  <2>0. PICK G, S, stt : G = groupIds[i] /\ S = OpenOf(i, streams) /\ stt = store \cup {j}
    OBVIOUS
  <2>1. IdOK(i, ops, cstate, store, registry, G, S)
    BY <2>0 DEF CoreInv
  <2>2. CASE i # j
    <3>1. /\ i \in stt <=> i \in store
          /\ i \in registry <=> i \in registry
          /\ G = {} => G = {}
          /\ Handles(k, i) <=> Handles(ops[t], i)
          /\ Handles(k, i) => i \in k.todo /\ i \in ops[t].todo /\ k.id # i
      BY <1>0, <2>0, <2>2 DEF Handles
    <3>2. ops \in [Tasks -> OpType]
      BY <1>0
    <3>3. IdOK(i, [ops EXCEPT ![t] = k], cstate, stt, registry, G, S)
      BY <2>1, <3>1, <3>2, UntouchedIdOK, Zenon
    <3> QED
      BY <1>1, <2>0, <3>3
  <2>3. CASE i = j
    <3>1. S = {} /\ (\A u \in Tasks : u # t => ~Handles(ops[u], i)) /\ i \in stt
      BY <2>0, <2>3
    <3>2. Handles(k, i) /\ WorkOK(i, t, k, cstate, registry, S)
      BY <2>3, <3>1 DEF Handles, WorkOK
    <3>3. PICK OO : OO = [ops EXCEPT ![t] = k]
      OBVIOUS
    <3>4. IdOK(i, OO, cstate, stt, registry, G, S)
      BY <1>0, <3>1, <3>2, <3>3, OwnIdOK
    <3> QED
      BY <1>1, <2>0, <3>3, <3>4
  <2> QED
    BY <2>2, <2>3
<1> QED
  BY <1>3, <1>5, <1>6 DEF CoreInv

\* registerManagedIdentity and attachPersistedIdentity take up their identity.
LEMMA TakingUpKeepsInv ==
    ASSUME CoreInv, NEW t \in Tasks, NEW i \in Ids, Register(t, i) \/ Attach(t, i)
    PROVE  CoreInv'
<1>0. CoreType /\ StateType
  BY DEF CoreInv, CoreType
<1>1. ASSUME i \notin mixed
      PROVE  IdOK(i, ops, cstate, store, registry, groupIds[i], OpenOf(i, streams))
  BY <1>1 DEF CoreInv
<1>2. CASE Register(t, i)
  <2>1. PICK k : k = [kind |-> "register", id |-> i, pc |-> "keys", todo |-> {}, fallback |-> "error"]
    OBVIOUS
  <2>2. /\ k \in OpType /\ k.kind \in {"register", "attach"} /\ k.id = i /\ k.pc = "keys"
        /\ k.todo = {}
    BY <2>1 DEF OpType
  <2>3. /\ Free(t) /\ cstate \in {"running", "local"} /\ i \notin used
        /\ used' = used \cup {i} /\ store' = store \cup {i} /\ ops' = [ops EXCEPT ![t] = k]
        /\ UNCHANGED <<cstate, bound, registry, groupIds, streams, open, mixed>>
    BY <1>2, <2>1 DEF Register, CreateRecord
  <2>4. StateType'
    BY <1>0, <2>3 DEF StateType
  <2>5. i \notin store
    BY <1>0, <2>3 DEF StateType
  <2>6. i \notin mixed => OpenOf(i, streams) = {} /\ \A u \in Tasks : ~Handles(ops[u], i)
    BY <1>1, <2>5 DEF IdOK
  <2>7. mixed \subseteq mixed'
    BY <2>3
  <2> QED
    BY <2>2, <2>3, <2>4, <2>6, <2>7, TakenUpKeepsInv
<1>3. CASE Attach(t, i)
  <2>1. PICK k : k = [kind |-> "attach", id |-> i, pc |-> "keys", todo |-> {}, fallback |-> "error"]
    OBVIOUS
  <2>2. /\ k \in OpType /\ k.kind \in {"register", "attach"} /\ k.id = i /\ k.pc = "keys"
        /\ k.todo = {}
    BY <2>1 DEF OpType
  <2>3. /\ Free(t) /\ cstate \in {"running", "local"} /\ i \in store \ registry
        /\ ops' = [ops EXCEPT ![t] = k]
        /\ UNCHANGED <<cstate, store, used, bound, registry, groupIds, streams, open>>
    BY <1>3, <2>1 DEF Attach
  <2>4. StateType' /\ store' = store \cup {i}
    BY <1>0, <2>3 DEF StateType
  <2>5. mixed \subseteq mixed' /\ (i \notin mixed' => i \notin mixed /\ ~Handled(i))
    BY <1>3 DEF Attach
  <2>6. i \notin mixed' => OpenOf(i, streams) = {} /\ \A u \in Tasks : ~Handles(ops[u], i)
    BY <1>0, <1>1, <2>3, <2>5, HandledIs DEF IdOK, SettledOK
  <2> QED
    BY <2>2, <2>3, <2>4, <2>5, <2>6, TakenUpKeepsInv
<1> QED
  BY <1>2, <1>3

\* startLocal, start and stop: whoever an operation works on is mixed.
LEMMA StateStepsKeepInv ==
    ASSUME CoreInv, StartLocal \/ Stop \/ \E t \in Tasks : Start(t)
    PROVE  CoreInv'
<1>0. /\ CoreType /\ StateType /\ ops \in [Tasks -> OpType]
      /\ cstate \in {"idle", "local", "running", "error"} /\ open
  BY DEF CoreInv, CoreType, StartLocal, Stop, Start
<1>1. ASSUME NEW i \in Ids \ mixed
      PROVE  IdOK(i, ops, cstate, store, registry, groupIds[i], OpenOf(i, streams))
  BY DEF CoreInv
<1>2. \A u \in Tasks : OpOK(ops[u], cstate) /\ ops[u].kind # "start"
  BY <1>0 DEF CoreInv, OpOK
<1>3. \A C : \A u \in Tasks : OpOK(ops[u], C)
  BY <1>2 DEF OpOK
<1>4. CASE StartLocal
  <2>1. /\ cstate = "idle" /\ cstate' = "local"
        /\ UNCHANGED <<store, used, bound, registry, groupIds, streams, open, ops, mixed>>
    BY <1>4 DEF StartLocal
  <2>2. CoreType'
    BY <1>0, <2>1 DEF CoreType, StateType
  <2>3. ASSUME NEW i \in Ids \ mixed
        PROVE  IdOK(i, ops', cstate', store', registry', groupIds'[i], OpenOf(i, streams'))
    <3>1. IdOK(i, ops, cstate, store, registry, groupIds[i], OpenOf(i, streams))
      BY <1>1
    <3>2. ASSUME NEW u \in Tasks
          PROVE  ~Handles(ops[u], i)
      <4>1. WorkOK(i, u, ops[u], cstate, registry, OpenOf(i, streams))
        BY <3>1 DEF IdOK
      <4> QED
        BY <1>2, <2>1, <4>1 DEF Handles, WorkOK, OpOK
    <3>3. i \notin registry /\ groupIds[i] = {} /\ OpenOf(i, streams) = {}
      BY <2>1, <3>1, <3>2 DEF IdOK, SettledOK
    <3> QED
      BY <2>1, <3>2, <3>3, ClearIdOK
  <2>4. /\ \A u \in Tasks : OpOK(ops'[u], cstate')
        /\ \A u, v \in Tasks : ops'[u].kind = "start" /\ ops'[v].kind = "start" => u = v
    BY <1>2, <1>3, <2>1
  <2> QED
    BY <2>1, <2>2, <2>3, <2>4 DEF CoreInv
<1>5. CASE Stop
  <2>1. /\ cstate' = "stopped" /\ streams' = {} /\ registry' = {} /\ groupIds' = [i \in Ids |-> {}]
        /\ open' = FALSE /\ mixed' = mixed \cup {ops[u].id : u \in Active}
        /\ UNCHANGED <<store, used, bound, ops>>
    BY <1>5 DEF Stop
  <2>2. CoreType'
    BY <1>0, <2>1 DEF CoreType, StateType
  <2>3. \A i \in Ids \ mixed' : i \notin mixed /\ \A u \in Tasks : ~Handles(ops'[u], i)
    BY <1>0, <2>1, UnmixedIsUnhandled
  <2>4. /\ \A u \in Tasks : OpOK(ops'[u], cstate')
        /\ \A u, v \in Tasks : ops'[u].kind = "start" /\ ops'[v].kind = "start" => u = v
    BY <1>2, <1>3, <2>1
  <2> QED
    BY <2>1, <2>2, <2>3, <2>4, EverythingGone
<1>6. ASSUME NEW t \in Tasks, Start(t)
      PROVE  CoreInv'
  <2>1. /\ ops[t].kind = "none" /\ cstate \in {"idle", "local"}
        /\ mixed' = mixed \cup {ops[u].id : u \in Active}
        /\ UNCHANGED <<store, used, bound, registry, groupIds, streams, open>>
    BY <1>6 DEF Start, Free
  <2>2. StateType'
    BY <1>0, <2>1 DEF StateType
  <2>3. ASSUME NEW i \in Ids \ mixed'
        PROVE  /\ i \notin mixed /\ \A u \in Tasks : ~Handles(ops[u], i)
               /\ OpenOf(i, streams) = {}
               /\ i \notin store => i \notin registry /\ groupIds[i] = {}
    <3>1. i \notin mixed /\ \A u \in Tasks : ~Handles(ops[u], i)
      BY <1>0, <2>1, <2>3, UnmixedIsUnhandled
    <3>2. IdOK(i, ops, cstate, store, registry, groupIds[i], OpenOf(i, streams))
      BY <1>1, <3>1
    <3> QED
      BY <2>1, <3>1, <3>2 DEF IdOK, SettledOK
  <2>4. CASE store = {} /\ cstate' = "running" /\ ops' = ops
    <3>1. CoreType'
      BY <1>0, <2>1, <2>2, <2>4 DEF CoreType
    <3>2. ASSUME NEW i \in Ids \ mixed'
          PROVE  IdOK(i, ops', cstate', store', registry', groupIds'[i], OpenOf(i, streams'))
      <4>1. /\ \A u \in Tasks : ~Handles(ops[u], i)
            /\ i \notin registry /\ groupIds[i] = {} /\ OpenOf(i, streams) = {}
        BY <2>3, <2>4
      <4> QED
        BY <2>1, <2>4, <4>1, ClearIdOK
    <3>3. /\ \A u \in Tasks : OpOK(ops'[u], cstate')
          /\ \A u, v \in Tasks : ops'[u].kind = "start" /\ ops'[v].kind = "start" => u = v
      BY <1>2, <1>3, <2>4
    <3> QED
      BY <3>1, <3>2, <3>3 DEF CoreInv
  <2>5. CASE ~(store = {} /\ cstate' = "running" /\ ops' = ops)
    <3>1. PICK j \in store :
            ops' = [ops EXCEPT ![t] = [kind |-> "start", id |-> j, pc |-> "keys",
                      todo |-> store \ {j},
                      fallback |-> IF cstate = "local" THEN "local" ELSE "error"]]
      BY <1>6, <2>5 DEF Start
    <3>2. cstate' = "starting"
      BY <1>6, <2>5 DEF Start
    <3>3. PICK k : k = [kind |-> "start", id |-> j, pc |-> "keys", todo |-> store \ {j},
                        fallback |-> IF cstate = "local" THEN "local" ELSE "error"]
      OBVIOUS
    <3>4. k.kind = "start" /\ k.id = j /\ k.pc = "keys" /\ k.todo = store \ {j} /\ k \in OpType
      BY <1>0, <3>3 DEF OpType, StateType
    <3>5. ops' = [ops EXCEPT ![t] = k]
      BY <3>1, <3>3
    <3>6. ops'[t] = k /\ ops' \in [Tasks -> OpType] /\ \A u \in Tasks : u # t => ops'[u] = ops[u]
      BY <1>0, <3>4, <3>5
    <3>7. CoreType'
      BY <1>0, <2>1, <2>2, <3>2, <3>6 DEF CoreType
    <3>8. OpOK(k, cstate')
      BY <1>0, <3>2, <3>4 DEF OpOK, StateType
    <3>9. /\ \A u \in Tasks : OpOK(ops'[u], cstate')
          /\ \A u, v \in Tasks : ops'[u].kind = "start" /\ ops'[v].kind = "start" => u = v
      BY <1>2, <1>3, <3>6, <3>8
    <3>10. ASSUME NEW i \in Ids \ mixed'
           PROVE  IdOK(i, ops', cstate', store', registry', groupIds'[i], OpenOf(i, streams'))
      <4>0. PICK G, S, OO, CC : /\ G = groupIds[i] /\ S = OpenOf(i, streams)
                               /\ OO = [ops EXCEPT ![t] = k] /\ CC = "starting"
        OBVIOUS
      <4>1. /\ \A u \in Tasks : u # t => ~Handles(ops[u], i)
            /\ S = {} /\ (i \notin store => i \notin registry /\ G = {})
        BY <2>3, <4>0
      <4>2. i \in store => Handles(k, i) /\ WorkOK(i, t, k, CC, registry, S)
        BY <3>4, <4>0, <4>1 DEF Handles, WorkOK
      <4>3. i \notin store => ~Handles(k, i) /\ SettledOK(i, CC, registry, G, S)
        BY <3>4, <4>1 DEF Handles, SettledOK
      <4>4. IdOK(i, OO, CC, store, registry, G, S)
        BY <1>0, <4>0, <4>1, <4>2, <4>3, OwnIdOK
      <4> QED
        BY <2>1, <3>2, <3>5, <4>0, <4>4
    <3> QED
      BY <3>7, <3>9, <3>10 DEF CoreInv
  <2> QED
    BY <2>4, <2>5
<1> QED
  BY <1>4, <1>5, <1>6

\* What happens to a live identity: it joins a group, it is removed, or the chat
\* it is bound to is.
LEMMA LiveStepsKeepInv ==
    ASSUME CoreInv,
           \/ \E i \in Ids : RemoveInbox(i) \/ \E g \in Groups : GroupJoined(i, g)
           \/ \E g \in Groups : RemoveChat(g)
    PROVE  CoreInv'
<1>0. CoreType /\ StateType
  BY DEF CoreInv, CoreType
<1>1. UNCHANGED <<cstate, open, ops, used, bound>> /\ mixed \subseteq mixed'
  BY DEF GroupJoined, RemoveInbox, RemoveChat
<1>2. ASSUME StateType',
             \A x \in Ids \ mixed' :
               IdOK(x, ops, cstate, store', registry', groupIds'[x], OpenOf(x, streams'))
      PROVE  CoreInv'
  <2>1. CoreType'
    BY <1>0, <1>1, <1>2 DEF CoreType
  <2> QED
    BY <1>1, <1>2, <2>1 DEF CoreInv
<1>3. ASSUME NEW x \in Ids \ mixed', OpenOf(x, streams') = OpenOf(x, streams),
             x \in store' <=> x \in store, x \in registry' <=> x \in registry,
             x \in registry \/ (groupIds[x] = {} => groupIds'[x] = {})
      PROVE  IdOK(x, ops, cstate, store', registry', groupIds'[x], OpenOf(x, streams'))
  <2>1. IdOK(x, ops, cstate, store, registry, groupIds[x], OpenOf(x, streams))
    BY <1>1 DEF CoreInv
  <2> QED
    BY <1>3, <2>1, SameOpsIdOK
<1>4. ASSUME NEW i \in Ids, NEW g \in Groups, GroupJoined(i, g)
      PROVE  CoreInv'
  <2>1. /\ i \in registry /\ groupIds' = [groupIds EXCEPT ![i] = groupIds[i] \cup {g}]
        /\ UNCHANGED <<store, registry, streams>>
    BY <1>4 DEF GroupJoined
  <2>2. StateType'
    BY <1>0, <1>1, <2>1 DEF StateType
  <2>3. \A x \in Ids : x \in registry \/ (groupIds[x] = {} => groupIds'[x] = {})
    BY <1>0, <2>1 DEF StateType
  <2> QED
    BY <1>2, <1>3, <2>1, <2>2, <2>3
<1>5. ASSUME NEW i \in Ids, RemoveInbox(i)
      PROVE  CoreInv'
  <2>1. /\ streams' = {s \in streams : s.id # i} /\ registry' = registry \ {i}
        /\ groupIds' = [groupIds EXCEPT ![i] = {}] /\ store' = store \ {i}
        /\ i \notin mixed' => ~Handled(i)
    BY <1>5 DEF RemoveInbox, Detach, RemoveRecords
  <2>2. StateType'
    BY <1>0, <1>1, <2>1 DEF StateType
  <2>3. \A x \in Ids : x # i => /\ OpenOf(x, streams') = OpenOf(x, streams)
                                /\ x \in store' <=> x \in store
                                /\ x \in registry' <=> x \in registry
                                /\ groupIds[x] = {} => groupIds'[x] = {}
    BY <1>0, <2>1 DEF StateType, OpenOf
  <2>4. OpenOf(i, streams') = {} /\ i \notin registry' /\ groupIds'[i] = {}
    BY <1>0, <2>1 DEF StateType, OpenOf
  <2>5. i \notin mixed' => \A u \in Tasks : ~Handles(ops[u], i)
    BY <1>0, <2>1, HandledIs
  <2>6. i \notin mixed' => IdOK(i, ops, cstate, store', registry', groupIds'[i], OpenOf(i, streams'))
    BY <2>4, <2>5, ClearIdOK
  <2> QED
    BY <1>2, <1>3, <2>2, <2>3, <2>6
<1>6. ASSUME NEW g \in Groups, RemoveChat(g)
      PROVE  CoreInv'
  <2>1. PICK gone : gone = {x \in store : bound[x] = g}
    OBVIOUS
  <2>2. /\ registry' = registry \ gone /\ store' = store \ gone /\ mixed' = mixed \cup gone
        /\ groupIds' = [x \in Ids |-> IF x \in gone THEN {} ELSE groupIds[x] \ {g}]
        /\ streams' = streams
    BY <1>6, <2>1 DEF RemoveChat, RemoveRecords
  <2>3. StateType'
    BY <1>0, <1>1, <2>2 DEF StateType
  <2>4. \A x \in Ids \ mixed' : /\ x \in store' <=> x \in store
                                /\ x \in registry' <=> x \in registry
                                /\ groupIds[x] = {} => groupIds'[x] = {}
    BY <2>2
  <2> QED
    BY <1>2, <1>3, <2>2, <2>3, <2>4
<1> QED
  BY <1>4, <1>5, <1>6

\* The invariant of the core.
LEMMA CoreKeepsInv == CoreSpec => []CoreInv
<1>1. CInit => CoreInv
  <2> SUFFICES ASSUME CInit PROVE CoreInv
    OBVIOUS
  <2>1. /\ cstate = "idle" /\ store = Stored /\ used = Stored /\ registry = {} /\ streams = {}
        /\ bound \in [Ids -> Groups \cup {NoGroup}] /\ groupIds = [i \in Ids |-> {}]
        /\ open = TRUE /\ ops = [t \in Tasks |-> Idle]
    BY DEF CInit
  <2>2. StateType
    BY <2>1, StoredAssumption DEF StateType
  <2>3. CoreType
    BY <2>1, <2>2, IdleIsTyped DEF CoreType
  <2>4. \A t \in Tasks : ops[t] = Idle
    BY <2>1
  <2>5. /\ \A t \in Tasks : OpOK(ops[t], cstate) /\ ops[t].kind # "start"
        /\ \A i \in Ids : \A t \in Tasks : ~Handles(ops[t], i)
    BY <2>4, IdleIsTyped DEF Handles
  <2>6. \A i \in Ids : i \notin registry /\ groupIds[i] = {} /\ OpenOf(i, streams) = {}
    BY <2>1 DEF OpenOf
  <2>7. \A i \in Ids : IdOK(i, ops, cstate, store, registry, groupIds[i], OpenOf(i, streams))
    BY <2>5, <2>6, ClearIdOK
  <2> QED
    BY <2>3, <2>5, <2>7 DEF CoreInv
<1>2. ASSUME CoreInv, CNext PROVE CoreInv'
  BY <1>2, StateStepsKeepInv, HydratingKeepsInv, TakingUpKeepsInv, LiveStepsKeepInv DEF CNext
<1>3. ASSUME CoreInv, UNCHANGED cvars PROVE CoreInv'
  BY <1>3 DEF CoreInv, CoreType, StateType, cvars
<1> QED
  BY <1>1, <1>2, <1>3, PTL DEF CoreSpec

(***************************************************************************)
(* No half-live identity, whatever the store held and however many         *)
(* operations are under way: a failed step of #hydrateIdentity, a stop or  *)
(* a removal leaves an identity either gone or complete.                   *)
(***************************************************************************)
THEOREM AlwaysLiveOrGone == CoreSpec => []LiveOrGone
BY CoreKeepsInv, CoreInvIsLiveOrGone, PTL

-----------------------------------------------------------------------------
(***************************************************************************)
(* Read elevations.  The largest expiry of the entries exists because they *)
(* are bounded by the clock and the lifetime of an elevation.              *)
(***************************************************************************)
\* A set of naturals that is not empty has a least element.
LEMMA LeastNatural ==
  ASSUME NEW T \in SUBSET Nat, T # {}
  PROVE  \E m \in T : \A n \in T : m <= n
<1> DEFINE R == {p \in Nat \X Nat : p[1] < p[2]}
<1>1. IsWellFoundedOn(R, Nat)
  BY NatLessThanWellFounded DEF OpToRel
<1> HIDE DEF R
<1>2. PICK m \in T : \A n \in T : ~ (<<n, m>> \in R)
  BY <1>1, WFMin, Zenon
<1>3. \A n \in T : ~ (n < m)
  BY <1>2 DEF R
<1> QED
  BY <1>3

\* A bounded function into the naturals has a largest value, and Aggregate is it.
LEMMA AggregateIsLargest ==
  ASSUME NEW e \in [Sessions -> Nat], NEW b \in Nat, \A s \in Sessions : e[s] <= b
  PROVE  /\ Aggregate(e) \in Nat
         /\ \A s \in Sessions : e[s] <= Aggregate(e)
         /\ \E s \in Sessions : Aggregate(e) = e[s]
<1> DEFINE T == {b - e[s] : s \in Sessions}
           S == {e[s] : s \in Sessions}
<1>1. T \in SUBSET Nat /\ T # {}
  BY ElevationAssumption
<1>2. PICK m \in T : \A n \in T : m <= n
  <2> HIDE DEF T
  <2> QED BY <1>1, LeastNatural
<1>3. PICK s \in Sessions : m = b - e[s]
  BY <1>2
<1>4. \A o \in Sessions : e[o] <= e[s]
  <2> SUFFICES ASSUME NEW o \in Sessions PROVE e[o] <= e[s]
    OBVIOUS
  <2>1. m <= b - e[o]
    BY <1>2
  <2> QED
    BY <2>1, <1>3
<1>5. e[s] \in S /\ \A y \in S : e[s] >= y
  BY <1>4
<1>6. Aggregate(e) \in S /\ \A y \in S : Aggregate(e) >= y
  BY <1>5 DEF Aggregate, Max
<1> QED
  BY <1>6

(***************************************************************************)
(* The inductive invariant.  A live entry was published on every seal or   *)
(* is about to be, by the approval that set it; whatever another request   *)
(* fails or rolls back meanwhile, a refreshed seal covers every live entry.*)
(* A session that never had two requests at once finds its entry as its    *)
(* own request left it.  Both hold until a rollback fails as well.         *)
(***************************************************************************)
ReqType ==
  [pc : {"idle", "reuse", "ask", "approve", "expired", "expiredThenAsk"} \cup Refreshing,
   session : Sessions \cup {"none"}, exp : Nat, todo : SUBSET Seals,
   next : {"end", "expired", "expiredThenAsk", "approve"}]

EType ==
  /\ clock \in Nat /\ rollbacks \in Int
  /\ cache \in [Sessions -> Nat] /\ timer \in [Sessions -> Nat] /\ entries \in [Sessions -> Nat]
  /\ sealed \in [Seals -> Nat]
  /\ reqs \in [Requests -> ReqType]
  /\ crossed \subseteq Sessions /\ broken \in BOOLEAN

\* Request q works for session s.
Mine(q, s) == q.pc # "idle" /\ q.session = s

\* Nothing ends later than an elevation approved now; cache and timer agree.
EBounded ==
  /\ \A s \in Sessions : /\ entries[s] <= clock + Ttl
                         /\ cache[s] <= clock + Ttl
                         /\ timer[s] = cache[s]
  /\ \A r \in Requests : reqs[r].exp <= clock + Ttl

\* What each step of a request comes with, t being the time.
ReqOK(q, t) ==
  /\ q.pc # "idle" => q.session \in Sessions
  /\ q.pc = "disclosing" => q.next = "approve"
  /\ q.pc = "retracting" => q.next # "approve"
  /\ q.pc = "retracting" /\ q.next # "end" => q.exp <= t

\* A live entry is disclosed by every seal, or the approval that set it still has
\* the seal before it.
ECovered ==
  \A s \in Sessions, x \in Seals : entries[s] > clock =>
    \/ sealed[x] >= entries[s]
    \/ \E r \in Requests : /\ reqs[r].pc = "disclosing" /\ reqs[r].session = s
                           /\ x \in reqs[r].todo

\* What a session with request q under way has: c is its cached expiry, e its entry.
OwnOK(q, c, e, t) ==
  \/ q.pc = "reuse"
  \/ /\ c = 0
     /\ IF q.pc \in {"disclosing", "approve"}
        THEN (q.exp > t => e = q.exp) /\ (e > t => e = q.exp)
        ELSE e <= t

\* The cache and the store agree on an elevation that is live.
Agree(c, e, t) == (c > t => e = c) /\ (e > t => c = e)

EOwn ==
  \A s \in Sessions \ crossed :
    /\ \A r, q \in Requests : Mine(reqs[r], s) /\ Mine(reqs[q], s) => r = q
    /\ \A r \in Requests : Mine(reqs[r], s) => OwnOK(reqs[r], cache[s], entries[s], clock)
    /\ (\A r \in Requests : Mine(reqs[r], s) => reqs[r].pc = "reuse")
         => Agree(cache[s], entries[s], clock)

ElevInv ==
  /\ EType /\ EBounded
  /\ \A r \in Requests : ReqOK(reqs[r], clock)
  /\ ~broken => ECovered /\ EOwn

(***************************************************************************)
(* A step of request r, which works for session s and becomes k.           *)
(***************************************************************************)
RequestMoves(r, s, k) ==
  /\ k \in ReqType /\ ReqOK(k, clock) /\ k.exp <= clock + Ttl
  /\ reqs' = [reqs EXCEPT ![r] = k]
  /\ k.pc = "idle" \/ k.session = s
  /\ reqs[r].pc = "idle" \/ reqs[r].session = s
  /\ clock' = clock /\ rollbacks' \in Int /\ broken' \in BOOLEAN
  /\ ~broken' => ~broken
  /\ crossed' \subseteq Sessions
  /\ crossed \subseteq crossed' /\ crossed' \subseteq crossed \cup {s}
  /\ ~broken' /\ s \notin crossed' => \A q \in Requests \ {r} : ~Mine(reqs[q], s)

\* The other sessions keep what they have, but for entries that expired.
StoreMoves(s) ==
  /\ cache' \in [Sessions -> Nat] /\ timer' \in [Sessions -> Nat] /\ entries' \in [Sessions -> Nat]
  /\ entries'[s] <= clock + Ttl /\ cache'[s] <= clock + Ttl /\ timer'[s] = cache'[s]
  /\ \A o \in Sessions \ {s} : /\ cache'[o] = cache[o] /\ timer'[o] = timer[o]
                               /\ \/ entries'[o] = entries[o]
                                  \/ entries'[o] = 0 /\ entries[o] <= clock

\* A seal that is refreshed discloses every live entry.
SealsMove ==
  /\ sealed' \in [Seals -> Nat]
  /\ \A x \in Seals : \/ sealed'[x] = sealed[x]
                      \/ \A o \in Sessions : entries'[o] > clock => sealed'[x] >= entries'[o]

\* Session s itself.
OwnMoves(r, s, k) ==
  ~broken' =>
    /\ \A x \in Seals : entries'[s] > clock =>
         \/ sealed'[x] >= entries'[s]
         \/ k.pc = "disclosing" /\ x \in k.todo
         \/ entries'[s] = entries[s] /\ ~(reqs[r].pc = "disclosing" /\ x \in reqs[r].todo)
    /\ s \notin crossed' =>
         /\ k.pc # "idle" => OwnOK(k, cache'[s], entries'[s], clock)
         /\ k.pc \in {"idle", "reuse"} => Agree(cache'[s], entries'[s], clock)

\* The step keeps the invariant.
LEMMA RequestKeepsInv ==
  ASSUME ElevInv, NEW r \in Requests, NEW s \in Sessions, NEW k,
         RequestMoves(r, s, k), StoreMoves(s), SealsMove, OwnMoves(r, s, k)
  PROVE  ElevInv'
<1> USE DEF ElevInv
<1>1. EType'
  BY DEF EType, RequestMoves, StoreMoves, SealsMove
<1>2. EBounded'
  <2>1. ASSUME NEW o \in Sessions
        PROVE  entries'[o] <= clock' + Ttl /\ cache'[o] <= clock' + Ttl /\ timer'[o] = cache'[o]
    BY <2>1, ElevationAssumption DEF EType, EBounded, RequestMoves, StoreMoves
  <2>2. ASSUME NEW q \in Requests PROVE reqs'[q].exp <= clock' + Ttl
    BY <2>2 DEF EType, EBounded, RequestMoves
  <2> QED
    BY <2>1, <2>2 DEF EBounded
<1>3. ASSUME NEW q \in Requests PROVE ReqOK(reqs'[q], clock')
  BY <1>3 DEF EType, RequestMoves
<1>4. ASSUME ~broken' PROVE ECovered'
  <2> SUFFICES ASSUME NEW o \in Sessions, NEW x \in Seals, entries'[o] > clock',
                      ~(sealed'[x] >= entries'[o])
               PROVE  \E q \in Requests : /\ reqs'[q].pc = "disclosing" /\ reqs'[q].session = o
                                          /\ x \in reqs'[q].todo
    BY DEF ECovered
  <2>0. ~broken /\ ECovered /\ clock' = clock /\ clock \in Nat
    BY <1>4 DEF RequestMoves, EType
  <2>1. sealed'[x] = sealed[x]
    BY <2>0 DEF SealsMove
  <2>2. reqs'[r] = k /\ \A q \in Requests \ {r} : reqs'[q] = reqs[q]
    BY DEF RequestMoves, EType
  <2>3. CASE o = s
    <3>1. CASE k.pc = "disclosing" /\ x \in k.todo
      BY <3>1, <2>2, <2>3 DEF RequestMoves
    <3>2. CASE entries'[s] = entries[s] /\ ~(reqs[r].pc = "disclosing" /\ x \in reqs[r].todo)
      <4>1. PICK q \in Requests : reqs[q].pc = "disclosing" /\ reqs[q].session = s
                                    /\ x \in reqs[q].todo
        BY <3>2, <2>0, <2>1, <2>3 DEF ECovered
      <4> QED
        BY <4>1, <3>2, <2>2, <2>3
    <3> QED
      BY <3>1, <3>2, <2>0, <2>3, <1>4 DEF OwnMoves
  <2>4. CASE o # s
    <3>1. entries'[o] = entries[o]
      BY <2>4, <2>0 DEF StoreMoves
    <3>2. PICK q \in Requests : reqs[q].pc = "disclosing" /\ reqs[q].session = o
                                  /\ x \in reqs[q].todo
      BY <3>1, <2>0, <2>1 DEF ECovered
    <3>3. q # r
      BY <3>2, <2>4 DEF RequestMoves
    <3> QED
      BY <3>2, <3>3, <2>2
  <2> QED
    BY <2>3, <2>4
<1>5. ASSUME ~broken' PROVE EOwn'
  <2>0. ~broken /\ EOwn /\ clock' = clock
    BY <1>5 DEF RequestMoves
  <2>2. reqs'[r] = k /\ \A q \in Requests \ {r} : reqs'[q] = reqs[q]
    BY DEF RequestMoves, EType
  <2> SUFFICES ASSUME NEW o \in Sessions \ crossed'
               PROVE  /\ \A p, q \in Requests : Mine(reqs'[p], o) /\ Mine(reqs'[q], o) => p = q
                      /\ \A p \in Requests : Mine(reqs'[p], o)
                                      => OwnOK(reqs'[p], cache'[o], entries'[o], clock')
                      /\ (\A p \in Requests : Mine(reqs'[p], o) => reqs'[p].pc = "reuse")
                            => Agree(cache'[o], entries'[o], clock')
    BY Zenon DEF EOwn
  <2>1. o \in Sessions \ crossed
    BY DEF RequestMoves
  <2>3. CASE o = s
    <3>1. \A q \in Requests \ {r} : ~Mine(reqs'[q], o)
      BY <2>2, <2>3, <1>5 DEF RequestMoves
    <3>2. Mine(reqs'[r], o) <=> k.pc # "idle"
      BY <2>2, <2>3 DEF RequestMoves, Mine
    <3>3. /\ k.pc # "idle" => OwnOK(k, cache'[o], entries'[o], clock)
          /\ k.pc \in {"idle", "reuse"} => Agree(cache'[o], entries'[o], clock)
      BY <2>3, <1>5 DEF OwnMoves
    <3> QED
      BY <3>1, <3>2, <3>3, <2>0, <2>2
  <2>4. CASE o # s
    <3>1. \A q \in Requests : Mine(reqs'[q], o) <=> Mine(reqs[q], o)
      BY <2>2, <2>4 DEF RequestMoves, Mine
    <3>2. \A q \in Requests : Mine(reqs[q], o) => reqs'[q] = reqs[q]
      BY <2>2, <2>4 DEF RequestMoves, Mine
    <3>3. /\ \A p, q \in Requests : Mine(reqs[p], o) /\ Mine(reqs[q], o) => p = q
          /\ \A p \in Requests : Mine(reqs[p], o)
                                      => OwnOK(reqs[p], cache[o], entries[o], clock)
          /\ (\A p \in Requests : Mine(reqs[p], o) => reqs[p].pc = "reuse")
                            => Agree(cache[o], entries[o], clock)
      BY <2>0, <2>1, Zenon DEF EOwn
    <3>4. /\ cache'[o] = cache[o]
          /\ entries'[o] = entries[o] \/ (entries'[o] = 0 /\ entries[o] <= clock)
          /\ clock \in Nat /\ entries[o] \in Nat /\ cache[o] \in Nat
      BY <2>4 DEF StoreMoves, EType
    <3>5. ASSUME NEW p \in Requests, OwnOK(reqs[p], cache[o], entries[o], clock)
          PROVE  OwnOK(reqs[p], cache'[o], entries'[o], clock)
      <4>1. reqs[p].exp \in Nat
        BY DEF EType, ReqType
      <4> QED
        BY <3>4, <3>5, <4>1 DEF OwnOK
    <3>6. Agree(cache[o], entries[o], clock) => Agree(cache'[o], entries'[o], clock)
      BY <3>4 DEF Agree
    <3> QED
      BY <3>1, <3>2, <3>3, <3>5, <3>6, <2>0
  <2> QED
    BY <2>3, <2>4
<1> QED
  BY <1>1, <1>2, <1>3, <1>4, <1>5

\* The store without its expired entries.
LEMMA LiveEntries ==
  ASSUME EType
  PROVE  /\ Live(entries) \in [Sessions -> Nat]
         /\ \A o \in Sessions : \/ Live(entries)[o] = entries[o]
                                \/ Live(entries)[o] = 0 /\ entries[o] <= clock
         /\ \A o \in Sessions : entries[o] > clock => Live(entries)[o] = entries[o]
BY DEF EType, Live

\* A deletion leaves the others their live entries.
LEMMA DeletedEntry ==
  ASSUME EType, NEW s \in Sessions
  PROVE  /\ DeleteEntry(s) \in [Sessions -> Nat] /\ DeleteEntry(s)[s] = 0
         /\ \A o \in Sessions \ {s} : \/ DeleteEntry(s)[o] = entries[o]
                                      \/ DeleteEntry(s)[o] = 0 /\ entries[o] <= clock
<1> DEFINE L == Live(entries)
<1>1. /\ L \in [Sessions -> Nat]
      /\ \A o \in Sessions : L[o] = entries[o] \/ (L[o] = 0 /\ entries[o] <= clock)
  BY LiveEntries
<1>2. DeleteEntry(s) = [L EXCEPT ![s] = 0]
  BY DEF DeleteEntry
<1> HIDE DEF L
<1> QED
  BY <1>1, <1>2

\* A request under way works for a session, and for one that never had two at
\* once it is the only one.
LEMMA BusyIsAlone ==
  ASSUME ElevInv, NEW r \in Requests, reqs[r].pc # "idle"
  PROVE  /\ reqs[r].session \in Sessions
         /\ ~broken /\ reqs[r].session \notin crossed =>
              /\ \A q \in Requests \ {r} : ~Mine(reqs[q], reqs[r].session)
              /\ OwnOK(reqs[r], cache[reqs[r].session], entries[reqs[r].session], clock)
<1>1. reqs[r].session \in Sessions
  BY DEF ElevInv, ReqOK
<1>2. ASSUME ~broken, reqs[r].session \notin crossed
      PROVE  /\ \A q \in Requests \ {r} : ~Mine(reqs[q], reqs[r].session)
             /\ OwnOK(reqs[r], cache[reqs[r].session], entries[reqs[r].session], clock)
  <2>1. Mine(reqs[r], reqs[r].session)
    BY DEF Mine
  <2>2. EOwn
    BY <1>2 DEF ElevInv
  <2> QED
    BY <1>1, <1>2, <2>1, <2>2 DEF EOwn
<1> QED
  BY <1>1, <1>2

\* Steps that take an entry back.
LEMMA RetractKeepsInv ==
  ASSUME ElevInv, NEW r \in Requests, NEW s \in Sessions, NEW exp \in Nat,
         NEW next \in {"end", "expired", "expiredThenAsk"},
         exp <= clock + Ttl, next # "end" => exp <= clock,
         Retract(r, s, exp, next),
         reqs[r].pc = "idle" \/ (reqs[r].pc = "approve" /\ reqs[r].session = s),
         UNCHANGED <<clock, rollbacks, sealed, broken>>,
         crossed' \subseteq Sessions,
         crossed \subseteq crossed', crossed' \subseteq crossed \cup {s},
         ~broken' /\ s \notin crossed' => \A q \in Requests \ {r} : ~Mine(reqs[q], s),
         cache' \in [Sessions -> Nat], timer' \in [Sessions -> Nat],
         cache'[s] <= clock + Ttl, timer'[s] = cache'[s],
         \A o \in Sessions \ {s} : cache'[o] = cache[o] /\ timer'[o] = timer[o],
         ~broken' /\ s \notin crossed' => cache'[s] = 0
  PROVE  ElevInv'
<1> DEFINE q == [pc |-> "retracting", session |-> s, exp |-> exp, todo |-> Seals, next |-> next]
<1>0. EType
  BY DEF ElevInv
<1>1. PICK k : k = IF Changed(DeleteEntry(s)) THEN q ELSE Onwards(q)
  OBVIOUS
<1>2. /\ k \in ReqType /\ ReqOK(k, clock) /\ k.exp <= clock + Ttl
      /\ k.pc = "idle" \/ k.session = s
      /\ k.pc \in {"idle", "retracting", "expired", "expiredThenAsk"}
  <2>1. CASE k = q
    BY <2>1 DEF ReqType, ReqOK, Refreshing
  <2>2. CASE k = NoReq
    BY <2>2, <1>0, ElevationAssumption DEF ReqType, ReqOK, NoReq, EType
  <2>3. CASE k = [q EXCEPT !.todo = {}, !.pc = next] /\ next # "end"
    BY <2>3 DEF ReqType, ReqOK, Refreshing
  <2> QED
    BY <1>1, <2>1, <2>2, <2>3 DEF Onwards
<1>3. entries' = DeleteEntry(s) /\ reqs' = [reqs EXCEPT ![r] = k]
  BY <1>1 DEF Retract
<1>4. /\ entries' \in [Sessions -> Nat] /\ entries'[s] = 0
      /\ \A o \in Sessions \ {s} : entries'[o] = entries[o] \/ (entries'[o] = 0 /\ entries[o] <= clock)
  BY <1>0, <1>3, DeletedEntry
<1>5. RequestMoves(r, s, k)
  BY <1>0, <1>2, <1>3 DEF RequestMoves, EType
<1>6. StoreMoves(s)
  BY <1>0, <1>4, ElevationAssumption DEF StoreMoves, EType
<1>7. SealsMove
  BY <1>0 DEF SealsMove, EType
<1>8. OwnMoves(r, s, k)
  <2>1. s \notin crossed' /\ ~broken' => OwnOK(k, cache'[s], entries'[s], clock)
    BY <1>0, <1>2, <1>4 DEF OwnOK, EType
  <2>2. s \notin crossed' /\ ~broken' => Agree(cache'[s], entries'[s], clock)
    BY <1>0, <1>4 DEF Agree, EType
  <2> QED
    BY <1>0, <1>4, <2>1, <2>2 DEF OwnMoves, EType
<1> HIDE DEF q
<1> QED
  BY <1>5, <1>6, <1>7, <1>8, RequestKeepsInv, Zenon

\* Steps that leave the cache, the store and the seals alone.
LEMMA QuietKeepsInv ==
  ASSUME ElevInv, NEW r \in Requests, NEW s \in Sessions, NEW k,
         RequestMoves(r, s, k), reqs[r].pc # "disclosing",
         UNCHANGED <<cache, timer, entries, sealed>>,
         ~broken' /\ s \notin crossed' =>
           /\ k.pc # "idle" => OwnOK(k, cache[s], entries[s], clock)
           /\ k.pc \in {"idle", "reuse"} => Agree(cache[s], entries[s], clock)
  PROVE  ElevInv'
<1>1. StoreMoves(s)
  BY DEF ElevInv, EType, EBounded, StoreMoves
<1>2. SealsMove
  BY DEF ElevInv, EType, SealsMove
<1>3. OwnMoves(r, s, k)
  BY DEF OwnMoves
<1> QED
  BY <1>1, <1>2, <1>3, RequestKeepsInv, Zenon

\* A request that has just begun a step for a session.
LEMMA Begun ==
  ASSUME NEW k, NEW s \in Sessions, NEW p \in {"reuse", "ask"},
         k = [NoReq EXCEPT !.pc = p, !.session = s]
  PROVE  k \in ReqType /\ k.exp = 0 /\ k.session = s /\ k.pc = p
<1>1. PICK n : n = NoReq
  OBVIOUS
<1>2. n \in ReqType /\ n.exp = 0
  BY <1>1 DEF NoReq, ReqType
<1>3. k = [n EXCEPT !.pc = p, !.session = s]
  BY <1>1
<1>4. k \in ReqType
  BY <1>2, <1>3 DEF ReqType
<1>5. k.exp = 0 /\ k.session = s /\ k.pc = p
  BY <1>2, <1>3 DEF ReqType
<1> QED
  BY <1>4, <1>5

\* A session that resolves a request or whose timer fires.
LEMMA ArrivalKeepsInv ==
  ASSUME ElevInv, NEW r \in Requests, NEW s \in Sessions, Resolve(r, s) \/ Expire(r, s)
  PROVE  ElevInv'
<1>0. EType /\ reqs[r].pc = "idle"
  BY DEF ElevInv, Resolve, Expire
<1>1. /\ crossed' \subseteq Sessions /\ crossed \subseteq crossed' /\ crossed' \subseteq crossed \cup {s}
      /\ s \notin crossed' => \A q \in Requests \ {r} : ~Mine(reqs[q], s)
      /\ UNCHANGED <<clock, rollbacks, sealed, broken>>
  BY <1>0 DEF Resolve, Expire, EType, Busy, Mine
<1>2. cache[s] \in Nat /\ timer[s] = cache[s] /\ cache[s] <= clock + Ttl /\ clock \in Nat
  BY <1>0 DEF EType, ElevInv, EBounded
<1>3. ASSUME NEW exp \in Nat, NEW next \in {"expired", "expiredThenAsk"}, exp = cache[s],
             exp <= clock, Retract(r, s, exp, next),
             cache' = [cache EXCEPT ![s] = 0], timer' = [timer EXCEPT ![s] = 0]
      PROVE  ElevInv'
  <2>1. /\ cache' \in [Sessions -> Nat] /\ timer' \in [Sessions -> Nat]
        /\ cache'[s] = 0 /\ timer'[s] = 0 /\ 0 <= clock + Ttl
        /\ \A o \in Sessions \ {s} : cache'[o] = cache[o] /\ timer'[o] = timer[o]
    BY <1>0, <1>2, <1>3, ElevationAssumption DEF EType
  <2>2. next \in {"end", "expired", "expiredThenAsk"} /\ exp <= clock + Ttl
    BY <1>2, <1>3
  <2> QED
    BY <1>0, <1>1, <1>3, <2>1, <2>2, RetractKeepsInv
<1>4. ASSUME NEW k, k = [NoReq EXCEPT !.pc = "reuse", !.session = s] \/
                    k = [NoReq EXCEPT !.pc = "ask", !.session = s],
             reqs' = [reqs EXCEPT ![r] = k], UNCHANGED <<cache, timer, entries>>,
             k.pc = "ask" => cache[s] = 0
      PROVE  ElevInv'
  <2>1. k \in ReqType /\ k.exp = 0 /\ k.session = s /\ k.pc \in {"ask", "reuse"}
    BY <1>4, Begun
  <2>2. ReqOK(k, clock)
    BY <2>1 DEF ReqOK
  <2>3. RequestMoves(r, s, k)
    BY <2>1, <2>2, <1>0, <1>1, <1>2, <1>4, ElevationAssumption DEF RequestMoves, EType
  <2>4. ASSUME ~broken', s \notin crossed'
        PROVE  Agree(cache[s], entries[s], clock)
    <3>1. \A q \in Requests : ~Mine(reqs[q], s)
      BY <1>0, <1>1, <2>4 DEF Mine
    <3>2. s \in Sessions \ crossed /\ EOwn
      BY <1>1, <2>4 DEF ElevInv
    <3> QED
      BY <3>1, <3>2 DEF EOwn
  <2>5. ASSUME ~broken', s \notin crossed'
        PROVE  OwnOK(k, cache[s], entries[s], clock)
    <3>1. entries[s] \in Nat
      BY <1>0 DEF EType
    <3> QED
      BY <2>1, <2>4, <2>5, <1>2, <1>4, <3>1 DEF OwnOK, Agree
  <2> QED
    BY <2>3, <2>4, <2>5, <1>0, <1>1, <1>4, QuietKeepsInv
<1>5. CASE Resolve(r, s)
  <2>1. CASE reqs' = [reqs EXCEPT ![r] = [NoReq EXCEPT !.pc = "reuse", !.session = s]]
                 /\ UNCHANGED <<cache, timer, entries>>
    <3>1. PICK k : k = [NoReq EXCEPT !.pc = "reuse", !.session = s]
      OBVIOUS
    <3>2. k.pc = "reuse"
      BY <3>1 DEF NoReq
    <3> QED
      BY <2>1, <3>1, <3>2, <1>4
  <2>2. CASE cache[s] = 0 /\ reqs' = [reqs EXCEPT ![r] = [NoReq EXCEPT !.pc = "ask", !.session = s]]
                 /\ UNCHANGED <<cache, timer, entries>>
    <3>1. PICK k : k = [NoReq EXCEPT !.pc = "ask", !.session = s]
      OBVIOUS
    <3> QED
      BY <2>2, <3>1, <1>4
  <2>3. CASE /\ cache[s] # 0 /\ cache[s] <= clock
             /\ cache' = [cache EXCEPT ![s] = 0] /\ timer' = [timer EXCEPT ![s] = 0]
             /\ Retract(r, s, cache[s], "expiredThenAsk")
    BY <2>3, <1>2, <1>3
  <2> QED
    BY <1>5, <2>1, <2>2, <2>3 DEF Resolve
<1>6. CASE Expire(r, s)
  BY <1>6, <1>2, <1>3 DEF Expire
<1> QED
  BY <1>5, <1>6

\* A request that ends, or goes on to ask, without touching the store.
LEMMA AuditKeepsInv ==
  ASSUME ElevInv, NEW r \in Requests, Reuse(r) \/ Expired(r)
  PROVE  ElevInv'
<1> DEFINE s == reqs[r].session
<1>0. EType /\ reqs[r].pc \in {"reuse", "expired", "expiredThenAsk"}
  BY DEF ElevInv, Reuse, Expired
<1>1. /\ s \in Sessions
      /\ ~broken /\ s \notin crossed =>
            /\ \A q \in Requests \ {r} : ~Mine(reqs[q], s)
            /\ OwnOK(reqs[r], cache[s], entries[s], clock)
  BY <1>0, BusyIsAlone
<1>2. UNCHANGED <<clock, cache, timer, entries, rollbacks, sealed, crossed, broken>>
  BY DEF Reuse, Expired
<1>3. PICK k : /\ reqs' = [reqs EXCEPT ![r] = k]
               /\ \/ k = NoReq
                  \/ k = [NoReq EXCEPT !.pc = "ask", !.session = s] /\ reqs[r].pc # "reuse"
  <2>1. CASE Reuse(r)
    BY <2>1 DEF Reuse
  <2>2. CASE Expired(r)
    <3>1. \/ reqs' = [reqs EXCEPT ![r] = NoReq]
          \/ reqs' = [reqs EXCEPT ![r] = [NoReq EXCEPT !.pc = "ask", !.session = s]]
      BY <2>2, <1>0 DEF Expired, EType
    <3> QED
      BY <2>2, <3>1 DEF Expired
  <2> QED
    BY <2>1, <2>2
<1> HIDE DEF s
<1>4. /\ k \in ReqType /\ k.exp = 0 /\ k.pc \in {"idle", "ask"}
      /\ k.pc = "idle" \/ (k.session = s /\ reqs[r].pc # "reuse")
  <2>1. CASE k = NoReq
    BY <2>1 DEF NoReq, ReqType
  <2>2. CASE k # NoReq
    BY <2>2, <1>1, <1>3, Begun
  <2> QED
    BY <2>1, <2>2
<1>5. ReqOK(k, clock)
  BY <1>1, <1>4 DEF ReqOK
<1>6. RequestMoves(r, s, k)
  BY <1>0, <1>1, <1>2, <1>3, <1>4, <1>5, ElevationAssumption DEF RequestMoves, EType, s
<1>7. ASSUME ~broken', s \notin crossed'
      PROVE  /\ k.pc # "idle" => OwnOK(k, cache[s], entries[s], clock)
             /\ Agree(cache[s], entries[s], clock)
  <2>1. clock \in Nat /\ entries[s] \in Nat /\ cache[s] \in Nat
    BY <1>0, <1>1 DEF EType
  <2>2. CASE reqs[r].pc = "reuse"
    <3>1. \A q \in Requests : Mine(reqs[q], s) => reqs[q].pc = "reuse"
      BY <1>1, <1>2, <1>7, <2>2
    <3>2. EOwn /\ s \in Sessions \ crossed
      BY <1>1, <1>2, <1>7 DEF ElevInv
    <3> QED
      BY <3>1, <3>2, <2>2, <1>4 DEF EOwn
  <2>3. CASE reqs[r].pc # "reuse"
    <3>1. cache[s] = 0 /\ entries[s] <= clock
      BY <1>0, <1>1, <1>2, <1>7, <2>3 DEF OwnOK
    <3> QED
      BY <3>1, <2>1, <1>4 DEF OwnOK, Agree
  <2> QED
    BY <2>2, <2>3
<1> QED
  BY <1>0, <1>1, <1>2, <1>6, <1>7, QuietKeepsInv

\* An approval that changes nothing the chat discloses renews the same expiry.
LEMMA UnchangedApproval ==
  ASSUME ElevInv, NEW s \in Sessions, \A o \in Sessions \ {s} : entries[o] # clock + Ttl,
         ~Changed(SetEntry(s, clock + Ttl)), clock + Ttl > clock
  PROVE  entries[s] = clock + Ttl
<1> DEFINE b == clock + Ttl
           L == Live(entries)
           A == SetEntry(s, b)
<1>0. EType /\ b \in Nat /\ clock \in Nat
  BY ElevationAssumption DEF ElevInv, EType
<1>1. /\ L \in [Sessions -> Nat]
      /\ \A o \in Sessions : L[o] = entries[o] \/ (L[o] = 0 /\ entries[o] <= clock)
  BY <1>0, LiveEntries
<1>2. A = [L EXCEPT ![s] = b]
  BY DEF SetEntry
<1>3. \A o \in Sessions : entries[o] \in Nat /\ entries[o] <= b
  BY <1>0 DEF ElevInv, EBounded, EType
<1>4. Aggregate(L) = Aggregate(A)
  BY DEF Changed
<1> HIDE DEF b, L, A
<1>5. \A o \in Sessions : L[o] <= b
  BY <1>0, <1>1, <1>3
<1>6. A \in [Sessions -> Nat] /\ A[s] = b /\ \A o \in Sessions : A[o] <= b
  BY <1>0, <1>1, <1>2, <1>5
<1>7. Aggregate(A) >= b /\ Aggregate(A) \in Nat
  BY <1>0, <1>6, AggregateIsLargest
<1>8. PICK o \in Sessions : Aggregate(L) = L[o]
  BY <1>0, <1>1, <1>5, AggregateIsLargest
<1>9. L[o] = b
  BY <1>0, <1>1, <1>4, <1>5, <1>7, <1>8
<1>10. entries[o] = b
  BY <1>0, <1>1, <1>9 DEF b
<1> QED
  BY <1>10 DEF b

\* The owner is asked: refusal and failure end the request, approval sets the entry.
LEMMA AskKeepsInv ==
  ASSUME ElevInv, NEW r \in Requests, Ask(r)
  PROVE  ElevInv'
<1> DEFINE s == reqs[r].session
           b == clock + Ttl
<1>0. EType /\ reqs[r].pc = "ask" /\ b \in Nat /\ clock \in Nat /\ clock <= b
  BY ElevationAssumption DEF ElevInv, EType, Ask
<1>1. /\ s \in Sessions
      /\ ~broken /\ s \notin crossed =>
            /\ \A q \in Requests \ {r} : ~Mine(reqs[q], s)
            /\ OwnOK(reqs[r], cache[s], entries[s], clock)
  BY <1>0, BusyIsAlone
<1>2. UNCHANGED <<clock, cache, timer, rollbacks, sealed, crossed, broken>>
  BY DEF Ask
<1>3. ASSUME ~broken, s \notin crossed PROVE cache[s] = 0 /\ entries[s] <= clock
  BY <1>0, <1>1, <1>3 DEF OwnOK
<1>4. ASSUME NEW k, reqs' = [reqs EXCEPT ![r] = k], k \in ReqType, k.exp <= b,
             k.pc = "idle" \/ k.session = s,
             k.pc \in {"idle", "disclosing", "approve"}, k.pc = "disclosing" => k.next = "approve"
      PROVE  RequestMoves(r, s, k)
  <2>1. ReqOK(k, clock)
    BY <1>1, <1>4 DEF ReqOK
  <2> QED
    BY <2>1, <1>0, <1>1, <1>2, <1>4 DEF RequestMoves, EType
<1>5. CASE reqs' = [reqs EXCEPT ![r] = NoReq] /\ UNCHANGED entries
  <2>1. PICK k : k = NoReq
    OBVIOUS
  <2>2. k \in ReqType /\ k.exp = 0 /\ k.pc = "idle"
    BY <2>1 DEF NoReq, ReqType
  <2>3. RequestMoves(r, s, k)
    <3>1. /\ reqs' = [reqs EXCEPT ![r] = k] /\ k.exp <= b
          /\ k.pc \in {"idle", "disclosing", "approve"} /\ k.pc # "disclosing"
      BY <2>1, <2>2, <1>0, <1>5
    <3> HIDE DEF s, b
    <3> QED
      BY <3>1, <2>2, <1>4
  <2>4. ASSUME ~broken', s \notin crossed' PROVE Agree(cache[s], entries[s], clock)
    <3>1. cache[s] = 0 /\ entries[s] <= clock /\ entries[s] \in Nat
      BY <1>0, <1>1, <1>2, <1>3, <2>4 DEF EType
    <3> QED
      BY <3>1, <1>0 DEF Agree
  <2> QED
    BY <2>2, <2>3, <2>4, <1>0, <1>1, <1>2, <1>5, QuietKeepsInv
<1>6. CASE /\ \A o \in Sessions \ {s} : entries[o] # b
           /\ entries' = SetEntry(s, b)
           /\ reqs' = [reqs EXCEPT ![r] =
               [pc |-> IF Changed(SetEntry(s, b)) THEN "disclosing" ELSE "approve", session |-> s,
                exp |-> b, todo |-> IF Changed(SetEntry(s, b)) THEN Seals ELSE {},
                next |-> "approve"]]
  <2>1. PICK k : k = [pc |-> IF Changed(SetEntry(s, b)) THEN "disclosing" ELSE "approve",
                      session |-> s, exp |-> b,
                      todo |-> IF Changed(SetEntry(s, b)) THEN Seals ELSE {}, next |-> "approve"]
    OBVIOUS
  <2>2. /\ k.pc = IF Changed(SetEntry(s, b)) THEN "disclosing" ELSE "approve"
        /\ k.todo = IF Changed(SetEntry(s, b)) THEN Seals ELSE {}
        /\ k.session = s /\ k.exp = b /\ k.next = "approve"
    BY <2>1
  <2>3. k \in ReqType
    BY <2>1, <1>0, <1>1 DEF ReqType, Refreshing
  <2>4. RequestMoves(r, s, k)
    <3>1. reqs' = [reqs EXCEPT ![r] = k]
      BY <2>1, <1>6
    <3>2. k.exp <= b /\ k.pc \in {"idle", "disclosing", "approve"} /\ k.session = s
      BY <2>2, <1>0
    <3> HIDE DEF s, b
    <3> QED
      BY <3>1, <3>2, <2>2, <2>3, <1>4
  <2>5. /\ entries' \in [Sessions -> Nat] /\ entries'[s] = b
        /\ \A o \in Sessions \ {s} :
             entries'[o] = entries[o] \/ (entries'[o] = 0 /\ entries[o] <= clock)
    <3> DEFINE L == Live(entries)
    <3>1. /\ L \in [Sessions -> Nat]
          /\ \A o \in Sessions : L[o] = entries[o] \/ (L[o] = 0 /\ entries[o] <= clock)
      BY <1>0, LiveEntries
    <3>2. entries' = [L EXCEPT ![s] = b]
      BY <1>6 DEF SetEntry
    <3> HIDE DEF L, s, b
    <3> QED
      BY <1>0, <1>1, <3>1, <3>2
  <2>6. StoreMoves(s)
    BY <1>0, <1>1, <1>2, <2>5 DEF StoreMoves, EType, ElevInv, EBounded
  <2>7. SealsMove
    BY <1>0, <1>2 DEF SealsMove, EType
  <2>8. OwnMoves(r, s, k)
    <3>1. ASSUME entries'[s] > clock, ~Changed(SetEntry(s, b)) PROVE entries'[s] = entries[s]
      BY <3>1, <2>5, <1>1, <1>6, UnchangedApproval
    <3>2. ASSUME ~broken', s \notin crossed' PROVE OwnOK(k, cache'[s], entries'[s], clock)
      BY <3>2, <1>2, <1>3, <2>2, <2>5 DEF OwnOK
    <3> HIDE DEF b, s
    <3> QED
      BY <3>1, <3>2, <2>2, <1>0 DEF OwnMoves
  <2> HIDE DEF b, s
  <2> QED
    BY <1>1, <2>4, <2>6, <2>7, <2>8, RequestKeepsInv, Zenon
<1> QED
  BY <1>5, <1>6 DEF Ask

\* The approval is logged and cached, or taken back.
LEMMA ApproveKeepsInv ==
  ASSUME ElevInv, NEW r \in Requests, Approve(r)
  PROVE  ElevInv'
<1> DEFINE s == reqs[r].session
<1>0. EType /\ reqs[r].pc = "approve" /\ reqs[r] \in ReqType
  BY DEF ElevInv, EType, Approve
<1>1. /\ s \in Sessions
      /\ ~broken /\ s \notin crossed =>
            /\ \A q \in Requests \ {r} : ~Mine(reqs[q], s)
            /\ OwnOK(reqs[r], cache[s], entries[s], clock)
  BY <1>0, BusyIsAlone
<1>2. UNCHANGED <<clock, rollbacks, sealed, crossed, broken>>
  BY DEF Approve
<1>3. reqs[r].exp \in Nat /\ reqs[r].exp <= clock + Ttl /\ clock + Ttl \in Nat
  BY <1>0, ElevationAssumption DEF ElevInv, EBounded, ReqType, EType
<1>4. ASSUME ~broken, s \notin crossed
      PROVE  /\ cache[s] = 0
             /\ reqs[r].exp > clock => entries[s] = reqs[r].exp
             /\ entries[s] > clock => entries[s] = reqs[r].exp
  BY <1>0, <1>1, <1>4 DEF OwnOK
<1>5. CASE /\ cache' = [cache EXCEPT ![s] = reqs[r].exp]
           /\ timer' = [timer EXCEPT ![s] = reqs[r].exp]
           /\ reqs' = [reqs EXCEPT ![r] = NoReq]
           /\ UNCHANGED entries
  <2>1. PICK k : k = NoReq
    OBVIOUS
  <2>2. k \in ReqType /\ k.exp = 0 /\ k.pc = "idle"
    BY <2>1 DEF NoReq, ReqType
  <2>3. ReqOK(k, clock)
    BY <2>2 DEF ReqOK
  <2>4. RequestMoves(r, s, k)
    BY <2>1, <2>2, <2>3, <1>0, <1>1, <1>2, <1>3, <1>5 DEF RequestMoves, EType
  <2>5. StoreMoves(s)
    BY <1>0, <1>1, <1>3, <1>5 DEF StoreMoves, EType, ElevInv, EBounded
  <2>6. SealsMove
    BY <1>0, <1>2 DEF SealsMove, EType
  <2>7. cache'[s] = reqs[r].exp
    BY <1>0, <1>1, <1>5 DEF EType
  <2>8. OwnMoves(r, s, k)
    BY <2>2, <2>7, <1>0, <1>2, <1>4, <1>5 DEF OwnMoves, Agree
  <2> HIDE DEF s
  <2> QED
    BY <1>1, <2>4, <2>5, <2>6, <2>8, RequestKeepsInv, Zenon
<1>6. CASE Retract(r, s, reqs[r].exp, "end") /\ UNCHANGED <<cache, timer>>
  <2>1. /\ cache' \in [Sessions -> Nat] /\ timer' \in [Sessions -> Nat]
        /\ cache'[s] <= clock + Ttl /\ timer'[s] = cache'[s]
        /\ \A o \in Sessions \ {s} : cache'[o] = cache[o] /\ timer'[o] = timer[o]
    BY <1>0, <1>1, <1>6 DEF EType, ElevInv, EBounded
  <2>2. ~broken' /\ s \notin crossed' => cache'[s] = 0
    BY <1>2, <1>4, <1>6
  <2>3. crossed' \subseteq Sessions /\ crossed \subseteq crossed' /\ crossed' \subseteq crossed \cup {s}
    BY <1>0, <1>2 DEF EType
  <2>4. ~broken' /\ s \notin crossed' => \A q \in Requests \ {r} : ~Mine(reqs[q], s)
    BY <1>1, <1>2
  <2>5. reqs[r].pc = "approve" /\ reqs[r].session = s
    BY <1>0
  <2> HIDE DEF s
  <2> QED
    BY <2>1, <2>2, <2>3, <2>4, <2>5, <1>1, <1>2, <1>3, <1>6, RetractKeepsInv
<1> QED
  BY <1>5, <1>6 DEF Approve

\* What a refreshed seal discloses covers every live entry.
LEMMA AccessCovers ==
  ASSUME ElevInv
  PROVE  Access \in Nat /\ \A o \in Sessions : entries[o] > clock => Access >= entries[o]
<1> DEFINE b == clock + Ttl
           L == Live(entries)
<1>0. EType /\ b \in Nat /\ clock \in Nat /\ entries \in [Sessions -> Nat]
  BY ElevationAssumption DEF ElevInv, EType
<1>1. /\ L \in [Sessions -> Nat]
      /\ \A o \in Sessions : L[o] = entries[o] \/ (L[o] = 0 /\ entries[o] <= clock)
  BY <1>0, LiveEntries
<1>2. \A o \in Sessions : entries[o] <= b
  BY <1>0 DEF ElevInv, EBounded
<1>3. \A o \in Sessions : L[o] <= b
  BY <1>0, <1>1, <1>2
<1>4. Access = IF rollbacks > 0 THEN Aggregate(entries) ELSE Aggregate(L)
  BY DEF Access
<1> HIDE DEF b, L
<1>5. Aggregate(L) \in Nat /\ \A o \in Sessions : L[o] <= Aggregate(L)
  BY <1>0, <1>1, <1>3, AggregateIsLargest
<1>6. Aggregate(entries) \in Nat /\ \A o \in Sessions : entries[o] <= Aggregate(entries)
  BY <1>0, <1>2, AggregateIsLargest
<1> QED
  BY <1>0, <1>1, <1>4, <1>5, <1>6

\* A seal is refreshed.
LEMMA RefreshKeepsInv ==
  ASSUME ElevInv, NEW r \in Requests, RefreshSeal(r)
  PROVE  ElevInv'
<1> DEFINE s == reqs[r].session
           y == Min(reqs[r].todo)
           rest == reqs[r].todo \ {y}
<1>0. EType /\ reqs[r].pc \in Refreshing /\ reqs[r] \in ReqType /\ reqs[r].pc # "idle"
  BY DEF ElevInv, EType, RefreshSeal, Refreshing
<1>1. /\ s \in Sessions
      /\ ~broken /\ s \notin crossed =>
            /\ \A q \in Requests \ {r} : ~Mine(reqs[q], s)
            /\ OwnOK(reqs[r], cache[s], entries[s], clock)
  BY <1>0, BusyIsAlone
<1>2. UNCHANGED <<clock, cache, timer, crossed, broken>> /\ rollbacks' \in Int
  BY <1>0 DEF RefreshSeal, EType
<1>3. PICK k : k = IF rest # {} THEN [reqs[r] EXCEPT !.todo = rest] ELSE Onwards(reqs[r])
  OBVIOUS
<1>4. /\ reqs' = [reqs EXCEPT ![r] = k]
      /\ sealed' = [sealed EXCEPT ![y] = Access]
      /\ entries' = entries \/ entries' = Live(entries)
  BY <1>3 DEF RefreshSeal
<1>5. rest \subseteq reqs[r].todo /\ \A x \in reqs[r].todo : x = y \/ x \in rest
  OBVIOUS
<1>6. /\ reqs[r].exp \in Nat /\ reqs[r].exp <= clock + Ttl /\ clock + Ttl \in Nat
      /\ clock \in Nat /\ entries[s] \in Nat /\ reqs[r].todo \subseteq Seals
      /\ ReqOK(reqs[r], clock)
  BY <1>0, <1>1, ElevationAssumption DEF ElevInv, EBounded, ReqType, EType
<1> HIDE DEF s, y, rest
<1>7. /\ k \in ReqType
      /\ \/ k.pc = "idle" /\ k.exp = 0 /\ ~(reqs[r].pc = "disclosing")
         \/ /\ k.session = s /\ k.exp = reqs[r].exp
            /\ \/ k.pc = reqs[r].pc /\ k.next = reqs[r].next /\ k.todo = rest
               \/ /\ rest = {} /\ k.pc = reqs[r].next /\ k.pc # "end"
                  /\ reqs[r].pc \in {"disclosing", "retracting"}
  <2>1. CASE rest # {}
    <3>1. k = [reqs[r] EXCEPT !.todo = rest]
      BY <1>3, <2>1
    <3>2. k \in ReqType
      BY <3>1, <1>0, <1>5, <1>6 DEF ReqType
    <3>3. k.session = s /\ k.exp = reqs[r].exp /\ k.pc = reqs[r].pc /\ k.next = reqs[r].next
             /\ k.todo = rest
      BY <3>1, <1>0 DEF ReqType, s
    <3> QED
      BY <3>2, <3>3
  <2>2. CASE rest = {} /\ k = NoReq /\ (reqs[r].next = "end" \/ reqs[r].pc \in {"undoDisclosing", "undoRetracting"})
    <3>1. k \in ReqType /\ k.pc = "idle" /\ k.exp = 0
      BY <2>2 DEF NoReq, ReqType
    <3>2. reqs[r].pc # "disclosing"
      BY <2>2, <1>6 DEF ReqOK
    <3> QED
      BY <3>1, <3>2
  <2>3. CASE /\ rest = {} /\ k = [reqs[r] EXCEPT !.todo = {}, !.pc = reqs[r].next]
             /\ ~(reqs[r].next = "end" \/ reqs[r].pc \in {"undoDisclosing", "undoRetracting"})
    <3>1. reqs[r].next \in {"expired", "expiredThenAsk", "approve"}
      BY <2>3, <1>0 DEF ReqType
    <3>2. k \in ReqType
      BY <3>1, <2>3, <1>0 DEF ReqType
    <3>3. k.session = s /\ k.exp = reqs[r].exp /\ k.pc = reqs[r].next
      BY <2>3, <1>0 DEF ReqType, s
    <3>4. reqs[r].pc \in {"disclosing", "retracting"}
      BY <2>3, <1>0 DEF Refreshing
    <3> QED
      BY <3>1, <3>2, <3>3, <3>4, <2>3
  <2> QED
    BY <1>3, <2>1, <2>2, <2>3 DEF Onwards
<1>8. ReqOK(k, clock)
  <2>1. k.pc = "idle" \/ k.session \in Sessions
    BY <1>1, <1>7
  <2>2. reqs[r].next \in {"end", "expired", "expiredThenAsk", "approve"}
    BY <1>0 DEF ReqType
  <2>3. k.pc \in {"disclosing", "retracting"} => k.pc = reqs[r].pc /\ k.next = reqs[r].next
                                                 /\ k.exp = reqs[r].exp
    BY <1>7, <2>2
  <2> QED
    BY <2>1, <2>3, <1>6 DEF ReqOK
<1>9. RequestMoves(r, s, k)
  <2>1. k.exp <= clock + Ttl
    BY <1>6, <1>7
  <2>2. k.pc = "idle" \/ k.session = s
    BY <1>7
  <2>3. reqs[r].session = s
    BY DEF s
  <2>4. crossed' \subseteq Sessions /\ broken' \in BOOLEAN /\ broken' = broken /\ crossed' = crossed
    BY <1>0, <1>2 DEF EType
  <2> QED
    BY <2>1, <2>2, <2>3, <2>4, <1>1, <1>2, <1>4, <1>7, <1>8 DEF RequestMoves
<1>10. /\ entries' \in [Sessions -> Nat]
       /\ \A o \in Sessions : entries'[o] = entries[o] \/ (entries'[o] = 0 /\ entries[o] <= clock)
  <2>1. CASE entries' = entries
    BY <2>1, <1>0 DEF EType
  <2>2. CASE entries' = Live(entries)
    BY <2>2, <1>0, LiveEntries
  <2> QED
    BY <1>4, <2>1, <2>2
<1>11. StoreMoves(s)
  <2>1. entries'[s] <= clock + Ttl
    BY <1>1, <1>6, <1>10 DEF ElevInv, EBounded
  <2> QED
    BY <2>1, <1>0, <1>1, <1>2, <1>10 DEF StoreMoves, EType, ElevInv, EBounded
<1>12. /\ sealed' \in [Seals -> Nat]
       /\ \A x \in Seals : sealed'[x] = sealed[x] \/ x = y
       /\ y \in Seals => sealed'[y] = Access
  BY <1>0, <1>4, AccessCovers DEF EType
<1>13. y \in Seals => \A o \in Sessions : entries'[o] > clock => sealed'[y] >= entries'[o]
  BY <1>6, <1>10, <1>12, AccessCovers
<1>14. SealsMove
  BY <1>12, <1>13 DEF SealsMove
<1>15. OwnMoves(r, s, k)
  <2>1. ASSUME NEW x \in Seals, entries'[s] > clock, ~(sealed'[x] >= entries'[s])
        PROVE  \/ k.pc = "disclosing" /\ x \in k.todo
               \/ entries'[s] = entries[s] /\ ~(reqs[r].pc = "disclosing" /\ x \in reqs[r].todo)
    <3>1. x # y
      BY <2>1, <1>1, <1>13
    <3>2. entries'[s] = entries[s]
      BY <2>1, <1>1, <1>6, <1>10
    <3>3. CASE reqs[r].pc = "disclosing" /\ x \in reqs[r].todo
      <4>1. x \in rest
        BY <3>1, <3>3, <1>5
      <4> QED
        BY <4>1, <3>3, <1>7
    <3> QED
      BY <3>2, <3>3
  <2>2. ASSUME ~broken', s \notin crossed'
        PROVE  /\ k.pc # "idle" => OwnOK(k, cache'[s], entries'[s], clock)
               /\ k.pc \in {"idle", "reuse"} => Agree(cache'[s], entries'[s], clock)
    <3>1. OwnOK(reqs[r], cache[s], entries[s], clock) /\ cache'[s] = cache[s]
      BY <2>2, <1>1, <1>2
    <3>2. cache[s] = 0 /\ (entries'[s] = entries[s] \/ (entries'[s] = 0 /\ entries[s] <= clock))
      BY <3>1, <1>0, <1>1, <1>10 DEF OwnOK, Refreshing
    <3>3. CASE reqs[r].pc = "disclosing"
      <4>1. k.pc \in {"disclosing", "approve"} /\ k.exp = reqs[r].exp
        BY <3>3, <1>6, <1>7 DEF ReqOK
      <4>2. /\ reqs[r].exp > clock => entries'[s] = reqs[r].exp
            /\ entries'[s] > clock => entries'[s] = reqs[r].exp
        BY <3>1, <3>2, <3>3, <1>6 DEF OwnOK
      <4> QED
        BY <4>1, <4>2, <3>1, <3>2 DEF OwnOK
    <3>4. CASE reqs[r].pc # "disclosing"
      <4>1. entries'[s] <= clock
        BY <3>1, <3>2, <3>4, <1>0, <1>6 DEF OwnOK, Refreshing
      <4>2. k.pc \notin {"disclosing", "approve", "reuse"}
        <5>1. reqs[r].pc = "retracting" => reqs[r].next # "approve"
          BY <1>6 DEF ReqOK
        <5>2. reqs[r].next \in {"end", "expired", "expiredThenAsk", "approve"}
          BY <1>0 DEF ReqType
        <5>3. reqs[r].pc \in {"retracting", "undoDisclosing", "undoRetracting"}
          BY <1>0, <3>4 DEF Refreshing
        <5> QED
          BY <5>1, <5>2, <5>3, <1>7
      <4> QED
        BY <4>1, <4>2, <3>1, <3>2, <1>6 DEF OwnOK, Agree
    <3> QED
      BY <3>3, <3>4
  <2> QED
    BY <2>1, <2>2 DEF OwnMoves
<1> QED
  BY <1>1, <1>9, <1>11, <1>14, <1>15, RequestKeepsInv, Zenon

\* A refresh fails.
LEMMA RefreshFailsKeepsInv ==
  ASSUME ElevInv, NEW r \in Requests, RefreshFails(r)
  PROVE  ElevInv'
<1> DEFINE s == reqs[r].session
<1>0. EType /\ reqs[r].pc \in Refreshing /\ reqs[r] \in ReqType /\ reqs[r].pc # "idle"
  BY DEF ElevInv, EType, RefreshFails, Refreshing
<1>1. /\ s \in Sessions
      /\ ~broken /\ s \notin crossed =>
            /\ \A q \in Requests \ {r} : ~Mine(reqs[q], s)
            /\ OwnOK(reqs[r], cache[s], entries[s], clock)
  BY <1>0, BusyIsAlone
<1>2. UNCHANGED <<clock, cache, timer, sealed, crossed>>
  BY DEF RefreshFails
<1>3. /\ reqs[r].exp \in Nat /\ reqs[r].exp <= clock + Ttl /\ clock + Ttl \in Nat
      /\ clock \in Nat /\ entries[s] \in Nat /\ ReqOK(reqs[r], clock)
  BY <1>0, <1>1, ElevationAssumption DEF ElevInv, EBounded, ReqType, EType
<1>4. SealsMove
  BY <1>0, <1>2 DEF SealsMove, EType
<1>5. ASSUME NEW k, reqs' = [reqs EXCEPT ![r] = k],
             \/ k = NoReq
             \/ \E p \in {"undoDisclosing", "undoRetracting"} :
                  k = [reqs[r] EXCEPT !.pc = p, !.todo = Seals],
             rollbacks' \in Int, broken' \in BOOLEAN, ~broken' => ~broken
      PROVE  RequestMoves(r, s, k) /\ k.pc \in {"idle", "undoDisclosing", "undoRetracting"}
  <2>1. CASE k = NoReq
    <3>1. k \in ReqType /\ k.exp = 0 /\ k.pc = "idle"
      BY <2>1 DEF NoReq, ReqType
    <3>2. ReqOK(k, clock)
      BY <3>1 DEF ReqOK
    <3> QED
      BY <3>1, <3>2, <1>0, <1>1, <1>2, <1>3, <1>5 DEF RequestMoves, EType
  <2>2. ASSUME NEW p \in {"undoDisclosing", "undoRetracting"},
               k = [reqs[r] EXCEPT !.pc = p, !.todo = Seals]
        PROVE  RequestMoves(r, s, k) /\ k.pc = p
    <3>1. k \in ReqType
      BY <2>2, <1>0 DEF ReqType, Refreshing
    <3>2. k.exp = reqs[r].exp /\ k.pc = p /\ k.session = s
      BY <2>2, <1>0 DEF ReqType
    <3>3. ReqOK(k, clock)
      BY <3>2, <1>1, <2>2 DEF ReqOK
    <3> QED
      BY <3>1, <3>2, <3>3, <1>0, <1>1, <1>2, <1>3, <1>5 DEF RequestMoves, EType
  <2> QED
    BY <1>5, <2>1, <2>2
<1>6. ASSUME entries' \in [Sessions -> Nat], entries'[s] <= clock + Ttl,
             \A o \in Sessions \ {s} :
                entries'[o] = entries[o] \/ (entries'[o] = 0 /\ entries[o] <= clock)
      PROVE  StoreMoves(s)
  BY <1>0, <1>1, <1>2, <1>6 DEF StoreMoves, EType, ElevInv, EBounded
<1>7. ASSUME NEW k, k.pc \in {"idle", "undoDisclosing", "undoRetracting"},
             ~broken' => ~broken /\ entries'[s] <= clock, entries' \in [Sessions -> Nat],
             reqs[r].pc \in {"disclosing", "retracting"} \/ broken'
      PROVE  OwnMoves(r, s, k)
  <2>1. entries'[s] \in Nat
    BY <1>1, <1>7
  <2>2. ASSUME ~broken', s \notin crossed' PROVE cache'[s] = 0
    BY <2>2, <1>1, <1>2, <1>7 DEF OwnOK
  <2> QED
    BY <2>1, <2>2, <1>3, <1>7 DEF OwnMoves, OwnOK, Agree
<1>8. CASE /\ reqs[r].pc = "disclosing"
           /\ entries' = DeleteEntry(s)
           /\ reqs' = [reqs EXCEPT ![r] =
                 IF Changed(DeleteEntry(s))
                 THEN [reqs[r] EXCEPT !.pc = "undoDisclosing", !.todo = Seals] ELSE NoReq]
           /\ UNCHANGED <<rollbacks, broken>>
  <2>1. PICK k : k = IF Changed(DeleteEntry(s))
                 THEN [reqs[r] EXCEPT !.pc = "undoDisclosing", !.todo = Seals] ELSE NoReq
    OBVIOUS
  <2>2. RequestMoves(r, s, k) /\ k.pc \in {"idle", "undoDisclosing", "undoRetracting"}
    BY <2>1, <1>0, <1>5, <1>8 DEF EType
  <2>3. /\ entries' \in [Sessions -> Nat] /\ entries'[s] = 0
        /\ \A o \in Sessions \ {s} :
             entries'[o] = entries[o] \/ (entries'[o] = 0 /\ entries[o] <= clock)
    BY <1>0, <1>1, <1>8, DeletedEntry
  <2>4. StoreMoves(s)
    BY <2>3, <1>3, <1>6
  <2>5. OwnMoves(r, s, k)
    BY <2>2, <2>3, <1>3, <1>7, <1>8
  <2> HIDE DEF s
  <2> QED
    BY <1>1, <1>4, <2>2, <2>4, <2>5, RequestKeepsInv, Zenon
<1>9. CASE /\ reqs[r].pc = "retracting"
           /\ entries' = [entries EXCEPT ![s] = reqs[r].exp]
           /\ rollbacks' = rollbacks + 1
           /\ reqs' = [reqs EXCEPT ![r] = [reqs[r] EXCEPT !.pc = "undoRetracting", !.todo = Seals]]
           /\ broken' = (broken \/ reqs[r].next = "end")
  <2>1. PICK k : k = [reqs[r] EXCEPT !.pc = "undoRetracting", !.todo = Seals]
    OBVIOUS
  <2>2. RequestMoves(r, s, k) /\ k.pc \in {"idle", "undoDisclosing", "undoRetracting"}
    <3>1. rollbacks' \in Int /\ broken' \in BOOLEAN /\ (~broken' => ~broken)
      BY <1>0, <1>9 DEF EType
    <3>2. reqs' = [reqs EXCEPT ![r] = k]
      BY <2>1, <1>9
    <3> HIDE DEF s
    <3> QED
      BY <2>1, <3>1, <3>2, <1>5
  <2>3. /\ entries' \in [Sessions -> Nat] /\ entries'[s] = reqs[r].exp
        /\ \A o \in Sessions \ {s} : entries'[o] = entries[o]
    BY <1>0, <1>1, <1>3, <1>9 DEF EType
  <2>4. StoreMoves(s)
    BY <2>3, <1>3, <1>6
  <2>5. ~broken' => ~broken /\ reqs[r].exp <= clock
    BY <1>3, <1>9 DEF ReqOK
  <2>6. OwnMoves(r, s, k)
    BY <2>2, <2>3, <2>5, <1>7, <1>9
  <2> HIDE DEF s
  <2> QED
    BY <1>1, <1>4, <2>2, <2>4, <2>6, RequestKeepsInv, Zenon
<1>10. CASE /\ rollbacks' = IF reqs[r].pc = "undoRetracting" THEN rollbacks - 1 ELSE rollbacks
            /\ reqs' = [reqs EXCEPT ![r] = NoReq]
            /\ broken' = TRUE
            /\ UNCHANGED entries
  <2>1. PICK k : k = NoReq
    OBVIOUS
  <2>2. RequestMoves(r, s, k) /\ k.pc \in {"idle", "undoDisclosing", "undoRetracting"}
    <3>1. rollbacks' \in Int /\ broken' \in BOOLEAN /\ (~broken' => ~broken)
      BY <1>0, <1>10 DEF EType
    <3>2. reqs' = [reqs EXCEPT ![r] = k]
      BY <2>1, <1>10
    <3> HIDE DEF s
    <3> QED
      BY <2>1, <3>1, <3>2, <1>5
  <2>3. entries' \in [Sessions -> Nat] /\ entries'[s] <= clock + Ttl
    BY <1>0, <1>1, <1>10 DEF EType, ElevInv, EBounded
  <2>4. StoreMoves(s)
    BY <2>3, <1>6, <1>10
  <2>5. OwnMoves(r, s, k)
    BY <2>2, <2>3, <1>7, <1>10
  <2> HIDE DEF s
  <2> QED
    BY <1>1, <1>4, <2>2, <2>4, <2>5, RequestKeepsInv, Zenon
<1> QED
  BY <1>8, <1>9, <1>10 DEF RefreshFails

\* Time passes: an elevation that ends is an entry less to disclose.
LEMMA TickKeepsInv ==
  ASSUME ElevInv, Tick
  PROVE  ElevInv'
<1> USE DEF ElevInv
<1>0. /\ clock' = clock + 1 /\ clock \in Nat /\ clock' \in Nat
      /\ UNCHANGED <<cache, timer, entries, rollbacks, sealed, reqs, crossed, broken>>
  BY DEF Tick, EType
<1>1. EType'
  BY <1>0 DEF EType
<1>2. EBounded'
  <2>1. \A s \in Sessions : entries[s] \in Nat /\ cache[s] \in Nat
    BY DEF EType
  <2>2. \A r \in Requests : reqs[r].exp \in Nat
    BY DEF EType, ReqType
  <2> QED
    BY <1>0, <2>1, <2>2, ElevationAssumption DEF EBounded
<1>3. ASSUME NEW r \in Requests PROVE ReqOK(reqs[r], clock')
  <2>1. reqs[r].exp \in Nat
    BY DEF EType, ReqType
  <2> QED
    BY <1>0, <2>1 DEF ReqOK
<1>4. ASSUME ~broken PROVE ECovered'
  <2>1. \A s \in Sessions : entries[s] \in Nat
    BY DEF EType
  <2> QED
    BY <1>0, <1>4, <2>1 DEF ECovered
<1>5. ASSUME ~broken PROVE EOwn'
  <2>1. ASSUME NEW s \in Sessions \ crossed, NEW r \in Requests,
               OwnOK(reqs[r], cache[s], entries[s], clock)
        PROVE  OwnOK(reqs[r], cache[s], entries[s], clock')
    <3>1. entries[s] \in Nat /\ reqs[r].exp \in Nat
      BY DEF EType, ReqType
    <3> QED
      BY <1>0, <2>1, <3>1 DEF OwnOK
  <2>2. ASSUME NEW s \in Sessions \ crossed, Agree(cache[s], entries[s], clock)
        PROVE  Agree(cache[s], entries[s], clock')
    <3>1. entries[s] \in Nat /\ cache[s] \in Nat
      BY DEF EType
    <3> QED
      BY <1>0, <2>2, <3>1 DEF Agree
  <2>3. EOwn
    BY <1>5
  <2> QED
    BY <1>0, <2>1, <2>2, <2>3 DEF EOwn
<1> QED
  BY <1>0, <1>1, <1>2, <1>3, <1>4, <1>5

\* The invariant of the read elevations.
LEMMA ElevationKeepsInv == ElevationSpec => []ElevInv
<1>1. EInit => ElevInv
  <2> SUFFICES ASSUME EInit PROVE ElevInv
    OBVIOUS
  <2>1. NoReq \in ReqType /\ NoReq.exp = 0 /\ NoReq.pc = "idle"
    BY DEF NoReq, ReqType
  <2>2. EType /\ \A r \in Requests : reqs[r] = NoReq
    <3>1. /\ reqs \in [Requests -> ReqType] /\ \A r \in Requests : reqs[r] = NoReq
      BY <2>1 DEF EInit
    <3>2. /\ clock \in Nat /\ rollbacks \in Int /\ sealed \in [Seals -> Nat]
          /\ cache \in [Sessions -> Nat] /\ timer \in [Sessions -> Nat]
          /\ entries \in [Sessions -> Nat]
      BY DEF EInit
    <3>3. crossed \subseteq Sessions /\ broken \in BOOLEAN
      BY DEF EInit
    <3> QED
      BY <3>1, <3>2, <3>3 DEF EType
  <2>3. EBounded
    BY <2>1, <2>2, ElevationAssumption DEF EInit, EBounded
  <2>4. \A r \in Requests : ReqOK(reqs[r], clock)
    BY <2>1, <2>2 DEF ReqOK
  <2>5. ECovered
    BY DEF EInit, ECovered
  <2>6. EOwn
    BY <2>1, <2>2 DEF EInit, EOwn, Mine, Agree
  <2> QED
    BY <2>2, <2>3, <2>4, <2>5, <2>6 DEF ElevInv
<1>2. ElevInv /\ [ENext]_evars => ElevInv'
  <2> SUFFICES ASSUME ElevInv, [ENext]_evars PROVE ElevInv'
    OBVIOUS
  <2>1. CASE Tick
    BY <2>1, TickKeepsInv
  <2>2. ASSUME NEW r \in Requests, NEW s \in Sessions, Resolve(r, s) \/ Expire(r, s)
        PROVE  ElevInv'
    BY <2>2, ArrivalKeepsInv
  <2>3. ASSUME NEW r \in Requests,
               \/ Reuse(r) \/ Expired(r) \/ Ask(r) \/ Approve(r)
               \/ RefreshSeal(r) \/ RefreshFails(r)
        PROVE  ElevInv'
    BY <2>3, AuditKeepsInv, AskKeepsInv, ApproveKeepsInv, RefreshKeepsInv, RefreshFailsKeepsInv
  <2>4. CASE UNCHANGED evars
    BY <2>4 DEF evars, ElevInv, EType, EBounded, ReqOK, ECovered, EOwn, Mine, OwnOK, Agree
  <2> QED
    BY <2>1, <2>2, <2>3, <2>4 DEF ENext
<1> QED
  BY <1>1, <1>2, PTL DEF ElevationSpec

(***************************************************************************)
(* A read elevation that is live is disclosed by every seal of the chat,   *)
(* and the store claims none that nobody was given, for any number of      *)
(* sessions, requests, seals and failing calls: createAdminReadElevation-  *)
(* Manager with the rollbacks of syncDisclosureApproval and -Expiry.       *)
(***************************************************************************)
THEOREM DisclosureIsAlwaysHonest == ElevationSpec => []DisclosureIsHonest
<1>1. ElevInv => DisclosureIsHonest
  <2> SUFFICES ASSUME ElevInv, Honest, NEW s \in Sessions \ crossed
               PROVE  /\ cache[s] > clock => \A x \in Seals : sealed[x] >= cache[s]
                      /\ entries[s] > clock => cache[s] = entries[s]
    BY DEF DisclosureIsHonest
  <2>1. \A r \in Requests : reqs[r].pc = "idle"
    BY DEF Honest, Busy
  <2>2. ECovered /\ EOwn
    BY DEF ElevInv, Honest
  <2>3. Agree(cache[s], entries[s], clock)
    BY <2>1, <2>2 DEF EOwn, Mine
  <2> QED
    BY <2>1, <2>2, <2>3 DEF Agree, ECovered
<1> QED
  BY <1>1, ElevationKeepsInv, PTL

=============================================================================
