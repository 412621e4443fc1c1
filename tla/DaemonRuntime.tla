---------------------------- MODULE DaemonRuntime ----------------------------
(***************************************************************************)
(* The daemon process: `xs start` in the foreground or as the child of a   *)
(* detaching parent, the runtime's start and shutdown sequences with their *)
(* rollbacks, the transports it opens (WebSocket port, admin socket file,  *)
(* HTTP port), the PID file, the signal handlers and the lazy upgrade of   *)
(* the core.  Several processes share one machine: the ports, the socket   *)
(* path, the PID file and the data directory.                              *)
(***************************************************************************)
EXTENDS Naturals, FiniteSets, Sequences

CONSTANTS Procs,     \* daemon processes over time; each starts at most once
          Networked, \* config.signet.env # "local"
          Overlap,   \* a process may be launched while another one is alive
          MaxFaults  \* bound: failed or throwing steps per behaviour

Nobody == "nobody"

ASSUME DaemonAssumption == Nobody \notin Procs

VARIABLES
  proc,       \* per process: "unborn", "alive" or "dead"
  rt,         \* currentState of its runtime
  pc,         \* where its start or shutdown sequence stands
  core,       \* state of its core
  up,         \* transports of the process that listen
  rotating,   \* the auto-rotation timer runs
  handlers,   \* signal handlers installed
  signalled,  \* a first SIGTERM or SIGINT is being handled
  upgrading,  \* initializePromise of the lazy core upgrade is set
  failed,     \* errors collected by shutdown
  refused,    \* history: the core refused to stop because it was starting
  threw,      \* the start sequence ended in its outer catch
  parent,     \* what the launching parent knows: "none" (foreground), "waiting",
              \* "started" or "failed"
  pipe,       \* bytes of the startup line or the exit the parent has not read yet
  wsPort, httpPort,  \* the process bound to the port
  sockFile,   \* the process whose listener the socket path names
  pidFile,    \* the process the PID file names
  audit,      \* entries of the audit log: {start, stop, degraded} by process
  faults

transportVars == <<wsPort, httpPort, sockFile, pidFile>>
dvars == <<proc, rt, pc, core, up, rotating, handlers, signalled, upgrading, failed,
           refused, threw, parent, pipe, wsPort, httpPort, sockFile, pidFile, audit, faults>>

Transports == {"ws", "admin", "http"}

DInit ==
  /\ proc = [p \in Procs |-> "unborn"] /\ rt = [p \in Procs |-> "created"]
  /\ pc = [p \in Procs |-> "none"] /\ core = [p \in Procs |-> "idle"]
  /\ up = [p \in Procs |-> {}] /\ rotating = [p \in Procs |-> FALSE]
  /\ handlers = [p \in Procs |-> FALSE] /\ signalled = [p \in Procs |-> FALSE]
  /\ upgrading = [p \in Procs |-> FALSE] /\ failed = [p \in Procs |-> FALSE]
  /\ refused = [p \in Procs |-> FALSE]
  /\ threw = [p \in Procs |-> FALSE] /\ parent = [p \in Procs |-> "none"]
  /\ pipe = [p \in Procs |-> "empty"]
  /\ wsPort = Nobody /\ httpPort = Nobody /\ sockFile = Nobody /\ pidFile = Nobody
  /\ audit = {} /\ faults = 0

Fault == faults < MaxFaults /\ faults' = faults + 1
NoFault == faults' = faults
Goto(p, l) == pc' = [pc EXCEPT ![p] = l]
At(p, l) == proc[p] = "alive" /\ pc[p] = l

-----------------------------------------------------------------------------
(* The transports.  Each start may fail; each stop releases what it bound. *)

\* The WebSocket and HTTP servers bind their port: Bun.serve throws when another
\* process has it, and may fail for other reasons.
PortFree(t) == IF t = "ws" THEN wsPort = Nobody ELSE httpPort = Nobody

\* adminServer.start: whatever the socket path names is unlinked, then listened on.
BindAdmin(p) ==
  /\ sockFile' = p /\ up' = [up EXCEPT ![p] = @ \cup {"admin"}]

BindPort(p, t) ==
  /\ PortFree(t)
  /\ wsPort' = IF t = "ws" THEN p ELSE wsPort
  /\ httpPort' = IF t = "http" THEN p ELSE httpPort
  /\ up' = [up EXCEPT ![p] = @ \cup {t}]

\* The stops of a set of transports: the ports are released, and an admin server
\* that listens removes whatever file the socket path names.
ReleaseAll(p, ts) ==
  /\ up' = [up EXCEPT ![p] = @ \ ts]
  /\ wsPort' = IF "ws" \in ts /\ wsPort = p THEN Nobody ELSE wsPort
  /\ httpPort' = IF "http" \in ts /\ httpPort = p THEN Nobody ELSE httpPort
  /\ sockFile' = IF "admin" \in ts /\ "admin" \in up[p] THEN Nobody ELSE sockFile

\* core.stop: refused while idle, starting or stopped.
StopCore(p) ==
  /\ core' = [core EXCEPT ![p] = IF @ \in {"local", "running", "error"} THEN "stopped" ELSE @]
  /\ refused' = [refused EXCEPT ![p] = @ \/ core[p] = "starting"]

\* pidFile.write replaces the file; pidFile.cleanup unlinks it, whoever it names.
WritePid(p) == pidFile' = p
CleanupPid == pidFile' = Nobody

\* auditLog.append; readers of the log skip what they cannot parse.
AppendAudit(p, what) == audit' = audit \cup {<<p, what>>}

-----------------------------------------------------------------------------
(* Launching.                                                              *)

\* `xs start`, or the detached child of `xs start --daemon`, up to the call of
\* runtime.start.  Nothing looks at the PID file first.
Launch(p, daemonized) ==
  /\ proc[p] = "unborn"
  /\ Overlap \/ \A q \in Procs : proc[q] # "alive"
  /\ proc' = [proc EXCEPT ![p] = "alive"]
  /\ rt' = [rt EXCEPT ![p] = "starting"]
  /\ Goto(p, "keys")
  /\ parent' = [parent EXCEPT ![p] = IF daemonized THEN "waiting" ELSE "none"]
  /\ UNCHANGED <<core, up, rotating, handlers, signalled, upgrading, failed, refused, threw,
                 pipe, transportVars, audit, faults>>

\* The end of a process: what the kernel holds for it (bound ports) is released,
\* files stay as they are, and its parent can see the exit.
Exit(p) ==
  /\ proc' = [proc EXCEPT ![p] = "dead"]
  /\ Goto(p, "none")
  /\ up' = [up EXCEPT ![p] = {}]
  /\ core' = [core EXCEPT ![p] = "stopped"]
  /\ rotating' = [rotating EXCEPT ![p] = FALSE]
  /\ upgrading' = [upgrading EXCEPT ![p] = FALSE]
  /\ wsPort' = IF wsPort = p THEN Nobody ELSE wsPort
  /\ httpPort' = IF httpPort = p THEN Nobody ELSE httpPort
  /\ pipe' = [pipe EXCEPT ![p] = IF @ = "empty" THEN "exit" ELSE @]

\* daemonizeCurrentProcess: the startup line, the exit of the child, or the timeout
\* settles the start once; a failure kills a child that still lives.
ParentReads(p) ==
  /\ parent[p] = "waiting" /\ pipe[p] # "empty"
  /\ parent' = [parent EXCEPT ![p] = IF pipe[p] = "line" THEN "started" ELSE "failed"]
  /\ UNCHANGED <<proc, rt, pc, core, up, rotating, handlers, signalled, upgrading,
                 failed, refused, threw, pipe, transportVars, audit, faults>>

-----------------------------------------------------------------------------
(* runtime.start, one step per awaited call.                               *)

\* Mutant: the rollback forgets the admin server.
RollbackKeepingSocket(p) ==
  /\ rt' = [rt EXCEPT ![p] = "error"]
  /\ ReleaseAll(p, up[p] \ {"admin"})
  /\ StopCore(p)
  /\ Goto(p, "failed")
  /\ UNCHANGED <<proc, rotating, handlers, signalled, upgrading, failed, threw,
                 parent, pipe, audit>>

\* A failed step: the error state and the stops in reverse order, core last.
Rollback(p) ==
  /\ rt' = [rt EXCEPT ![p] = "error"]
  /\ ReleaseAll(p, up[p])
  /\ StopCore(p)
  /\ Goto(p, "failed")
  /\ UNCHANGED <<proc, rotating, handlers, signalled, upgrading, failed, threw,
                 parent, pipe, audit>>

Quiet(p) == UNCHANGED <<proc, rotating, handlers, signalled, upgrading, failed, refused, threw,
                        parent, pipe>>

\* keyManager.initialize and core.initializeLocal; nothing to roll back yet.
StartKeys(p) ==
  /\ At(p, "keys")
  /\ \/ /\ Fault
        /\ rt' = [rt EXCEPT ![p] = "error"] /\ Goto(p, "failed") /\ UNCHANGED core
     \/ /\ NoFault
        /\ core' = [core EXCEPT ![p] = "local"]
        /\ Goto(p, IF Networked THEN "network" ELSE "ws") /\ UNCHANGED rt
  /\ Quiet(p) /\ UNCHANGED <<up, transportVars, audit>>

\* core.initialize; its failure is logged and the daemon goes on with a local core.
\* A log that cannot be written throws to the outer catch, which undoes nothing.
StartNetwork(p) ==
  /\ At(p, "network")
  /\ \/ /\ NoFault
        /\ core' = [core EXCEPT ![p] = "running"] /\ Goto(p, "ws")
        /\ UNCHANGED <<rt, threw, audit>>
     \/ /\ Fault
        /\ AppendAudit(p, "degraded") /\ Goto(p, "ws")
        /\ UNCHANGED <<rt, core, threw>>
     \/ /\ Fault
        /\ rt' = [rt EXCEPT ![p] = "error"] /\ threw' = [threw EXCEPT ![p] = TRUE]
        /\ Goto(p, "failed") /\ UNCHANGED <<core, audit>>
  /\ UNCHANGED <<proc, up, rotating, handlers, signalled, upgrading, failed, refused, parent,
                 pipe, transportVars>>

\* wsServer.start, adminServer.start, httpServer.start.
StartTransport(p, t, next) ==
  /\ At(p, t)
  /\ \/ /\ NoFault
        /\ IF t = "admin" THEN BindAdmin(p) /\ UNCHANGED <<wsPort, httpPort>>
           ELSE BindPort(p, t) /\ UNCHANGED sockFile
        /\ Goto(p, next) /\ Quiet(p) /\ UNCHANGED <<rt, core, pidFile, audit>>
     \/ /\ \/ Fault
           \/ t # "admin" /\ ~PortFree(t) /\ NoFault
        /\ Rollback(p) /\ UNCHANGED pidFile

\* Mutant: a PID file that a crash left behind is not written over.
StartPidKeeping(p) ==
  /\ At(p, "pid")
  /\ \/ /\ NoFault /\ pidFile' = (IF pidFile = Nobody THEN p ELSE pidFile) /\ Goto(p, "audit")
        /\ Quiet(p) /\ UNCHANGED <<rt, core, up, wsPort, httpPort, sockFile, audit>>
     \/ Fault /\ Rollback(p) /\ UNCHANGED pidFile

\* pidFile.write, over whatever the file holds.
StartPid(p) ==
  /\ At(p, "pid")
  /\ \/ /\ NoFault /\ WritePid(p) /\ Goto(p, "audit")
        /\ Quiet(p) /\ UNCHANGED <<rt, core, up, wsPort, httpPort, sockFile, audit>>
     \/ Fault /\ Rollback(p) /\ UNCHANGED pidFile

\* The audit entry of the start, whose failure also removes the PID file; then the
\* rotation timer, and running.
StartAudit(p) ==
  /\ At(p, "audit")
  /\ \/ /\ NoFault
        /\ AppendAudit(p, "start")
        /\ rotating' = [rotating EXCEPT ![p] = TRUE]
        /\ rt' = [rt EXCEPT ![p] = "running"] /\ Goto(p, "announce")
        /\ UNCHANGED <<proc, core, up, handlers, signalled, upgrading, failed, refused, threw,
                       parent, pipe, transportVars>>
     \/ Fault /\ CleanupPid /\ Rollback(p)

\* The command after a start: a failed one exits with the error's code; a good one
\* installs the signal handlers and prints the startup line.
Announce(p) ==
  \/ /\ At(p, "failed")
     /\ Exit(p)
     /\ UNCHANGED <<rt, handlers, signalled, failed, refused, threw, parent, sockFile, pidFile,
                    audit, faults>>
  \/ /\ At(p, "announce")
     /\ handlers' = [handlers EXCEPT ![p] = TRUE]
     /\ pipe' = [pipe EXCEPT ![p] = "line"]
     /\ Goto(p, "serving")
     /\ UNCHANGED <<proc, rt, core, up, rotating, signalled, upgrading, failed, refused, threw,
                    parent, transportVars, audit, faults>>

-----------------------------------------------------------------------------
(* Serving.                                                                *)

\* createLazyCoreUpgrade: WebSocket traffic that needs the network core starts it
\* once; callers meanwhile share the promise.
UpgradeBegins(p) ==
  /\ proc[p] = "alive" /\ "ws" \in up[p]
  /\ ~upgrading[p] /\ core[p] \in {"local", "idle"}
  /\ upgrading' = [upgrading EXCEPT ![p] = TRUE]
  /\ core' = [core EXCEPT ![p] = "starting"]
  /\ UNCHANGED <<proc, rt, pc, up, rotating, handlers, signalled, failed, refused, threw,
                 parent, pipe, transportVars, audit, faults>>

UpgradeEnds(p) ==
  /\ upgrading[p]
  /\ upgrading' = [upgrading EXCEPT ![p] = FALSE]
  /\ \/ NoFault /\ core' = [core EXCEPT ![p] = "running"]
     \/ Fault /\ core' = [core EXCEPT ![p] = "local"]
  /\ UNCHANGED <<proc, rt, pc, up, rotating, handlers, signalled, failed, refused, threw,
                 parent, pipe, transportVars, audit>>

-----------------------------------------------------------------------------
(* runtime.shutdown, called by the signal handler or by signet.stop.       *)

\* Only a running runtime shuts down; anything else is refused.
BeginShutdown(p) ==
  /\ rt' = [rt EXCEPT ![p] = "draining"]
  /\ rotating' = [rotating EXCEPT ![p] = FALSE]
  /\ Goto(p, "stop http")

\* signet.stop on the admin socket: the same shutdown, and no exit after it.
StopRequest(p) ==
  /\ proc[p] = "alive" /\ "admin" \in up[p] /\ sockFile = p /\ rt[p] = "running"
  /\ pc[p] \in {"announce", "serving"}
  /\ BeginShutdown(p)
  /\ UNCHANGED <<proc, core, up, handlers, signalled, upgrading, failed, refused, threw, parent,
                 pipe, transportVars, audit, faults>>

\* SIGTERM or SIGINT: before the handlers are installed the process just dies; the
\* first signal after that runs the shutdown, or finds it refused and exits; a
\* second one exits at once.  A parent that gives up sends its child one.
Signal(p) ==
  /\ proc[p] = "alive"
  /\ \/ /\ parent[p] = "waiting" /\ pipe[p] = "empty"
        /\ parent' = [parent EXCEPT ![p] = "failed"]
     \/ UNCHANGED parent
  /\ \/ /\ ~handlers[p] \/ signalled[p] \/ rt[p] \in {"stopped", "error"}
        /\ Exit(p)
        /\ UNCHANGED <<rt, handlers, signalled, failed, refused, threw, sockFile, pidFile, audit>>
     \/ /\ handlers[p] /\ ~signalled[p] /\ rt[p] = "running"
        /\ signalled' = [signalled EXCEPT ![p] = TRUE]
        /\ BeginShutdown(p)
        /\ UNCHANGED <<proc, core, up, handlers, upgrading, failed, refused, threw, pipe,
                       transportVars, audit>>
     \/ /\ handlers[p] /\ ~signalled[p] /\ rt[p] = "draining"
        /\ Exit(p)
        /\ UNCHANGED <<rt, handlers, signalled, failed, refused, threw, sockFile, pidFile, audit>>
  /\ faults' = faults

\* The three transports stop in turn; a stop that fails is noted and passed over.
StopTransport(p, t, here, next) ==
  /\ At(p, here)
  /\ \/ /\ NoFault /\ ReleaseAll(p, {t}) /\ UNCHANGED failed
     \/ /\ Fault /\ failed' = [failed EXCEPT ![p] = TRUE]
        /\ UNCHANGED <<up, wsPort, httpPort, sockFile>>
  /\ Goto(p, next)
  /\ UNCHANGED <<proc, rt, core, rotating, handlers, signalled, upgrading, refused, threw, parent,
                 pipe, pidFile, audit>>

\* core.shutdown: refused while the core is still starting.
ShutdownCore(p) ==
  /\ At(p, "stop core")
  /\ StopCore(p)
  /\ failed' = [failed EXCEPT ![p] = @ \/ core[p] \notin {"local", "running", "error"}]
  /\ Goto(p, "stop pid")
  /\ UNCHANGED <<proc, rt, up, rotating, handlers, signalled, upgrading, threw, parent,
                 pipe, transportVars, audit, faults>>

\* pidFile.cleanup, whose result nobody reads, and the audit entry, whose failure
\* lands in the outer catch; then stopped, or error when something failed.
ShutdownPid(p) ==
  /\ At(p, "stop pid")
  /\ \/ NoFault /\ CleanupPid
     \/ Fault /\ UNCHANGED pidFile
  /\ Goto(p, "stop audit")
  /\ UNCHANGED <<proc, rt, core, up, rotating, handlers, signalled, upgrading, failed,
                 refused, threw, parent, pipe, wsPort, httpPort, sockFile, audit>>

ShutdownAudit(p) ==
  /\ At(p, "stop audit")
  /\ \/ /\ NoFault /\ AppendAudit(p, "stop")
        /\ rt' = [rt EXCEPT ![p] = IF failed[p] THEN "error" ELSE "stopped"]
     \/ Fault /\ UNCHANGED audit /\ rt' = [rt EXCEPT ![p] = "error"]
  /\ Goto(p, "ended")
  /\ UNCHANGED <<proc, core, up, rotating, handlers, signalled, upgrading, failed, refused, threw,
                 parent, pipe, transportVars>>

\* The signal handler's exit(0) once the shutdown returns.
HandlerExits(p) ==
  /\ At(p, "ended") /\ signalled[p]
  /\ Exit(p)
  /\ UNCHANGED <<rt, handlers, signalled, failed, refused, threw, parent, sockFile, pidFile,
                 audit, faults>>

\* A power cut or SIGKILL.
Crash(p) ==
  /\ proc[p] = "alive"
  /\ Exit(p)
  /\ UNCHANGED <<rt, handlers, signalled, failed, refused, threw, parent, sockFile, pidFile,
                 audit, faults>>

DStep(p) ==
  \/ StartKeys(p) \/ StartNetwork(p)
  \/ StartTransport(p, "ws", "admin") \/ StartTransport(p, "admin", "http")
  \/ StartTransport(p, "http", "pid")
  \/ StartPid(p) \/ StartAudit(p) \/ Announce(p)
  \/ StopTransport(p, "http", "stop http", "stop admin")
  \/ StopTransport(p, "admin", "stop admin", "stop ws")
  \/ StopTransport(p, "ws", "stop ws", "stop core")
  \/ ShutdownCore(p) \/ ShutdownPid(p) \/ ShutdownAudit(p) \/ HandlerExits(p)

DNext ==
  \E p \in Procs :
    \/ \E d \in BOOLEAN : Launch(p, d)
    \/ DStep(p) \/ ParentReads(p)
    \/ UpgradeBegins(p) \/ UpgradeEnds(p) \/ StopRequest(p) \/ Signal(p) \/ Crash(p)

DaemonSpec == DInit /\ [][DNext]_dvars

-----------------------------------------------------------------------------
(***************************************************************************)
(* A running daemon can be reached and stopped: the PID file names its     *)
(* process and the socket path its listener, whatever crashed before it    *)
(* and left a stale PID file or socket behind.                             *)
(***************************************************************************)
RunningIsReachable ==
  \A p \in Procs : proc[p] = "alive" /\ rt[p] = "running" =>
    pidFile = p /\ sockFile = p /\ wsPort = p /\ httpPort = p

(***************************************************************************)
(* A start that fails gives everything back before the command exits: no   *)
(* transport listens, no port or file names the process, the core is down. *)
(* The one exception is a log entry that cannot be written while the core  *)
(* degrades, which the outer catch reports without undoing anything; and a *)
(* core that WebSocket traffic is upgrading meanwhile refuses to stop.     *)
(***************************************************************************)
FailureReleases ==
  \A p \in Procs : At(p, "failed") /\ ~threw[p] =>
    /\ up[p] = {} /\ ~rotating[p]
    /\ refused[p] \/ core[p] \in {"idle", "stopped"}
    /\ p \notin {wsPort, httpPort, sockFile, pidFile}
=============================================================================
