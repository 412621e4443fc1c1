----------------------------- MODULE AdminSocket -----------------------------
(***************************************************************************)
(* The admin socket: the client the CLI commands use, the server in the    *)
(* daemon and the JSON-RPC lines between them.  The server starts a        *)
(* handler for every line without waiting for the one before, so answers   *)
(* come in any order; either end may go away at any time.  Lines are       *)
(* atomic: both ends put chunks together before they look at them.         *)
(***************************************************************************)
EXTENDS Naturals, Sequences

CONSTANT MaxRequests   \* bound: requests of the one client

ASSUME AdminAssumption == MaxRequests \in Nat

VARIABLES
  asock,    \* the client's socket
  apend,    \* ids in the client's pending map
  afate,    \* call -> "unsent", "waiting", "ok", "err" or "lost"
  upline,   \* lines on their way to the server
  downline, \* lines on their way to the client
  authed,   \* the connection's authenticated flag
  lines,    \* handleLine calls under way: id -> step
  token,    \* the client's token is valid
  done      \* history: ids whose action was dispatched

avars == <<asock, apend, afate, upline, downline, authed, lines, token, done>>

Auth == 0
AReqs == 1..MaxRequests
AIds == {Auth} \cup AReqs

AInit ==
  /\ asock = "none" /\ apend = {} /\ afate = [i \in AIds |-> "unsent"]
  /\ upline = <<>> /\ downline = <<>> /\ authed = FALSE
  /\ lines = [i \in AIds |-> "none"] /\ token \in BOOLEAN /\ done = {}

Settle(ids, how) ==
  /\ afate' = [i \in AIds |-> IF i \in ids THEN how ELSE afate[i]]
  /\ apend' = apend \ ids

-----------------------------------------------------------------------------
(* The client.                                                             *)

\* connect: the pending entry of the authentication, the socket, the auth frame.
\* A socket nobody listens on fails the call and leaves the entry behind.
AConnect ==
  /\ asock = "none" /\ afate[Auth] = "unsent"
  /\ \/ /\ asock' = "open" /\ upline' = <<Auth>>
        /\ afate' = [afate EXCEPT ![Auth] = "waiting"]
     \/ /\ afate' = [afate EXCEPT ![Auth] = "err"]
        /\ UNCHANGED <<asock, upline>>
  /\ apend' = {Auth}
  /\ UNCHANGED <<downline, authed, lines, token, done>>

\* request: the commands connect first and send when they are authenticated.  On a
\* socket whose peer is gone the line goes nowhere and nothing will reject the
\* call: the close callback has run already and did not reset the socket.
ARequest(i) ==
  /\ asock \in {"open", "hung up"} /\ afate[Auth] = "ok"
  /\ afate[i] = "unsent" /\ \A j \in AReqs : j < i => afate[j] # "unsent"
  /\ apend' = apend \cup {i}
  /\ afate' = [afate EXCEPT ![i] = IF asock = "open" THEN "waiting" ELSE "lost"]
  /\ upline' = IF asock = "open" THEN Append(upline, i) ELSE upline
  /\ UNCHANGED <<asock, downline, authed, lines, token, done>>

\* Mutant: an answer settles the oldest call, whatever id it carries.
ProcessLineInOrder ==
  /\ downline # <<>> /\ asock = "open"
  /\ downline' = Tail(downline)
  /\ LET d == Head(downline)
         i == CHOOSE j \in apend \cup {d.id} : \A k \in apend : j <= k IN
     Settle({i}, IF d.ok THEN "ok" ELSE "err")
  /\ UNCHANGED <<asock, upline, authed, lines, token, done>>

\* processLine: an answer settles the pending call of its id, once; the answer of
\* the authentication carries none.  connect closes the socket when it is refused.
ProcessLine ==
  /\ downline # <<>> /\ asock = "open"
  /\ LET d == Head(downline) IN
     /\ IF d.id \in apend
        THEN Settle({d.id}, IF d.ok THEN "ok" ELSE "err")
        ELSE UNCHANGED <<apend, afate>>
     /\ asock' = IF d.id = Auth /\ ~d.ok THEN "none" ELSE asock
     /\ downline' = IF d.id = Auth /\ ~d.ok THEN <<>> ELSE Tail(downline)
     /\ upline' = IF d.id = Auth /\ ~d.ok THEN <<>> ELSE upline
  /\ UNCHANGED <<authed, lines, token, done>>

\* close, by the command: the socket ends, and its close callback rejects.
AClose ==
  /\ asock = "open" /\ afate[Auth] = "ok"
  /\ asock' = "closing"
  /\ UNCHANGED <<apend, afate, upline, downline, authed, lines, token, done>>

\* The daemon exits or the connection breaks.
ServerGone ==
  /\ asock = "open"
  /\ asock' = "broken" /\ upline' = <<>> /\ lines' = [i \in AIds |-> "none"]
  /\ UNCHANGED <<apend, afate, downline, authed, token, done>>

\* Mutant: the callbacks forget the calls without rejecting them.
CloseCallbackQuiet ==
  /\ asock \in {"closing", "broken"}
  /\ asock' = IF asock = "closing" THEN "none" ELSE "hung up"
  /\ apend' = {} /\ upline' = <<>> /\ downline' = <<>>
  /\ UNCHANGED <<afate, authed, lines, token, done>>

\* The close and error callbacks: rejectAll.
CloseCallback ==
  /\ asock \in {"closing", "broken"}
  /\ Settle(apend, "err")
  /\ asock' = IF asock = "closing" THEN "none" ELSE "hung up"
  /\ upline' = <<>> /\ downline' = <<>>
  /\ UNCHANGED <<authed, lines, token, done>>

-----------------------------------------------------------------------------
(* The server: handleLine, one step per await.                             *)

Say(i, ok) ==
  downline' = IF asock = "open" THEN Append(downline, [id |-> i, ok |-> ok]) ELSE downline

\* A line arrives.  Before authentication only an auth frame is accepted; after it
\* an unknown method or invalid parameters are answered at once.
HandleLine ==
  /\ upline # <<>> /\ asock \in {"open", "closing"}
  /\ upline' = Tail(upline)
  /\ LET i == Head(upline) IN
     \/ /\ ~authed /\ i = Auth
        /\ lines' = [lines EXCEPT ![i] = "verify"] /\ UNCHANGED downline
     \/ /\ ~authed /\ i # Auth
        /\ Say(Auth, FALSE) /\ UNCHANGED lines
     \/ authed /\ Say(i, FALSE) /\ UNCHANGED lines
     \/ /\ authed
        /\ lines' = [lines EXCEPT ![i] = "elevate"] /\ UNCHANGED downline
  /\ UNCHANGED <<asock, apend, afate, authed, token, done>>

\* keyManager.admin.verifyJwt
Verified ==
  /\ lines[Auth] = "verify"
  /\ lines' = [lines EXCEPT ![Auth] = "none"]
  /\ authed' = token
  /\ Say(Auth, token)
  /\ UNCHANGED <<asock, apend, afate, upline, token, done>>

\* resolveForRequest, then the dispatcher; a refused elevation is the answer.
Elevated(i) ==
  /\ lines[i] = "elevate"
  /\ \/ lines' = [lines EXCEPT ![i] = "dispatch"] /\ UNCHANGED downline
     \/ lines' = [lines EXCEPT ![i] = "none"] /\ Say(i, FALSE)
  /\ UNCHANGED <<asock, apend, afate, upline, authed, token, done>>

\* dispatchValidated: the handler's result, its error, or what it threw.
Dispatched(i) ==
  /\ lines[i] = "dispatch"
  /\ lines' = [lines EXCEPT ![i] = "none"]
  /\ done' = done \cup {i}
  /\ \E ok \in BOOLEAN : Say(i, ok)
  /\ UNCHANGED <<asock, apend, afate, upline, authed, token>>

AServer == HandleLine \/ Verified \/ \E i \in AReqs : Elevated(i) \/ Dispatched(i)

ANext ==
  \/ AConnect \/ ProcessLine \/ AClose \/ ServerGone \/ CloseCallback \/ AServer
  \/ \E i \in AReqs : ARequest(i)

\* Promises resolve, lines arrive and close callbacks fire; nobody has to call.
AFairness == WF_avars(ProcessLine) /\ WF_avars(CloseCallback) /\ WF_avars(AServer)

AdminSpec == AInit /\ [][ANext]_avars /\ AFairness

-----------------------------------------------------------------------------
(***************************************************************************)
(* Every call the client makes on a live connection settles, whatever the  *)
(* order of the answers and whichever end goes away: by its own answer or  *)
(* by the close callback.  No call has a timeout.                          *)
(***************************************************************************)
CallsSettle == \A i \in AIds : afate[i] = "waiting" ~> afate[i] \in {"ok", "err"}

(***************************************************************************)
(* A call that succeeds was dispatched, on a connection whose token was    *)
(* verified: answers that overtake each other are matched by id.           *)
(***************************************************************************)
OkMeansDone ==
  /\ \A i \in AReqs : afate[i] = "ok" => i \in done
  /\ done # {} => token
=============================================================================
