--------------------------- MODULE HarnessRequests ---------------------------
(***************************************************************************)
(* Requests made with a credential, on every surface that takes them: the  *)
(* WebSocket request handler, the HTTP routes with credential auth and the *)
(* MCP server; the store of actions held for confirmation; and the         *)
(* operator manager, whose removal of an operator revokes its credentials. *)
(* Each await of a handler is a step boundary: the credential it was       *)
(* called with may be revoked, narrowed or suspended before it goes on.    *)
(***************************************************************************)
EXTENDS Naturals, FiniteSets

CONSTANTS Creds,     \* credentials of one operator
          HCalls,    \* requests under way at once
          Held,      \* ids of held actions
          MaxEffects \* bound: effects per behaviour

VARIABLES
  hcreds,   \* credential -> its status
  scope,    \* credential -> it may send
  held,     \* held action -> [cred, state]; state as the store and clock have it
  carried,  \* held action -> times it was carried out
  oper,     \* the operator's record: [status, config]
  mcp,      \* state of the MCP server
  hcalls,   \* the handler each request runs
  effects   \* history: what was done for a credential, and what had been seen

hvars == <<hcreds, scope, held, carried, oper, mcp, hcalls, effects>>

NoCall == [op |-> "none", cred |-> "none", act |-> "none", pc |-> "idle",
           ready |-> FALSE, oper |-> [status |-> "none", config |-> 0]]

NoHeld == [cred |-> "none", state |-> "none"]

HInit ==
  /\ hcreds \in [Creds -> {"none", "active"}]
  /\ scope = [c \in Creds |-> TRUE]
  /\ held = [a \in Held |-> NoHeld] /\ carried = [a \in Held |-> 0]
  /\ oper = [status |-> "active", config |-> 0]
  /\ mcp = "idle" /\ hcalls = [t \in HCalls |-> NoCall] /\ effects = {}

Ready == {t \in HCalls : hcalls[t].op = "none"}
Ends(t) == hcalls' = [hcalls EXCEPT ![t] = NoCall]
Goes(t, l) == hcalls' = [hcalls EXCEPT ![t].pc = l]

\* The surfaces look the credential up before a handler runs: the WebSocket
\* server by id, the HTTP route and the start of the MCP server by token.
Admits(c) == hcreds[c] = "active"

\* A handler's effect, with what is known about the credential: ready says that
\* it was still active when the last long wait was over.
Effect(t, what) ==
  /\ Cardinality(effects) < MaxEffects
  /\ effects' = effects \cup
       {[what |-> what, cred |-> hcalls[t].cred, ready |-> hcalls[t].ready]}

-----------------------------------------------------------------------------
(* send_message                                                            *)

\* validateSendMessage with the scopes the request came with; a request that
\* fails it, or whose heartbeat is stale, ends here and changes nothing.
SendMessage(t, c) ==
  /\ t \in Ready /\ Admits(c) /\ scope[c]
  /\ hcalls' = [hcalls EXCEPT ![t] = [NoCall EXCEPT !.op = "send", !.cred = c, !.pc = "core"]]
  /\ UNCHANGED <<hcreds, scope, held, carried, oper, mcp, effects>>

\* ensureCoreReady may take as long as the start of the network core, and fail.
CoreReady(t) ==
  /\ hcalls[t].pc = "core"
  /\ \/ Ends(t)
     \/ hcalls' = [hcalls EXCEPT ![t].pc = IF hcalls[t].op = "send" THEN "recheck" ELSE "deliver",
                                 ![t].ready = hcreds[hcalls[t].cred] = "active"]
  /\ UNCHANGED <<hcreds, scope, held, carried, oper, mcp, effects>>

\* Mutant: the credential is not looked up again.
RecheckSkipped(t) ==
  /\ hcalls[t].pc = "recheck"
  /\ Goes(t, "deliver")
  /\ UNCHANGED <<hcreds, scope, held, carried, oper, mcp, effects>>

\* Fail-closed: the credential is looked up again, and must still be active.
Recheck(t) ==
  /\ hcalls[t].pc = "recheck"
  /\ IF Admits(hcalls[t].cred) THEN Goes(t, "deliver") ELSE Ends(t)
  /\ UNCHANGED <<hcreds, scope, held, carried, oper, mcp, effects>>

\* core.sendMessage; afterwards the message is bound to the current seal, and a
\* binding that fails answers with an error although the message is out.
Deliver(t) ==
  /\ hcalls[t].pc = "deliver"
  /\ \/ Ends(t) /\ UNCHANGED <<carried, effects>>
     \/ /\ Effect(t, hcalls[t].op)
        /\ carried' = IF hcalls[t].op = "confirm"
                      THEN [carried EXCEPT ![hcalls[t].act] = @ + 1] ELSE carried
        /\ IF hcalls[t].op = "send" THEN Goes(t, "bind") ELSE Ends(t)
  /\ UNCHANGED <<hcreds, scope, held, oper, mcp>>

Bind(t) ==
  /\ hcalls[t].pc = "bind"
  /\ Ends(t)
  /\ UNCHANGED <<hcreds, scope, held, carried, oper, mcp, effects>>

-----------------------------------------------------------------------------
(* confirm_action and the store of held actions                            *)

\* pendingActions.add: no caller in the code yet, the store's own operation.
AddHeld(a, c) ==
  /\ held[a].state = "none" /\ Admits(c)
  /\ held' = [held EXCEPT ![a] = [cred |-> c, state |-> "held"]]
  /\ UNCHANGED <<hcreds, scope, carried, oper, mcp, hcalls, effects>>

\* Time passes a held action's expiry; expireStale may then drop it.
HeldExpires(a) ==
  /\ held[a].state \in {"held", "stale"}
  /\ held' = [held EXCEPT ![a].state = IF @ = "held" THEN "stale" ELSE "dropped"]
  /\ UNCHANGED <<hcreds, scope, carried, oper, mcp, hcalls, effects>>

\* handleConfirmAction up to its first await: an expired, refused or no longer
\* permitted action is dropped, a confirmed one is taken out and carried out.
ConfirmAction(t, c, a, yes) ==
  /\ t \in Ready /\ Admits(c)
  /\ held[a].cred = c /\ held[a].state \in {"held", "stale"}
  /\ IF held[a].state = "stale" \/ ~yes \/ ~scope[c]
     THEN held' = [held EXCEPT ![a].state = "dropped"] /\ UNCHANGED hcalls
     ELSE /\ hcalls' = [hcalls EXCEPT ![t] =
                [NoCall EXCEPT !.op = "confirm", !.cred = c, !.act = a, !.pc = "core"]]
          /\ held' = [held EXCEPT ![a].state = "taken"]
  /\ UNCHANGED <<hcreds, scope, carried, oper, mcp, effects>>

-----------------------------------------------------------------------------
(* The other harness requests                                              *)

\* handleRevealContent records the reveal, then lists the messages of the chat and
\* broadcasts the revealed ones, projected under the scopes it was called with.
RevealContent(t, c) ==
  /\ t \in Ready /\ Admits(c)
  /\ hcalls' = [hcalls EXCEPT ![t] = [NoCall EXCEPT !.op = "reveal", !.cred = c,
                                      !.pc = "list", !.ready = TRUE]]
  /\ UNCHANGED <<hcreds, scope, held, carried, oper, mcp, effects>>

RevealListed(t) ==
  /\ hcalls[t].pc = "list"
  /\ Ends(t)
  /\ Effect(t, "reveal") \/ UNCHANGED effects
  /\ UNCHANGED <<hcreds, scope, held, carried, oper, mcp>>

\* handleUpdateScopes: a widening suspends the credential, anything else applies.
UpdateScopes(c, may) ==
  /\ Admits(c)
  /\ IF may /\ ~scope[c]
     THEN hcreds' = [hcreds EXCEPT ![c] = "pending"] /\ UNCHANGED scope
     ELSE scope' = [scope EXCEPT ![c] = may] /\ UNCHANGED hcreds
  /\ UNCHANGED <<held, carried, oper, mcp, hcalls, effects>>

-----------------------------------------------------------------------------
(* HTTP and MCP                                                            *)

\* handleActionRoute with credential auth: token lookup, body, validation, handler.
HttpRequest(t, c) ==
  /\ t \in Ready /\ Admits(c)
  /\ hcalls' = [hcalls EXCEPT ![t] = [NoCall EXCEPT !.op = "http", !.cred = c,
                                      !.pc = "body", !.ready = TRUE]]
  /\ UNCHANGED <<hcreds, scope, held, carried, oper, mcp, effects>>

\* The body is read and parsed, then the spec's handler runs; either may fail.
HttpHandled(t) ==
  /\ hcalls[t].pc = "body"
  /\ Ends(t)
  /\ Effect(t, "http") \/ UNCHANGED effects
  /\ UNCHANGED <<hcreds, scope, held, carried, oper, mcp>>

\* The MCP server validates its token once, at its start.
McpStart(c) ==
  /\ mcp = "idle" /\ Admits(c)
  /\ mcp' = c
  /\ UNCHANGED <<hcreds, scope, held, carried, oper, hcalls, effects>>

\* A tool call: checkCredentialLiveness on the fresh record before every call.  A
\* credential that fails it only changes the server's state; it keeps answering.
McpCall(t) ==
  /\ t \in Ready /\ mcp \in Creds
  /\ hcalls' = [hcalls EXCEPT ![t] = [NoCall EXCEPT !.op = "mcp", !.cred = mcp, !.pc = "alive"]]
  /\ UNCHANGED <<hcreds, scope, held, carried, oper, mcp, effects>>

McpAlive(t) ==
  /\ hcalls[t].pc = "alive"
  /\ IF Admits(hcalls[t].cred)
     THEN hcalls' = [hcalls EXCEPT ![t].pc = "tool", ![t].ready = TRUE]
     ELSE Ends(t)
  /\ UNCHANGED <<hcreds, scope, held, carried, oper, mcp, effects>>

\* handleCallTool: tool lookup, validation, handler.
McpTool(t) ==
  /\ hcalls[t].pc = "tool"
  /\ Ends(t)
  /\ Effect(t, "mcp") \/ UNCHANGED effects
  /\ UNCHANGED <<hcreds, scope, held, carried, oper, mcp>>

-----------------------------------------------------------------------------
(* The operator manager and the credentials.                               *)

\* credentialManager.issue: whatever the operator's record says.
IssueFor(c) ==
  /\ hcreds[c] = "none"
  /\ hcreds' = [hcreds EXCEPT ![c] = "active"]
  /\ UNCHANGED <<scope, held, carried, oper, mcp, hcalls, effects>>

\* A credential is revoked or runs out.
Lapse(c) ==
  /\ hcreds[c] \in {"active", "pending"}
  /\ hcreds' = [hcreds EXCEPT ![c] = "revoked"]
  /\ UNCHANGED <<scope, held, carried, oper, mcp, hcalls, effects>>

\* operatorManager.update: the record as it is, with another config.
UpdateOperator(k) ==
  /\ oper' = [oper EXCEPT !.config = k]
  /\ UNCHANGED <<hcreds, scope, held, carried, mcp, hcalls, effects>>

\* operatorManager.remove up to its await: the record is read and every credential
\* of the operator revoked.
RemoveOperator(t) ==
  /\ t \in Ready
  /\ hcreds' = [c \in Creds |-> IF hcreds[c] \in {"active", "pending"} THEN "revoked"
                                ELSE hcreds[c]]
  /\ hcalls' = [hcalls EXCEPT ![t] = [NoCall EXCEPT !.op = "remove", !.pc = "mark",
                                      !.oper = oper]]
  /\ UNCHANGED <<scope, held, carried, oper, mcp, effects>>

\* The record that was read, marked removed.
MarkRemoved(t) ==
  /\ hcalls[t].pc = "mark"
  /\ oper' = [hcalls[t].oper EXCEPT !.status = "removed"]
  /\ Ends(t)
  /\ UNCHANGED <<hcreds, scope, held, carried, mcp, effects>>

HNext ==
  \/ \E t \in HCalls :
       \/ CoreReady(t) \/ Recheck(t) \/ Deliver(t) \/ Bind(t)
       \/ RevealListed(t) \/ HttpHandled(t) \/ McpCall(t) \/ McpAlive(t) \/ McpTool(t)
       \/ RemoveOperator(t) \/ MarkRemoved(t)
       \/ \E c \in Creds :
            \/ SendMessage(t, c) \/ RevealContent(t, c) \/ HttpRequest(t, c)
            \/ \E a \in Held, yes \in BOOLEAN : ConfirmAction(t, c, a, yes)
  \/ \E c \in Creds :
       \/ IssueFor(c) \/ Lapse(c) \/ McpStart(c)
       \/ \E may \in BOOLEAN : UpdateScopes(c, may)
       \/ \E a \in Held : AddHeld(a, c)
  \/ \E a \in Held : HeldExpires(a)
  \/ \E k \in {0, 1} : UpdateOperator(k)

HarnessSpec == HInit /\ [][HNext]_hvars

-----------------------------------------------------------------------------
(***************************************************************************)
(* "Fail-closed": a credential that is gone when the core is finally ready *)
(* sends nothing, and no surface does anything for a credential that was   *)
(* not active at its last check, however long the handler waited and       *)
(* whoever revoked, suspended or removed meanwhile.  A confirmed action is *)
(* excepted: its handler does not look again (request-handler.ts:451).     *)
(***************************************************************************)
FailClosed == \A e \in effects : e.what # "confirm" => e.ready

(***************************************************************************)
(* A held action is carried out at most once, and never after it was       *)
(* refused, withdrawn with the scope or dropped as expired, although two   *)
(* confirmations and a refusal of it may cross.                            *)
(***************************************************************************)
HeldOnce ==
  \A a \in Held :
    /\ carried[a] <= 1
    /\ carried[a] = 1 => held[a].state = "taken"

\* Nothing is done for a harness that it is not entitled to, and nothing twice.
EffectsAreEntitled == FailClosed /\ HeldOnce
=============================================================================
