---------------------------- MODULE ActionProofs ----------------------------
(***************************************************************************)
(* Theorems about the handlers behind the signet's surfaces: requests with *)
(* a credential, joining by invite, the inbox actions and the chat actions.*)
(***************************************************************************)
EXTENDS HarnessRequests, Invites, Inboxes, ChatActions, FiniteSetTheorems, TLAPS

(***************************************************************************)
(* Requests with a credential.  A credential that is no longer active does *)
(* not become active again, so what CoreReady saw is still true when the   *)
(* second lookup admits it; a held action that was taken out is carried by *)
(* one request.                                                            *)
(***************************************************************************)
OperType == [status : {"none", "active", "removed"}, config : {0, 1}]

CallType ==
  [op : {"none", "send", "confirm", "reveal", "http", "mcp", "remove"},
   cred : Creds \cup {"none"}, act : Held \cup {"none"},
   pc : {"idle", "core", "recheck", "deliver", "bind", "list", "body", "alive", "tool", "mark"},
   ready : BOOLEAN, oper : OperType]

HeldType == [cred : Creds \cup {"none"}, state : {"none", "held", "stale", "dropped", "taken"}]

\* A request under way, while the credentials have the status st.
CallOK(k, st) ==
  /\ k.pc \in {"core", "recheck"} /\ k.op = "send" => k.cred \in Creds /\ st[k.cred] # "none"
  /\ k.pc \in {"core", "deliver"} => k.op \in {"send", "confirm"}
  /\ k.pc \in {"recheck", "bind"} => k.op = "send"
  /\ k.op = "confirm" => k.act \in Held /\ k.pc \in {"core", "deliver"}
  /\ k.op = "none" => k.pc = "idle"
  /\ k.pc \in {"list", "body", "tool"} => k.ready
  /\ k.pc = "deliver" /\ k.op = "send" => k.ready
  /\ k.pc = "recheck" /\ st[k.cred] = "active" => k.ready

HarnessType ==
  /\ hcreds \in [Creds -> {"none", "active", "pending", "revoked"}]
  /\ held \in [Held -> HeldType] /\ carried \in [Held -> Nat]
  /\ oper \in OperType /\ hcalls \in [HCalls -> CallType]

\* The request that carries out a held action.
Carries(k, a) == k.op = "confirm" /\ k.act = a

HeldInv ==
  \A a \in Held :
    /\ carried[a] = 0 \/ (carried[a] = 1 /\ held[a].state = "taken")
    /\ \A t \in HCalls : Carries(hcalls[t], a) => held[a].state = "taken" /\ carried[a] = 0
    /\ \A t, u \in HCalls : Carries(hcalls[t], a) /\ Carries(hcalls[u], a) => t = u

HarnessInv ==
  /\ HarnessType /\ FailClosed /\ HeldInv
  /\ \A t \in HCalls : CallOK(hcalls[t], hcreds)

\* No request.
LEMMA NoCallIsTyped ==
    NoCall \in CallType /\ NoCall.op = "none" /\ NoCall.pc = "idle" /\ \A st : CallOK(NoCall, st)
<1>1. NoCall \in CallType /\ NoCall.op = "none" /\ NoCall.pc = "idle"
  BY DEF NoCall, CallType, OperType
<1> QED
  BY <1>1 DEF CallOK

\* A step of one request that leaves the credentials and the held actions alone.
LEMMA OneCallSteps ==
    ASSUME HarnessInv, NEW t \in HCalls, NEW k \in CallType, CallOK(k, hcreds),
           hcalls' = [hcalls EXCEPT ![t] = k], UNCHANGED <<hcreds, held, carried>>,
           oper' \in OperType,
           k.op = "confirm" => hcalls[t].op = "confirm" /\ k.act = hcalls[t].act,
           \A e \in effects' : e \in effects \/ e.what = "confirm" \/ e.ready
    PROVE  HarnessInv'
<1>1. hcalls'[t] = k /\ (\A u \in HCalls : u # t => hcalls'[u] = hcalls[u])
      /\ hcalls' \in [HCalls -> CallType]
  BY DEF HarnessInv, HarnessType
<1>2. HarnessType'
  BY <1>1 DEF HarnessInv, HarnessType
<1>3. FailClosed'
  BY DEF HarnessInv, FailClosed
<1>4. \A u \in HCalls, a \in Held : Carries(hcalls'[u], a) => Carries(hcalls[u], a)
  BY <1>1 DEF Carries
<1>5. HeldInv'
  BY <1>4 DEF HarnessInv, HeldInv
<1>6. \A u \in HCalls : CallOK(hcalls'[u], hcreds')
  BY <1>1 DEF HarnessInv
<1> QED
  BY <1>2, <1>3, <1>5, <1>6 DEF HarnessInv

\* A request that ends, with an effect or without.
LEMMA CallEnds ==
    ASSUME HarnessInv, NEW t \in HCalls, Ends(t), UNCHANGED <<hcreds, held, carried>>,
           oper' \in OperType,
           \A e \in effects' : e \in effects \/ e.what = "confirm" \/ e.ready
    PROVE  HarnessInv'
BY NoCallIsTyped, OneCallSteps DEF Ends

\* An effect of a request that is ready.
LEMMA EffectIsReady ==
    ASSUME HarnessInv, NEW t \in HCalls, NEW what,
           Effect(t, what) \/ UNCHANGED effects, what = "confirm" \/ hcalls[t].ready
    PROVE  \A e \in effects' : e \in effects \/ e.what = "confirm" \/ e.ready
<1>1. PICK e : e = [what |-> what, cred |-> hcalls[t].cred, ready |-> hcalls[t].ready]
  OBVIOUS
<1>2. e.what = what /\ e.ready = hcalls[t].ready
  BY <1>1
<1>3. effects' = effects \cup {e} \/ effects' = effects
  BY <1>1 DEF Effect
<1> QED
  BY <1>2, <1>3

\* A request begins.
LEMMA CallBegins ==
    ASSUME HarnessInv, NEW t \in HCalls,
           (\E c \in Creds : SendMessage(t, c) \/ RevealContent(t, c) \/ HttpRequest(t, c))
             \/ McpCall(t)
    PROVE  HarnessInv'
<1>0. UNCHANGED <<hcreds, held, carried, oper, effects>> /\ oper' \in OperType
  BY DEF SendMessage, RevealContent, HttpRequest, McpCall, HarnessInv, HarnessType
<1>1. ASSUME NEW c \in Creds, SendMessage(t, c)
      PROVE  HarnessInv'
  <2>1. PICK k : k = [NoCall EXCEPT !.op = "send", !.cred = c, !.pc = "core"]
    OBVIOUS
  <2>2. k \in CallType /\ k.op = "send" /\ k.cred = c /\ k.pc = "core"
    BY <2>1, NoCallIsTyped DEF CallType
  <2>3. hcalls' = [hcalls EXCEPT ![t] = k] /\ hcreds[c] = "active"
    BY <1>1, <2>1 DEF SendMessage, Admits
  <2>4. CallOK(k, hcreds)
    BY <2>2, <2>3 DEF CallOK
  <2> QED
    BY <1>0, <2>2, <2>3, <2>4, OneCallSteps
<1>2. ASSUME NEW c \in Creds, RevealContent(t, c) \/ HttpRequest(t, c)
      PROVE  HarnessInv'
  <2>1. PICK o \in {"reveal", "http"}, l \in {"list", "body"} :
          hcalls' = [hcalls EXCEPT ![t] = [NoCall EXCEPT !.op = o, !.cred = c,
                                      !.pc = l, !.ready = TRUE]]
    BY <1>2 DEF RevealContent, HttpRequest
  <2>2. PICK k : k = [NoCall EXCEPT !.op = o, !.cred = c, !.pc = l, !.ready = TRUE]
    OBVIOUS
  <2>3. k \in CallType /\ k.op = o /\ k.pc = l /\ k.ready
    BY <2>2, NoCallIsTyped DEF CallType
  <2>4. CallOK(k, hcreds)
    BY <2>3 DEF CallOK
  <2> QED
    BY <1>0, <2>1, <2>2, <2>3, <2>4, OneCallSteps
<1>3. CASE McpCall(t)
  <2>1. PICK k : k = [NoCall EXCEPT !.op = "mcp", !.cred = mcp, !.pc = "alive"]
    OBVIOUS
  <2>2. k \in CallType /\ k.op = "mcp" /\ k.pc = "alive"
    BY <1>3, <2>1, NoCallIsTyped DEF CallType, McpCall
  <2>3. hcalls' = [hcalls EXCEPT ![t] = k]
    BY <1>3, <2>1 DEF McpCall
  <2>4. CallOK(k, hcreds)
    BY <2>2 DEF CallOK
  <2> QED
    BY <1>0, <2>2, <2>3, <2>4, OneCallSteps
<1> QED
  BY <1>1, <1>2, <1>3

\* The waits of a request and its end; Deliver without a held action.
LEMMA CallGoesOn ==
    ASSUME HarnessInv, NEW t \in HCalls,
           \/ CoreReady(t) \/ Recheck(t) \/ Bind(t) \/ RevealListed(t) \/ HttpHandled(t)
           \/ McpAlive(t) \/ McpTool(t) \/ MarkRemoved(t)
           \/ Deliver(t) /\ (hcalls[t].op # "confirm" \/ UNCHANGED carried)
    PROVE  HarnessInv'
<1>0. /\ hcalls[t] \in CallType /\ CallOK(hcalls[t], hcreds) /\ oper \in OperType
      /\ hcreds \in [Creds -> {"none", "active", "pending", "revoked"}]
      /\ hcalls \in [HCalls -> CallType]
  BY DEF HarnessInv, HarnessType
<1>1. CASE CoreReady(t)
  <2>1. UNCHANGED <<hcreds, held, carried, oper, effects>> /\ hcalls[t].pc = "core"
    BY <1>1 DEF CoreReady
  <2>2. CASE Ends(t)
    BY <1>0, <2>1, <2>2, CallEnds
  <2>3. CASE ~Ends(t)
    <3>1. PICK v \in BOOLEAN : v = (hcreds[hcalls[t].cred] = "active")
      <4>1. (hcreds[hcalls[t].cred] = "active") \in BOOLEAN
        OBVIOUS
      <4> QED
        BY <4>1, Zenon
    <3>2. PICK l : l = IF hcalls[t].op = "send" THEN "recheck" ELSE "deliver"
      OBVIOUS
    <3>3. PICK k : k = [hcalls[t] EXCEPT !.pc = l, !.ready = v]
      OBVIOUS
    <3>4. k \in CallType /\ k.pc = l /\ k.ready = v /\ k.op = hcalls[t].op
          /\ k.cred = hcalls[t].cred /\ k.act = hcalls[t].act
      BY <1>0, <3>2, <3>3 DEF CallType
    <3>5. hcalls' = [hcalls EXCEPT ![t] = k]
      BY <1>0, <1>1, <2>3, <3>1, <3>2, <3>3 DEF CoreReady
    <3>6. CallOK(k, hcreds)
      BY <1>0, <2>1, <3>1, <3>2, <3>4 DEF CallOK
    <3> QED
      BY <1>0, <2>1, <3>4, <3>5, <3>6, OneCallSteps
  <2> QED
    BY <2>2, <2>3
<1>2. ASSUME NEW l \in {"deliver", "bind"}, Goes(t, l), hcalls[t].op = "send", hcalls[t].ready,
             UNCHANGED <<hcreds, held, carried, oper>>,
             \A e \in effects' : e \in effects \/ e.what = "confirm" \/ e.ready
      PROVE  HarnessInv'
  <2>1. PICK k : k = [hcalls[t] EXCEPT !.pc = l]
    OBVIOUS
  <2>2. k \in CallType /\ k.pc = l /\ k.ready = hcalls[t].ready /\ k.op = "send"
    BY <1>0, <1>2, <2>1 DEF CallType
  <2>3. hcalls' = [hcalls EXCEPT ![t] = k]
    BY <1>0, <1>2, <2>1 DEF Goes
  <2>4. CallOK(k, hcreds)
    BY <1>2, <2>2 DEF CallOK
  <2> QED
    BY <1>0, <1>2, <2>2, <2>3, <2>4, OneCallSteps
<1>3. CASE Recheck(t)
  <2>1. UNCHANGED <<hcreds, held, carried, oper, effects>> /\ hcalls[t].pc = "recheck"
    BY <1>3 DEF Recheck
  <2>2. CASE Admits(hcalls[t].cred)
    <3>1. Goes(t, "deliver") /\ hcalls[t].op = "send" /\ hcalls[t].ready
      BY <1>0, <1>3, <2>1, <2>2 DEF Recheck, CallOK, Admits
    <3> QED
      BY <1>2, <2>1, <3>1
  <2>3. CASE ~Admits(hcalls[t].cred)
    BY <1>0, <1>3, <2>1, <2>3, CallEnds DEF Recheck
  <2> QED
    BY <2>2, <2>3
<1>4. CASE Bind(t)
  BY <1>0, <1>4, CallEnds DEF Bind
<1>5. CASE RevealListed(t) \/ HttpHandled(t) \/ McpTool(t)
  <2>1. /\ hcalls[t].pc \in {"list", "body", "tool"} /\ Ends(t)
        /\ UNCHANGED <<hcreds, held, carried, oper>>
        /\ \E what : Effect(t, what) \/ UNCHANGED effects
    BY <1>5 DEF RevealListed, HttpHandled, McpTool
  <2>2. hcalls[t].ready
    BY <1>0, <2>1 DEF CallOK
  <2>3. \A e \in effects' : e \in effects \/ e.what = "confirm" \/ e.ready
    BY <2>1, <2>2, EffectIsReady
  <2> QED
    BY <1>0, <2>1, <2>3, CallEnds
<1>6. CASE McpAlive(t)
  <2>1. UNCHANGED <<hcreds, held, carried, oper, effects>> /\ hcalls[t].pc = "alive"
    BY <1>6 DEF McpAlive
  <2>2. CASE Ends(t)
    BY <1>0, <2>1, <2>2, CallEnds
  <2>3. CASE ~Ends(t)
    <3>1. PICK k : k = [hcalls[t] EXCEPT !.pc = "tool", !.ready = TRUE]
      OBVIOUS
    <3>2. k \in CallType /\ k.pc = "tool" /\ k.ready /\ k.op = hcalls[t].op
      BY <1>0, <3>1 DEF CallType
    <3>3. hcalls' = [hcalls EXCEPT ![t] = k]
      BY <1>0, <1>6, <2>3, <3>1 DEF McpAlive
    <3>4. k.op # "confirm" /\ CallOK(k, hcreds)
      BY <1>0, <2>1, <3>2 DEF CallOK
    <3> QED
      BY <1>0, <2>1, <3>2, <3>3, <3>4, OneCallSteps
  <2> QED
    BY <2>2, <2>3
<1>7. CASE MarkRemoved(t)
  <2>1. hcalls[t].oper \in OperType /\ oper' = [hcalls[t].oper EXCEPT !.status = "removed"]
        /\ UNCHANGED <<hcreds, held, carried, effects>> /\ Ends(t)
    BY <1>0, <1>7 DEF MarkRemoved, CallType
  <2>2. oper' \in OperType
    BY <2>1 DEF OperType
  <2> QED
    BY <2>1, <2>2, CallEnds
<1>8. CASE Deliver(t) /\ (hcalls[t].op # "confirm" \/ UNCHANGED carried)
  <2>1. /\ UNCHANGED <<hcreds, held, oper, carried>> /\ hcalls[t].pc = "deliver"
        /\ hcalls[t].op \in {"send", "confirm"}
    BY <1>0, <1>8 DEF Deliver, CallOK
  <2>2. \/ Ends(t) /\ UNCHANGED effects
        \/ Effect(t, hcalls[t].op) /\ Ends(t) /\ hcalls[t].op = "confirm"
        \/ Effect(t, hcalls[t].op) /\ Goes(t, "bind") /\ hcalls[t].op = "send"
    BY <1>8, <2>1 DEF Deliver
  <2>3. hcalls[t].op = "send" => hcalls[t].ready
    BY <1>0, <2>1 DEF CallOK
  <2>4. \A e \in effects' : e \in effects \/ e.what = "confirm" \/ e.ready
    BY <2>1, <2>2, <2>3, EffectIsReady
  <2> QED
    BY <1>0, <1>2, <2>1, <2>2, <2>3, <2>4, CallEnds
<1> QED
  BY <1>1, <1>3, <1>4, <1>5, <1>6, <1>7, <1>8

\* A confirmed action is carried out.
LEMMA HeldIsCarried ==
    ASSUME HarnessInv, NEW t \in HCalls, Deliver(t), hcalls[t].op = "confirm"
    PROVE  HarnessInv'
<1>1. CASE UNCHANGED carried
  BY <1>1, CallGoesOn
<1>2. CASE ~UNCHANGED carried
  <2>1. PICK a \in Held : a = hcalls[t].act
    BY DEF HarnessInv, CallOK
  <2>2. /\ Effect(t, "confirm") /\ Ends(t) /\ UNCHANGED <<hcreds, held, oper>>
        /\ carried' = [carried EXCEPT ![a] = carried[a] + 1]
    BY <1>2, <2>1 DEF Deliver
  <2>3. Carries(hcalls[t], a) /\ held[a].state = "taken" /\ carried[a] = 0
        /\ \A u \in HCalls : Carries(hcalls[u], a) => u = t
    BY <2>1 DEF HarnessInv, HeldInv, Carries
  <2>4. /\ carried' \in [Held -> Nat] /\ carried'[a] = 1
        /\ \A b \in Held : b # a => carried'[b] = carried[b]
    BY <2>2, <2>3 DEF HarnessInv, HarnessType
  <2>5. /\ hcalls' \in [HCalls -> CallType] /\ hcalls'[t] = NoCall
        /\ \A u \in HCalls : u # t => hcalls'[u] = hcalls[u]
    BY <2>2, NoCallIsTyped DEF Ends, HarnessInv, HarnessType
  <2>6. \A u \in HCalls, b \in Held : Carries(hcalls'[u], b) => Carries(hcalls[u], b) /\ u # t
    BY <2>5, NoCallIsTyped DEF Carries
  <2>7. HarnessType'
    BY <2>2, <2>4, <2>5 DEF HarnessInv, HarnessType
  <2>8. \A e \in effects' : e \in effects \/ e.what = "confirm" \/ e.ready
    BY <2>2, EffectIsReady
  <2>9. FailClosed'
    BY <2>8 DEF HarnessInv, FailClosed
  <2>10. HeldInv'
    BY <2>2, <2>3, <2>4, <2>6 DEF HarnessInv, HeldInv
  <2>11. \A u \in HCalls : CallOK(hcalls'[u], hcreds')
    BY <2>2, <2>5, NoCallIsTyped DEF HarnessInv
  <2> QED
    BY <2>7, <2>9, <2>10, <2>11 DEF HarnessInv
<1> QED
  BY <1>1, <1>2

\* The store of held actions, but for an action that is taken out.
LEMMA HeldSteps ==
    ASSUME HarnessInv, NEW a \in Held, NEW r \in HeldType, held' = [held EXCEPT ![a] = r],
           held[a].state # "taken", UNCHANGED <<hcreds, carried, oper, hcalls, effects>>
    PROVE  HarnessInv'
<1>1. held' \in [Held -> HeldType] /\ \A b \in Held : b # a => held'[b] = held[b]
  BY DEF HarnessInv, HarnessType
<1>2. HarnessType'
  BY <1>1 DEF HarnessInv, HarnessType
<1>3. HeldInv'
  BY <1>1 DEF HarnessInv, HeldInv
<1> QED
  BY <1>2, <1>3 DEF HarnessInv, FailClosed

\* A held action is added, expires or is dropped.
LEMMA StoreSteps ==
    ASSUME HarnessInv, NEW a \in Held, HeldExpires(a) \/ \E c \in Creds : AddHeld(a, c)
    PROVE  HarnessInv'
<1>0. held[a] \in HeldType /\ held \in [Held -> HeldType]
  BY DEF HarnessInv, HarnessType
<1>1. CASE HeldExpires(a)
  <2>1. PICK l \in {"stale", "dropped"} : l = IF held[a].state = "held" THEN "stale" ELSE "dropped"
    OBVIOUS
  <2>2. PICK r : r = [held[a] EXCEPT !.state = l]
    OBVIOUS
  <2>3. r \in HeldType
    BY <1>0, <2>2 DEF HeldType
  <2>4. held' = [held EXCEPT ![a] = r] /\ held[a].state # "taken"
    BY <1>0, <1>1, <2>1, <2>2 DEF HeldExpires
  <2> QED
    BY <1>1, <2>3, <2>4, HeldSteps DEF HeldExpires
<1>2. ASSUME NEW c \in Creds, AddHeld(a, c)
      PROVE  HarnessInv'
  <2>1. [cred |-> c, state |-> "held"] \in HeldType
    BY DEF HeldType
  <2> QED
    BY <1>2, <2>1, HeldSteps DEF AddHeld
<1> QED
  BY <1>1, <1>2

\* confirm_action: the action is dropped, or taken out by this request alone.
LEMMA ConfirmSteps ==
    ASSUME HarnessInv, NEW t \in HCalls, NEW c \in Creds, NEW a \in Held, NEW yes \in BOOLEAN,
           ConfirmAction(t, c, a, yes)
    PROVE  HarnessInv'
<1>0. held[a] \in HeldType /\ held \in [Held -> HeldType] /\ held[a].state # "taken"
      /\ UNCHANGED <<hcreds, carried, oper, effects>> /\ hcalls[t].op = "none"
  BY DEF HarnessInv, HarnessType, ConfirmAction, Ready
<1>1. ASSUME NEW l \in {"dropped", "taken"}
      PROVE  [held[a] EXCEPT !.state = l] \in HeldType /\ [held[a] EXCEPT !.state = l].state = l
  BY <1>0 DEF HeldType
<1>2. CASE held' = [held EXCEPT ![a].state = "dropped"] /\ UNCHANGED hcalls
  <2>1. PICK r : r = [held[a] EXCEPT !.state = "dropped"]
    OBVIOUS
  <2>2. r \in HeldType /\ held' = [held EXCEPT ![a] = r]
    BY <1>0, <1>1, <1>2, <2>1
  <2> QED
    BY <1>0, <1>2, <2>2, HeldSteps
<1>3. CASE ~(held' = [held EXCEPT ![a].state = "dropped"] /\ UNCHANGED hcalls)
  <2>1. PICK r : r = [held[a] EXCEPT !.state = "taken"]
    OBVIOUS
  <2>2. r \in HeldType /\ r.state = "taken"
    BY <1>1, <2>1
  <2>3. PICK k : k = [NoCall EXCEPT !.op = "confirm", !.cred = c, !.act = a, !.pc = "core"]
    OBVIOUS
  <2>4. k \in CallType /\ k.op = "confirm" /\ k.act = a /\ k.pc = "core"
    BY <2>3, NoCallIsTyped DEF CallType
  <2>5. held' = [held EXCEPT ![a] = r] /\ hcalls' = [hcalls EXCEPT ![t] = k]
    BY <1>0, <1>3, <2>1, <2>3 DEF ConfirmAction
  <2>6. /\ held' \in [Held -> HeldType] /\ held'[a] = r
        /\ \A b \in Held : b # a => held'[b] = held[b]
    BY <1>0, <2>2, <2>5
  <2>7. /\ hcalls' \in [HCalls -> CallType] /\ hcalls'[t] = k
        /\ \A u \in HCalls : u # t => hcalls'[u] = hcalls[u]
    BY <2>4, <2>5 DEF HarnessInv, HarnessType
  <2>8. HarnessType'
    BY <1>0, <2>6, <2>7 DEF HarnessInv, HarnessType
  <2>9. carried[a] = 0 /\ \A u \in HCalls : ~Carries(hcalls[u], a)
    BY <1>0 DEF HarnessInv, HeldInv
  <2>10. \A u \in HCalls, b \in Held :
            Carries(hcalls'[u], b) <=> (u = t /\ b = a) \/ (u # t /\ Carries(hcalls[u], b))
    BY <2>4, <2>7 DEF Carries
  <2>11. HeldInv'
    BY <1>0, <2>2, <2>6, <2>9, <2>10 DEF HarnessInv, HeldInv
  <2>12. CallOK(k, hcreds)
    BY <2>4 DEF CallOK
  <2>13. \A u \in HCalls : CallOK(hcalls'[u], hcreds')
    BY <1>0, <2>7, <2>12 DEF HarnessInv
  <2> QED
    BY <1>0, <2>8, <2>11, <2>13 DEF HarnessInv, FailClosed
<1> QED
  BY <1>2, <1>3

\* Credentials are issued, suspended, revoked: none becomes active a second time.
LEMMA CredentialSteps ==
    ASSUME HarnessInv, hcreds' \in [Creds -> {"none", "active", "pending", "revoked"}],
           \A c \in Creds : hcreds[c] # "none" =>
              hcreds'[c] # "none" /\ (hcreds'[c] = "active" => hcreds[c] = "active"),
           UNCHANGED <<held, carried, oper, effects, hcalls>>
    PROVE  HarnessInv'
<1>1. HarnessType' /\ FailClosed' /\ HeldInv'
  BY DEF HarnessInv, HarnessType, FailClosed, HeldInv
<1>2. ASSUME NEW t \in HCalls
      PROVE  CallOK(hcalls[t], hcreds')
  <2>1. CallOK(hcalls[t], hcreds)
    BY DEF HarnessInv
  <2> QED
    BY <2>1 DEF CallOK
<1> QED
  BY <1>1, <1>2 DEF HarnessInv

\* The operations that change a credential's status or scope.
LEMMA StatusSteps ==
    ASSUME HarnessInv, NEW c \in Creds,
           IssueFor(c) \/ Lapse(c) \/ McpStart(c) \/ \E may \in BOOLEAN : UpdateScopes(c, may)
    PROVE  HarnessInv'
<1>0. UNCHANGED <<held, carried, oper, effects, hcalls>>
      /\ hcreds \in [Creds -> {"none", "active", "pending", "revoked"}]
  BY DEF IssueFor, Lapse, McpStart, UpdateScopes, HarnessInv, HarnessType
<1>1. \/ UNCHANGED hcreds
      \/ hcreds[c] = "none" /\ hcreds' = [hcreds EXCEPT ![c] = "active"]
      \/ hcreds[c] # "none" /\ \E l \in {"pending", "revoked"} : hcreds' = [hcreds EXCEPT ![c] = l]
  BY DEF IssueFor, Lapse, McpStart, UpdateScopes, Admits
<1> QED
  BY <1>0, <1>1, CredentialSteps

\* operatorManager.remove up to its await.
LEMMA RemovalSteps ==
    ASSUME HarnessInv, NEW t \in HCalls, RemoveOperator(t)
    PROVE  HarnessInv'
<1>1. /\ hcreds \in [Creds -> {"none", "active", "pending", "revoked"}] /\ oper \in OperType
      /\ hcreds' = [c \in Creds |-> IF hcreds[c] \in {"active", "pending"} THEN "revoked"
                                    ELSE hcreds[c]]
      /\ UNCHANGED <<held, carried, oper, effects>>
  BY DEF RemoveOperator, HarnessInv, HarnessType
<1>2. PICK k : k = [NoCall EXCEPT !.op = "remove", !.pc = "mark", !.oper = oper]
  OBVIOUS
<1>3. k \in CallType /\ k.op = "remove" /\ k.pc = "mark"
  BY <1>1, <1>2, NoCallIsTyped DEF CallType
<1>4. /\ hcalls' \in [HCalls -> CallType] /\ hcalls'[t] = k
      /\ \A u \in HCalls : u # t => hcalls'[u] = hcalls[u]
  BY <1>2, <1>3 DEF RemoveOperator, HarnessInv, HarnessType
<1>5. HarnessType'
  BY <1>1, <1>4 DEF HarnessInv, HarnessType
<1>6. \A u \in HCalls, a \in Held : Carries(hcalls'[u], a) => Carries(hcalls[u], a)
  BY <1>3, <1>4 DEF Carries
<1>7. HeldInv'
  BY <1>1, <1>6 DEF HarnessInv, HeldInv
<1>8. \A c \in Creds : hcreds'[c] # "active" /\ (hcreds[c] # "none" => hcreds'[c] # "none")
  BY <1>1
<1>9. ASSUME NEW u \in HCalls
      PROVE  CallOK(hcalls'[u], hcreds')
  <2>1. CASE u = t
    BY <1>3, <1>4, <2>1 DEF CallOK
  <2>2. CASE u # t
    <3>1. CallOK(hcalls[u], hcreds)
      BY DEF HarnessInv
    <3> QED
      BY <1>4, <1>8, <2>2, <3>1 DEF CallOK
  <2> QED
    BY <2>1, <2>2
<1> QED
  BY <1>1, <1>5, <1>7, <1>9 DEF HarnessInv, FailClosed

\* Nothing is done for a credential that was not active at the last check, and a
\* held action is carried out once at the most, on every surface and whatever is
\* revoked, suspended or removed while a handler waits.
THEOREM EffectsAreAlwaysEntitled == HarnessSpec => []EffectsAreEntitled
<1>1. HInit => HarnessInv
  <2> SUFFICES ASSUME HInit
               PROVE  HarnessInv
    OBVIOUS
  <2>1. NoHeld \in HeldType
    BY DEF NoHeld, HeldType
  <2>2. [status |-> "active", config |-> 0] \in OperType
    BY DEF OperType
  <2>3. HarnessType
    BY <2>1, <2>2, NoCallIsTyped DEF HInit, HarnessType
  <2>4. \A t \in HCalls : hcalls[t] = NoCall
    BY DEF HInit
  <2>5. HeldInv
    BY <2>4, NoCallIsTyped DEF HInit, HeldInv, Carries
  <2> QED
    BY <2>3, <2>4, <2>5, NoCallIsTyped DEF HInit, HarnessInv, FailClosed
<1>2. HarnessInv /\ [HNext]_hvars => HarnessInv'
  <2> SUFFICES ASSUME HarnessInv, [HNext]_hvars
               PROVE  HarnessInv'
    OBVIOUS
  <2>1. CASE UNCHANGED hvars
    BY <2>1 DEF hvars, HarnessInv, HarnessType, FailClosed, HeldInv
  <2>2. ASSUME NEW t \in HCalls, Deliver(t)
        PROVE  HarnessInv'
    BY <2>2, HeldIsCarried, CallGoesOn
  <2>3. ASSUME NEW k \in {0, 1}, UpdateOperator(k)
        PROVE  HarnessInv'
    <3>1. oper' \in OperType
      BY <2>3 DEF UpdateOperator, HarnessInv, HarnessType, OperType
    <3> QED
      BY <2>3, <3>1 DEF UpdateOperator, HarnessInv, HarnessType, FailClosed, HeldInv
  <2>4. CASE HNext
    BY <2>2, <2>3, <2>4, CallGoesOn, CallBegins, ConfirmSteps, StoreSteps, StatusSteps,
       RemovalSteps DEF HNext
  <2> QED
    BY <2>1, <2>4
<1>3. HarnessInv => EffectsAreEntitled
  BY DEF HarnessInv, HeldInv, EffectsAreEntitled, HeldOnce
<1> QED
  BY <1>1, <1>2, <1>3, PTL DEF HarnessSpec

(***************************************************************************)
(* Joining by invite.  A request is worked on once at a time, and once it  *)
(* was accepted its key stays known until nothing brings the request again.*)
(***************************************************************************)
WorkType == [msg : Joiners \X Forms, by : {"stream", "scan"}, pc : {"check", "add", "effects"}]

ScanType == [pc : {"idle", "scan", "process"}, count : Nat, again : BOOLEAN]

InviteType ==
  /\ jpc \in [Joiners -> {"idle", "client", "structured", "text", "poll", "ok", "failed"}]
  /\ work \subseteq WorkType /\ scans \in [Joiners -> ScanType] /\ timers \in [Joiners -> Nat]
  /\ accepted \in [Joiners -> Nat]

\* Nothing brings the request of j again.
Spent(j) ==
  /\ j \in dmJoined /\ jpc[j] \in {"poll", "ok", "failed"}
  /\ \A m \in inDm : m[1] = j => m \in streamed
  /\ scans[j].pc = "idle" /\ timers[j] = 0

WorkInv ==
  /\ \A v, w \in work : v.msg[1] = w.msg[1] => v = w
  /\ \A w \in work :
       /\ w.msg[1] \in flyKeys
       /\ w.by = "scan" => scans[w.msg[1]].pc = "process"
       /\ w.pc \in {"check", "add"} => accepted[w.msg[1]] = 0

AcceptInv ==
  \A j \in Joiners : accepted[j] = 0 \/ (accepted[j] = 1 /\ (j \in seenKeys \/ Spent(j)))

JoinInv ==
  \A j \in Joiners :
    /\ jpc[j] = "ok" => j \in members
    /\ jpc[j] \in {"idle", "failed"} <=> j \notin idents

InviteInv == InviteType /\ WorkInv /\ AcceptInv /\ JoinInv

\* No scan under way.
LEMMA NoScanIsTyped == NoScan \in ScanType /\ NoScan.pc = "idle"
BY DEF NoScan, ScanType

\* A step that leaves the listener's work alone and lets no request come back.
LEMMA JoinerSteps ==
    ASSUME InviteInv, InviteType',
           UNCHANGED <<work, flyKeys, scans, accepted, seenKeys, members, timers>>,
           dmJoined \subseteq dmJoined', streamed \subseteq streamed',
           \A j \in Joiners : Spent(j) =>
              jpc'[j] \in {"poll", "ok", "failed"} /\ \A m \in inDm' : m[1] = j => m \in inDm,
           \A j \in Joiners :
              /\ jpc'[j] = "ok" => j \in members
              /\ jpc'[j] \in {"idle", "failed"} <=> j \notin idents'
    PROVE  InviteInv'
<1>1. WorkInv'
  BY DEF InviteInv, WorkInv
<1>2. AcceptInv'
  <2>1. \A j \in Joiners : Spent(j) => Spent(j)'
    BY DEF Spent
  <2> QED
    BY <2>1 DEF InviteInv, AcceptInv
<1>3. JoinInv'
  BY DEF JoinInv
<1> QED
  BY <1>1, <1>2, <1>3 DEF InviteInv

\* The joiner's steps, the invites and the answer of the creator.
LEMMA JoinSteps ==
    ASSUME InviteInv,
           \/ GenerateInvite
           \/ \E j \in Joiners :
                \/ JoinClient(j) \/ JoinSends(j) \/ JoinPolls(j) \/ CreatorReplies(j)
                \/ \E t \in 1 .. newest : JoinBegins(j, t)
    PROVE  InviteInv'
<1>0. UNCHANGED <<work, flyKeys, scans, accepted, seenKeys, members, timers, dmJoined, streamed>>
  BY DEF GenerateInvite, JoinClient, JoinSends, JoinPolls, CreatorReplies, JoinBegins,
         listenVars, restVars
<1>1. CASE UNCHANGED <<jpc, idents, inDm>>
  <2>1. InviteType'
    BY <1>0, <1>1 DEF InviteInv, InviteType
  <2> QED
    BY <1>0, <1>1, <2>1, JoinerSteps DEF InviteInv, JoinInv, Spent
<1>2. ASSUME NEW j \in Joiners,
             NEW l \in {"client", "structured", "text", "poll", "ok", "failed"},
             JoinGoes(j, l),
             jpc[j] \in {"idle", "client", "structured", "text"} \/ UNCHANGED inDm,
             jpc[j] = "poll" => l \in {"poll", "ok", "failed"}, jpc[j] \notin {"ok", "failed"},
             \A m \in inDm' : m \in inDm \/ m[1] = j,
             l = "ok" => j \in members,
             IF l = "failed" THEN idents' = idents \ {j}
             ELSE idents' = idents \cup {j}
      PROVE  InviteInv'
  <2>1. /\ jpc' \in [Joiners -> {"idle", "client", "structured", "text", "poll", "ok", "failed"}]
        /\ jpc'[j] = l /\ \A i \in Joiners : i # j => jpc'[i] = jpc[i]
    BY <1>2 DEF JoinGoes, InviteInv, InviteType
  <2>2. InviteType'
    BY <1>0, <2>1 DEF InviteInv, InviteType
  <2>3. \A i \in Joiners : Spent(i) =>
              jpc'[i] \in {"poll", "ok", "failed"} /\ \A m \in inDm' : m[1] = i => m \in inDm
    BY <1>2, <2>1 DEF Spent
  <2>4. \A i \in Joiners : /\ jpc'[i] = "ok" => i \in members
                           /\ jpc'[i] \in {"idle", "failed"} <=> i \notin idents'
    BY <1>2, <2>1 DEF InviteInv, JoinInv
  <2> QED
    BY <1>0, <2>2, <2>3, <2>4, JoinerSteps
<1>3. ASSUME NEW j \in Joiners, NEW t, JoinBegins(j, t)
      PROVE  InviteInv'
  <2>1. jpc[j] = "idle" /\ j \notin idents /\ UNCHANGED inDm
    BY <1>3 DEF JoinBegins, InviteInv, JoinInv
  <2>2. CASE JoinGoes(j, "client") /\ idents' = idents \cup {j}
    BY <1>2, <2>1, <2>2
  <2>3. CASE JoinGoes(j, "failed") /\ UNCHANGED idents
    BY <1>2, <2>1, <2>3
  <2> QED
    BY <1>3, <2>2, <2>3 DEF JoinBegins
<1>4. ASSUME NEW j \in Joiners, jpc[j] \in {"client", "structured", "text", "poll"},
             JoinFails(j), UNCHANGED inDm
      PROVE  InviteInv'
  BY <1>2, <1>4 DEF JoinFails
<1>5. \A j \in Joiners : jpc[j] \in {"client", "structured", "text", "poll"} => j \in idents
  BY DEF InviteInv, JoinInv
<1>6. ASSUME NEW j \in Joiners, JoinClient(j)
      PROVE  InviteInv'
  <2>1. jpc[j] = "client" /\ UNCHANGED inDm
    BY <1>6 DEF JoinClient
  <2>2. CASE JoinGoes(j, "structured") /\ UNCHANGED idents
    BY <1>2, <1>5, <2>1, <2>2
  <2> QED
    BY <1>4, <1>6, <2>1, <2>2 DEF JoinClient
<1>7. ASSUME NEW j \in Joiners, JoinSends(j)
      PROVE  InviteInv'
  <2>1. CASE jpc[j] = "structured" /\ JoinFails(j) /\ UNCHANGED inDm
    BY <1>4, <2>1
  <2>2. CASE /\ jpc[j] = "structured" /\ inDm' = inDm \cup {<<j, "structured">>}
             /\ JoinGoes(j, "text") /\ UNCHANGED idents
    BY <1>2, <1>5, <2>2
  <2>3. CASE /\ jpc[j] = "text"
             /\ inDm' = inDm \cup {<<j, "text">>} \/ UNCHANGED inDm
             /\ JoinGoes(j, "poll") /\ UNCHANGED idents
    BY <1>2, <1>5, <2>3
  <2> QED
    BY <1>7, <2>1, <2>2, <2>3 DEF JoinSends
<1>8. ASSUME NEW j \in Joiners, JoinPolls(j)
      PROVE  InviteInv'
  <2>1. jpc[j] = "poll" /\ UNCHANGED inDm
    BY <1>8 DEF JoinPolls
  <2>2. CASE j \in members /\ JoinGoes(j, "ok") /\ UNCHANGED idents
    BY <1>2, <1>5, <2>1, <2>2
  <2>3. CASE JoinFails(j)
    BY <1>4, <2>1, <2>3
  <2>4. CASE UNCHANGED <<jpc, idents>>
    BY <1>1, <2>1, <2>4
  <2> QED
    BY <1>8, <2>2, <2>3, <2>4 DEF JoinPolls
<1>9. CASE GenerateInvite
  BY <1>1, <1>9 DEF GenerateInvite, joinVars
<1>10. CASE \E j \in Joiners : CreatorReplies(j)
  BY <1>1, <1>10 DEF CreatorReplies
<1> QED
  BY <1>3, <1>6, <1>7, <1>8, <1>9, <1>10

\* A candidate that is not known yet is taken up.
LEMMA CandidateBegins ==
    ASSUME InviteInv, NEW m \in Joiners \X Forms, NEW by \in {"stream", "scan"},
           ~AlreadyHandled(m), Begin(m, by), ~Spent(m[1]),
           scans' \in [Joiners -> ScanType], timers' = timers,
           \A j \in Joiners : j # m[1] => scans'[j] = scans[j],
           IF by = "scan" THEN scans'[m[1]].pc = "process" ELSE scans' = scans,
           UNCHANGED <<accepted, seenKeys, members, jpc, idents, inDm, dmJoined>>,
           streamed \subseteq streamed'
    PROVE  InviteInv'
<1>1. PICK k : k = [msg |-> m, by |-> by, pc |-> "check"]
  OBVIOUS
<1>2. k \in WorkType /\ k.msg = m /\ k.by = by /\ k.pc = "check" /\ work' = work \cup {k}
      /\ flyKeys' = flyKeys \cup {m[1]} /\ m[1] \in Joiners
  BY <1>1 DEF WorkType, Begin
<1>3. m[1] \notin flyKeys /\ m[1] \notin seenKeys
  BY DEF AlreadyHandled
<1>4. \A w \in work : w.msg[1] # m[1] /\ w.msg[1] \in Joiners
  BY <1>3 DEF InviteInv, WorkInv, InviteType, WorkType
<1>5. accepted[m[1]] = 0
  BY <1>2, <1>3 DEF InviteInv, AcceptInv
<1>6. InviteType'
  BY <1>2 DEF InviteInv, InviteType
<1>7. WorkInv'
  <2>1. \A v, w \in work' : v.msg[1] = w.msg[1] => v = w
    BY <1>2, <1>4 DEF InviteInv, WorkInv
  <2>2. ASSUME NEW w \in work'
        PROVE  /\ w.msg[1] \in flyKeys'
               /\ w.by = "scan" => scans'[w.msg[1]].pc = "process"
               /\ w.pc \in {"check", "add"} => accepted'[w.msg[1]] = 0
    BY <1>2, <1>4, <1>5 DEF InviteInv, WorkInv
  <2> QED
    BY <2>1, <2>2 DEF WorkInv
<1>8. AcceptInv'
  <2> SUFFICES ASSUME NEW j \in Joiners
               PROVE  accepted[j] = 0 \/ (accepted[j] = 1 /\ (j \in seenKeys \/ Spent(j)'))
    BY DEF AcceptInv
  <2>1. CASE j = m[1]
    BY <1>5, <2>1
  <2>2. CASE j # m[1]
    <3>1. Spent(j) => Spent(j)'
      BY <2>2 DEF Spent
    <3> QED
      BY <3>1 DEF InviteInv, AcceptInv
  <2> QED
    BY <2>1, <2>2
<1>9. JoinInv'
  BY DEF InviteInv, JoinInv
<1> QED
  BY <1>6, <1>7, <1>8, <1>9 DEF InviteInv

\* The end of a scan: its timer, if any, counts what was made.
LEMMA ScanIsOver ==
    ASSUME InviteInv, NEW j \in Joiners, NEW again \in BOOLEAN, ScanEnds(j, again)
    PROVE  /\ scans' \in [Joiners -> ScanType] /\ timers' \in [Joiners -> Nat]
           /\ scans'[j].pc = "idle"
           /\ \A i \in Joiners : i # j => scans'[i] = scans[i] /\ timers'[i] = timers[i]
<1>1. scans[j].count + 1 \in Nat
  BY DEF InviteInv, InviteType, ScanType
<1> QED
  BY <1>1, NoScanIsTyped DEF ScanEnds, InviteInv, InviteType

\* The message stream.
LEMMA StreamSteps ==
    ASSUME InviteInv, NEW j \in Joiners, NEW f \in Forms, Streamed(<<j, f>>)
    PROVE  InviteInv'
<1>1. PICK m \in Joiners \X Forms : m = <<j, f>> /\ m[1] = j
  OBVIOUS
<1>2. /\ m \in inDm \ streamed /\ streamed' = streamed \cup {m}
      /\ UNCHANGED <<jpc, idents, inDm, dmJoined, members, seenKeys, scans, timers, accepted>>
      /\ IF AlreadyHandled(m) THEN UNCHANGED <<flyIds, flyKeys, work>> ELSE Begin(m, "stream")
  BY <1>1 DEF Streamed, joinVars
<1>3. CASE AlreadyHandled(m)
  <2>1. InviteType'
    BY <1>2, <1>3 DEF InviteInv, InviteType
  <2> QED
    BY <1>2, <1>3, <2>1, JoinerSteps DEF InviteInv, JoinInv, Spent
<1>4. CASE ~AlreadyHandled(m)
  <2>1. ~Spent(m[1])
    BY <1>2 DEF Spent
  <2>2. scans' \in [Joiners -> ScanType]
    BY <1>2 DEF InviteInv, InviteType
  <2> QED
    BY <1>2, <1>4, <2>1, <2>2, CandidateBegins
<1> QED
  BY <1>3, <1>4

\* A scan of j begins, or ends without a candidate.
LEMMA ScanSteps ==
    ASSUME InviteInv, NEW j \in Joiners,
           scans' \in [Joiners -> ScanType], timers' \in [Joiners -> Nat],
           \A i \in Joiners : i # j => scans'[i] = scans[i] /\ timers'[i] = timers[i],
           scans[j].pc # "process", ~Spent(j) \/ accepted[j] = 0,
           UNCHANGED <<work, flyKeys, accepted, seenKeys, members, jpc, idents, inDm, streamed>>,
           dmJoined \subseteq dmJoined'
    PROVE  InviteInv'
<1>1. InviteType'
  BY DEF InviteInv, InviteType
<1>2. WorkInv'
  <2>1. \A w \in work : w.msg[1] \in Joiners
    BY DEF InviteInv, InviteType, WorkType
  <2> QED
    BY <2>1 DEF InviteInv, WorkInv
<1>3. AcceptInv'
  <2> SUFFICES ASSUME NEW i \in Joiners
               PROVE  accepted[i] = 0 \/ (accepted[i] = 1 /\ (i \in seenKeys \/ Spent(i)'))
    BY DEF AcceptInv
  <2>1. i # j => (Spent(i) => Spent(i)')
    BY DEF Spent
  <2> QED
    BY <2>1 DEF InviteInv, AcceptInv
<1>4. JoinInv'
  BY DEF InviteInv, JoinInv
<1> QED
  BY <1>1, <1>2, <1>3, <1>4 DEF InviteInv

\* The scan of a DM from its start to its candidate.
LEMMA RecoverySteps ==
    ASSUME InviteInv, NEW j \in Joiners, ScanBegins(j) \/ Scanned(j)
    PROVE  InviteInv'
<1>1. CASE ScanBegins(j)
  <2>1. /\ scans[j].pc = "idle" /\ dmJoined \subseteq dmJoined'
        /\ UNCHANGED <<work, flyKeys, accepted, seenKeys, members, jpc, idents, inDm, streamed>>
        /\ j \notin dmJoined \/ timers[j] > 0
    BY <1>1 DEF ScanBegins, joinVars
  <2>2. ~Spent(j)
    BY <2>1 DEF Spent
  <2>3. PICK n \in Nat : scans' = [scans EXCEPT ![j] = [pc |-> "scan", count |-> n, again |-> FALSE]]
    BY <1>1 DEF ScanBegins, InviteInv, InviteType
  <2>4. [pc |-> "scan", count |-> n, again |-> FALSE] \in ScanType
    BY DEF ScanType
  <2>5. scans' \in [Joiners -> ScanType] /\ timers' \in [Joiners -> Nat]
        /\ \A i \in Joiners : i # j => scans'[i] = scans[i] /\ timers'[i] = timers[i]
    BY <1>1, <2>3, <2>4 DEF ScanBegins, InviteInv, InviteType
  <2> QED
    BY <2>1, <2>2, <2>5, ScanSteps
<1>2. CASE Scanned(j)
  <2>1. /\ scans[j].pc = "scan"
        /\ UNCHANGED <<accepted, seenKeys, members, jpc, idents, inDm, streamed, dmJoined>>
    BY <1>2 DEF Scanned, joinVars, restVars
  <2>2. ~Spent(j)
    BY <2>1 DEF Spent
  <2>3. ASSUME NEW again \in BOOLEAN, ScanEnds(j, again), UNCHANGED <<flyKeys, work>>
        PROVE  InviteInv'
    BY <2>1, <2>2, <2>3, ScanIsOver, ScanSteps
  <2>4. ASSUME NEW m \in Joiners \X Forms, m[1] = j, ~AlreadyHandled(m), Begin(m, "scan"),
               scans' = [scans EXCEPT ![j].pc = "process"], UNCHANGED timers
        PROVE  InviteInv'
    <3>1. scans[j] \in ScanType /\ scans \in [Joiners -> ScanType]
      BY DEF InviteInv, InviteType
    <3>2. PICK r : r = [scans[j] EXCEPT !.pc = "process"]
      OBVIOUS
    <3>3. r \in ScanType /\ r.pc = "process"
      BY <3>1, <3>2 DEF ScanType
    <3>4. scans' = [scans EXCEPT ![j] = r]
      BY <2>4, <3>1, <3>2
    <3>5. /\ scans' \in [Joiners -> ScanType] /\ scans'[j].pc = "process"
          /\ \A i \in Joiners : i # j => scans'[i] = scans[i]
      BY <3>1, <3>3, <3>4
    <3> QED
      BY <2>1, <2>2, <2>4, <3>5, CandidateBegins
  <2>5. <<j, "structured">> \in Joiners \X Forms /\ <<j, "text">> \in Joiners \X Forms
    BY DEF Forms
  <2>6. \/ \E again \in BOOLEAN : ScanEnds(j, again) /\ UNCHANGED <<flyKeys, work>>
        \/ \E m \in {<<j, "structured">>, <<j, "text">>} :
             /\ ~AlreadyHandled(m) /\ Begin(m, "scan")
             /\ scans' = [scans EXCEPT ![j].pc = "process"] /\ UNCHANGED timers
    BY <1>2 DEF Scanned
  <2>7. ASSUME NEW m \in {<<j, "structured">>, <<j, "text">>},
               ~AlreadyHandled(m), Begin(m, "scan"),
               scans' = [scans EXCEPT ![j].pc = "process"], UNCHANGED timers
        PROVE  InviteInv'
    <3>1. m \in Joiners \X Forms /\ m[1] = j
      BY <2>5
    <3> QED
      BY <2>4, <2>7, <3>1
  <2> QED
    BY <2>3, <2>6, <2>7
<1> QED
  BY <1>1, <1>2

\* A candidate that is done with.
LEMMA CandidateEnds ==
    ASSUME InviteInv, NEW w \in work, NEW again \in BOOLEAN, Finish(w, again),
           UNCHANGED <<accepted, seenKeys, members, jpc, idents, inDm, streamed, dmJoined>>
    PROVE  InviteInv'
<1>1. PICK j \in Joiners : j = w.msg[1]
  BY DEF InviteInv, InviteType, WorkType
<1>2. /\ work' = work \ {w} /\ flyKeys' = flyKeys \ {j}
      /\ IF w.by = "scan" THEN ScanEnds(j, again) ELSE UNCHANGED <<scans, timers>>
  BY <1>1 DEF Finish
<1>3. /\ scans' \in [Joiners -> ScanType] /\ timers' \in [Joiners -> Nat]
      /\ \A i \in Joiners : i # j => scans'[i] = scans[i] /\ timers'[i] = timers[i]
  BY <1>2, ScanIsOver DEF InviteInv, InviteType
<1>4. \A v \in work' : v \in work /\ v.msg[1] # j /\ v.msg[1] \in Joiners
  BY <1>1, <1>2 DEF InviteInv, WorkInv, InviteType, WorkType
<1>5. InviteType'
  BY <1>2, <1>3 DEF InviteInv, InviteType
<1>6. WorkInv'
  BY <1>2, <1>3, <1>4 DEF InviteInv, WorkInv
<1>7. AcceptInv'
  <2> SUFFICES ASSUME NEW i \in Joiners
               PROVE  accepted[i] = 0 \/ (accepted[i] = 1 /\ (i \in seenKeys \/ Spent(i)'))
    BY DEF AcceptInv
  <2>1. CASE i # j \/ w.by # "scan"
    <3>1. Spent(i) => Spent(i)'
      BY <1>2, <1>3, <2>1 DEF Spent
    <3> QED
      BY <3>1 DEF InviteInv, AcceptInv
  <2>2. CASE i = j /\ w.by = "scan"
    <3>1. ~Spent(j)
      BY <1>1, <2>2 DEF InviteInv, WorkInv, Spent
    <3> QED
      BY <2>2, <3>1 DEF InviteInv, AcceptInv
  <2> QED
    BY <2>1, <2>2
<1>8. JoinInv'
  BY DEF InviteInv, JoinInv
<1> QED
  BY <1>5, <1>6, <1>7, <1>8 DEF InviteInv

\* A candidate goes from one await to the next.
LEMMA CandidateGoesOn ==
    ASSUME InviteInv, NEW w \in work, NEW l \in {"add", "effects"}, Advance(w, l),
           UNCHANGED <<flyKeys, scans, timers, jpc, idents, inDm, streamed, dmJoined>>,
           members \subseteq members', seenKeys \subseteq seenKeys',
           accepted' \in [Joiners -> Nat],
           \A i \in Joiners : i # w.msg[1] => accepted'[i] = accepted[i],
           IF l = "add" THEN accepted'[w.msg[1]] = 0
           ELSE accepted'[w.msg[1]] = 1 /\ w.msg[1] \in seenKeys'
    PROVE  InviteInv'
<1>1. PICK k : k = [w EXCEPT !.pc = l]
  OBVIOUS
<1>2. w \in WorkType
  BY DEF InviteInv, InviteType
<1>3. k \in WorkType /\ k.msg = w.msg /\ k.by = w.by /\ k.pc = l /\ w.msg[1] \in Joiners
  BY <1>1, <1>2 DEF WorkType
<1>4. work' = (work \ {w}) \cup {k}
  BY <1>1 DEF Advance
<1>5. \A v \in work : v # w => v.msg[1] # w.msg[1] /\ v.msg[1] \in Joiners
  BY DEF InviteInv, WorkInv, InviteType, WorkType
<1>6. InviteType'
  BY <1>3, <1>4 DEF InviteInv, InviteType
<1>7. WorkInv'
  <2>1. \A u, v \in work' : u.msg[1] = v.msg[1] => u = v
    BY <1>3, <1>4, <1>5 DEF InviteInv, WorkInv
  <2>2. ASSUME NEW v \in work'
        PROVE  /\ v.msg[1] \in flyKeys'
               /\ v.by = "scan" => scans'[v.msg[1]].pc = "process"
               /\ v.pc \in {"check", "add"} => accepted'[v.msg[1]] = 0
    <3>1. CASE v = k
      BY <1>3, <3>1 DEF InviteInv, WorkInv
    <3>2. CASE v # k
      BY <1>4, <1>5, <3>2 DEF InviteInv, WorkInv
    <3> QED
      BY <3>1, <3>2
  <2> QED
    BY <2>1, <2>2 DEF WorkInv
<1>8. AcceptInv'
  <2>1. \A i \in Joiners : Spent(i) => Spent(i)'
    BY DEF Spent
  <2> QED
    BY <2>1 DEF InviteInv, AcceptInv
<1>9. JoinInv'
  BY DEF InviteInv, JoinInv
<1> QED
  BY <1>6, <1>7, <1>8, <1>9 DEF InviteInv

\* The request is checked, the joiner added, the acceptance reported.
LEMMA HostSteps ==
    ASSUME InviteInv, NEW w \in work, CheckRequest(w) \/ AddMember(w) \/ Effects(w)
    PROVE  InviteInv'
<1>0. w \in WorkType /\ w.msg[1] \in Joiners /\ accepted \in [Joiners -> Nat]
  BY DEF InviteInv, InviteType, WorkType
<1>1. CASE CheckRequest(w)
  <2>1. UNCHANGED <<accepted, seenKeys, members, jpc, idents, inDm, streamed, dmJoined>>
        /\ w.pc = "check"
    BY <1>1 DEF CheckRequest, joinVars, restVars
  <2>2. CASE \E again \in BOOLEAN : Finish(w, again)
    BY <2>1, <2>2, CandidateEnds
  <2>3. CASE Advance(w, "add") /\ UNCHANGED <<flyKeys, scans, timers>>
    <3>1. accepted[w.msg[1]] = 0
      BY <2>1 DEF InviteInv, WorkInv
    <3> QED
      BY <1>0, <2>1, <2>3, <3>1, CandidateGoesOn
  <2> QED
    BY <1>1, <2>2, <2>3 DEF CheckRequest
<1>2. CASE AddMember(w)
  <2>1. UNCHANGED <<jpc, idents, inDm, streamed, dmJoined>> /\ w.pc = "add"
    BY <1>2 DEF AddMember, joinVars
  <2>2. CASE Finish(w, TRUE) /\ UNCHANGED <<members, seenKeys, accepted>>
    BY <2>1, <2>2, CandidateEnds
  <2>3. CASE ~(Finish(w, TRUE) /\ UNCHANGED <<members, seenKeys, accepted>>)
    <3>1. accepted[w.msg[1]] = 0
      BY <2>1 DEF InviteInv, WorkInv
    <3>2. PICK j \in Joiners : j = w.msg[1]
      BY <1>0
    <3>3. /\ members' = members \cup {j} /\ seenKeys' = seenKeys \cup {j}
          /\ accepted' = [accepted EXCEPT ![j] = accepted[j] + 1]
          /\ Advance(w, "effects") /\ UNCHANGED <<flyKeys, scans, timers>>
      BY <1>2, <2>3, <3>2 DEF AddMember
    <3>4. /\ accepted' \in [Joiners -> Nat] /\ accepted'[j] = 1
          /\ \A i \in Joiners : i # j => accepted'[i] = accepted[i]
      BY <1>0, <3>1, <3>2, <3>3
    <3> QED
      BY <2>1, <3>2, <3>3, <3>4, CandidateGoesOn
  <2> QED
    BY <2>2, <2>3
<1>3. CASE Effects(w)
  BY <1>3, CandidateEnds DEF Effects, joinVars, restVars
<1> QED
  BY <1>1, <1>2, <1>3

\* The key of a request expires when nothing brings the request again.
LEMMA ExpirySteps ==
    ASSUME InviteInv, NEW j \in Joiners, KeyExpires(j)
    PROVE  InviteInv'
<1>1. /\ seenKeys' = seenKeys \ {j}
      /\ UNCHANGED <<work, flyKeys, scans, timers, accepted, members, jpc, idents, inDm,
                     streamed, dmJoined>>
  BY DEF KeyExpires, joinVars, restVars
<1>2. Spent(j)
  BY DEF KeyExpires, Spent
<1>3. \A i \in Joiners : Spent(i) => Spent(i)'
  BY <1>1 DEF Spent
<1>4. AcceptInv'
  BY <1>1, <1>2, <1>3 DEF InviteInv, AcceptInv
<1> QED
  BY <1>1, <1>4 DEF InviteInv, InviteType, WorkInv, JoinInv

\* A restart of the host forgets the requests, and what it accepted.
LEMMA HostRestartSteps ==
    ASSUME InviteInv, HostRestarts
    PROVE  InviteInv'
<1>1. /\ work' = {} /\ scans' = [j \in Joiners |-> NoScan] /\ timers' = [j \in Joiners |-> 0]
      /\ accepted' = [j \in Joiners |-> 0] /\ UNCHANGED <<members, jpc, idents>>
  BY DEF HostRestarts, joinVars
<1>2. InviteType' /\ AcceptInv'
  BY <1>1, NoScanIsTyped DEF InviteInv, InviteType, AcceptInv
<1>3. WorkInv'
  BY <1>1 DEF WorkInv
<1>4. JoinInv'
  BY <1>1 DEF InviteInv, JoinInv
<1> QED
  BY <1>2, <1>3, <1>4 DEF InviteInv

\* The invariant of the invites.
LEMMA InvitesKeepInv == InviteSpec => []InviteInv
<1>1. IInit => InviteInv
  <2> SUFFICES ASSUME IInit
               PROVE  InviteInv
    OBVIOUS
  <2>1. InviteType
    BY NoScanIsTyped DEF IInit, InviteType
  <2>2. WorkInv /\ AcceptInv /\ JoinInv
    BY DEF IInit, WorkInv, AcceptInv, JoinInv
  <2> QED
    BY <2>1, <2>2 DEF InviteInv
<1>2. InviteInv /\ [INext]_ivars => InviteInv'
  <2> SUFFICES ASSUME InviteInv, [INext]_ivars
               PROVE  InviteInv'
    OBVIOUS
  <2>1. CASE UNCHANGED ivars
    <3>1. \A j \in Joiners : Spent(j) => Spent(j)'
      BY <2>1 DEF ivars, Spent
    <3>2. AcceptInv'
      BY <2>1, <3>1 DEF ivars, InviteInv, AcceptInv
    <3> QED
      BY <2>1, <3>2 DEF ivars, InviteInv, InviteType, WorkInv, JoinInv
  <2>2. CASE INext
    BY <2>2, JoinSteps, StreamSteps, RecoverySteps, HostSteps, ExpirySteps,
       HostRestartSteps DEF INext
  <2> QED
    BY <2>1, <2>2
<1> QED
  BY <1>1, <1>2, PTL DEF InviteSpec

\* A running host accepts a request once, whichever of its messages, scans and
\* retries bring it, and although the key it remembers expires.
THEOREM AlwaysAcceptedOnce == InviteSpec => []AcceptedOnce
<1>1. InviteInv => AcceptedOnce
  BY DEF InviteInv, AcceptInv, AcceptedOnce
<1> QED
  BY <1>1, InvitesKeepInv, PTL

\* A join that reports success left a member with an identity record; one that
\* failed, at any step, left no record.
THEOREM JoinsAlwaysTellTheTruth == InviteSpec => []JoinOutcome
<1>1. InviteInv => JoinOutcome
  BY DEF InviteInv, JoinInv, JoinOutcome
<1> QED
  BY <1>1, InvitesKeepInv, PTL

(***************************************************************************)
(* The inbox actions, one after the other.  What an action has found out   *)
(* about the links is still so when it writes, because nothing but the     *)
(* records of joined chats changes under it.                               *)
(***************************************************************************)
ActType ==
  [op : {"none", "link", "unlink", "rm"},
   pc : {"idle", "resolve", "check", "read", "write", "cleanup", "owner", "forget"},
   inbox : Inboxes \cup {"none"}, oper : Operators \cup {"none"}, read : SUBSET Inboxes]

\* An action under way, with the records R, the links L and the operators G gone.
ActOK(a, R, L, G) ==
  \/ a = NoAct
  \/ /\ a.inbox \in Inboxes
     /\ \/ a.pc \in {"resolve", "check"} /\ a.op = "link" /\ a.inbox \in R /\ a.oper \in Operators
           /\ (a.pc = "check" => a.oper \notin G)
        \/ a.pc = "cleanup" /\ a.op = "rm"
        \/ a.pc = "owner" /\ a.op \in {"unlink", "rm"}
        \/ /\ a.pc \in {"read", "write"} /\ a.oper \in Operators \ G
           /\ a.pc = "write" => a.read = L[a.oper]
           /\ \A o \in Operators \ G : a.inbox \in L[o] => o = a.oper
           /\ \/ a.op = "link" /\ a.inbox \in R
              \/ a.op \in {"unlink", "rm"}
        \/ a.pc = "forget" /\ a.op = "rm" /\ \A o \in Operators \ G : a.inbox \notin L[o]

OneOwner(L, G) ==
  \A i \in Inboxes : \A o, p \in Operators \ G : i \in L[o] /\ i \in L[p] => o = p

AllRecorded(R, L, G, D) == \A o \in Operators \ G : L[o] \subseteq R \cup D

InboxInv ==
  /\ linked \in [Operators -> SUBSET Inboxes] /\ acts \in [ITasks -> ActType]
  /\ \A t, u \in ITasks : acts[t] # NoAct /\ acts[u] # NoAct => t = u
  /\ \A t \in ITasks : ActOK(acts[t], recs, linked, gone)
  /\ OneOwner(linked, gone) /\ AllRecorded(recs, linked, gone, dropped)

\* No action.
LEMMA NoActIsTyped == NoAct \in ActType /\ NoAct.pc = "idle"
BY DEF NoAct, ActType

\* The map of the links does not fail.
LEMMA LinkMapHolds ==
    ASSUME OneOwner(linked, gone)
    PROVE  ~LinkMapFails
<1> SUFFICES ASSUME NEW i \in Inboxes
             PROVE  ~(Cardinality(Owners(i)) > 1)
  BY DEF LinkMapFails
<1>1. CASE Owners(i) = {}
  <2>1. Cardinality(Owners(i)) = 0
    BY <1>1, FS_EmptySet
  <2> QED
    BY <2>1
<1>2. CASE Owners(i) # {}
  <2>1. PICK o : o \in Owners(i)
    BY <1>2
  <2>2. Owners(i) = {o}
    BY <2>1 DEF OneOwner, Owners
  <2>3. Cardinality(Owners(i)) = 1
    BY <2>2, FS_Singleton
  <2> QED
    BY <2>3
<1> QED
  BY <1>1, <1>2

\* A step of the one action under way.
LEMMA OneActionSteps ==
    ASSUME InboxInv, NEW t \in ITasks, \A u \in ITasks : u # t => acts[u] = NoAct,
           NEW k \in ActType, acts' = [acts EXCEPT ![t] = k],
           ActOK(k, recs', linked', gone'),
           linked' \in [Operators -> SUBSET Inboxes],
           OneOwner(linked', gone'), AllRecorded(recs', linked', gone', dropped')
    PROVE  InboxInv'
<1>1. acts'[t] = k /\ (\A u \in ITasks : u # t => acts'[u] = NoAct)
      /\ acts' \in [ITasks -> ActType]
  BY DEF InboxInv
<1>2. \A u \in ITasks : ActOK(acts'[u], recs', linked', gone')
  BY <1>1 DEF ActOK
<1> QED
  BY <1>1, <1>2 DEF InboxInv

\* The actions that begin, when none is under way.
LEMMA ActionBegins ==
    ASSUME InboxInv, ~Overlapping, NEW t \in ITasks, NEW i \in Inboxes, NEW o \in Operators,
           \/ \E link \in BOOLEAN : CreateInbox(t, i, link, o)
           \/ LinkInbox(t, i, o) \/ UnlinkInbox(t, i) \/ RemoveInbox(t, i)
    PROVE  InboxInv'
<1>0. /\ \A u \in ITasks : acts[u] = NoAct
      /\ UNCHANGED <<linked, gone, dropped>> /\ recs \subseteq recs'
      /\ linked' \in [Operators -> SUBSET Inboxes] /\ acts \in [ITasks -> ActType]
  BY DEF CreateInbox, LinkInbox, UnlinkInbox, RemoveInbox, InboxAction, Spare, NoneRuns, InboxInv
<1>1. OneOwner(linked', gone') /\ AllRecorded(recs', linked', gone', dropped')
  BY <1>0 DEF InboxInv, OneOwner, AllRecorded
<1>2. ASSUME NEW op \in {"link", "unlink", "rm"}, NEW l \in {"resolve", "owner", "cleanup"},
             NEW p \in Operators \cup {"none"},
             acts' = [acts EXCEPT ![t] = [NoAct EXCEPT !.op = op, !.inbox = i, !.oper = p, !.pc = l]],
             \/ op = "link" /\ l = "resolve" /\ i \in recs' /\ p \in Operators
             \/ op = "unlink" /\ l = "owner"
             \/ op = "rm" /\ l = "cleanup"
      PROVE  InboxInv'
  <2>1. PICK k : k = [NoAct EXCEPT !.op = op, !.inbox = i, !.oper = p, !.pc = l]
    OBVIOUS
  <2>2. k \in ActType /\ k.op = op /\ k.inbox = i /\ k.oper = p /\ k.pc = l
    BY <2>1, NoActIsTyped DEF ActType
  <2>3. acts' = [acts EXCEPT ![t] = k]
    BY <1>2, <2>1
  <2>4. ActOK(k, recs', linked', gone')
    BY <1>2, <2>2 DEF ActOK
  <2> QED
    BY <1>0, <1>1, <2>2, <2>3, <2>4, OneActionSteps
<1>3. ASSUME NEW link \in BOOLEAN, CreateInbox(t, i, link, o)
      PROVE  InboxInv'
  <2>1. CASE link
    <3>1. acts' = [acts EXCEPT ![t] = [NoAct EXCEPT !.op = "link", !.pc = "resolve",
                                       !.inbox = i, !.oper = o]] /\ i \in recs'
      BY <1>3, <2>1 DEF CreateInbox
    <3>2. [NoAct EXCEPT !.op = "link", !.pc = "resolve", !.inbox = i, !.oper = o]
            = [NoAct EXCEPT !.op = "link", !.inbox = i, !.oper = o, !.pc = "resolve"]
      BY DEF NoAct
    <3> QED
      BY <1>2, <3>1, <3>2
  <2>2. CASE ~link
    <3>1. acts' = acts
      BY <1>3, <2>2 DEF CreateInbox
    <3>2. \A u \in ITasks : ActOK(acts'[u], recs', linked', gone')
      BY <1>0, <3>1 DEF ActOK
    <3> QED
      BY <1>0, <1>1, <3>1, <3>2 DEF InboxInv
  <2> QED
    BY <2>1, <2>2
<1>4. CASE LinkInbox(t, i, o)
  <2>1. acts' = [acts EXCEPT ![t] = [NoAct EXCEPT !.op = "link", !.inbox = i, !.oper = o,
                                                  !.pc = "resolve"]] /\ i \in recs'
    BY <1>4 DEF LinkInbox, InboxAction, resolveInbox
  <2> QED
    BY <1>2, <2>1
<1>5. CASE UnlinkInbox(t, i)
  BY <1>2, <1>5 DEF UnlinkInbox, InboxAction
<1>6. CASE RemoveInbox(t, i)
  BY <1>2, <1>6 DEF RemoveInbox, InboxAction
<1> QED
  BY <1>3, <1>4, <1>5, <1>6

\* The action under way ends, or goes on with another label and nothing written.
LEMMA ActionGoesOn ==
    ASSUME InboxInv, NEW t \in ITasks, \A u \in ITasks : u # t => acts[u] = NoAct,
           UNCHANGED <<recs, linked, gone, dropped>>,
           \/ Done(t)
           \/ \E l \in {"check", "read", "owner", "forget"} :
                /\ To(t, l)
                /\ ActOK([acts[t] EXCEPT !.pc = l], recs, linked, gone)
    PROVE  InboxInv'
<1>1. /\ linked' \in [Operators -> SUBSET Inboxes] /\ OneOwner(linked', gone')
      /\ AllRecorded(recs', linked', gone', dropped') /\ acts \in [ITasks -> ActType]
  BY DEF InboxInv, OneOwner, AllRecorded
<1>2. CASE Done(t)
  BY <1>1, <1>2, NoActIsTyped, OneActionSteps DEF Done, ActOK
<1>3. ASSUME NEW l \in {"check", "read", "owner", "forget"}, To(t, l),
             ActOK([acts[t] EXCEPT !.pc = l], recs, linked, gone)
      PROVE  InboxInv'
  <2>1. PICK k : k = [acts[t] EXCEPT !.pc = l]
    OBVIOUS
  <2>2. k \in ActType
    BY <1>1, <2>1 DEF ActType
  <2>3. acts' = [acts EXCEPT ![t] = k]
    BY <1>1, <1>3, <2>1 DEF To
  <2>4. ActOK(k, recs', linked', gone')
    BY <1>3, <2>1
  <2> QED
    BY <1>1, <2>2, <2>3, <2>4, OneActionSteps
<1> QED
  BY <1>2, <1>3

\* The steps of the action under way.
LEMMA ActionSteps ==
    ASSUME InboxInv, NEW t \in ITasks,
           \/ ResolveOperator(t) \/ CheckLink(t) \/ ReadOperator(t) \/ WriteOperator(t)
           \/ CleanupInbox(t) \/ FindOwner(t) \/ ForgetInbox(t)
    PROVE  InboxInv'
<1> PICK a : a = acts[t]
  OBVIOUS
<1>1. /\ a \in ActType /\ a.pc # "idle" /\ a # NoAct /\ acts \in [ITasks -> ActType]
      /\ ActOK(a, recs, linked, gone) /\ linked \in [Operators -> SUBSET Inboxes]
      /\ OneOwner(linked, gone) /\ AllRecorded(recs, linked, gone, dropped)
  <2>1. a \in ActType /\ ActOK(a, recs, linked, gone) /\ a.pc # "idle"
    BY DEF InboxInv, ResolveOperator, CheckLink, ReadOperator, WriteOperator, CleanupInbox,
           FindOwner, ForgetInbox
  <2> QED
    BY <2>1, NoActIsTyped DEF InboxInv
<1>2. \A u \in ITasks : u # t => acts[u] = NoAct
  BY <1>1 DEF InboxInv
<1>3. ~LinkMapFails
  BY <1>1, LinkMapHolds
<1>4. \A l \in {"check", "read", "owner", "forget"} :
        \A k : k = [a EXCEPT !.pc = l] =>
          k.pc = l /\ k.op = a.op /\ k.inbox = a.inbox /\ k.oper = a.oper /\ k.read = a.read
  BY <1>1 DEF ActType
<1>5. CASE ResolveOperator(t)
  <2>1. UNCHANGED <<recs, linked, gone, dropped>> /\ a.pc = "resolve"
        /\ (Done(t) \/ (To(t, "check") /\ a.oper \notin gone))
    BY <1>5 DEF ResolveOperator
  <2>2. ASSUME a.oper \notin gone
        PROVE  ActOK([a EXCEPT !.pc = "check"], recs, linked, gone)
    BY <1>1, <1>4, <2>1, <2>2 DEF ActOK
  <2> QED
    BY <1>2, <2>1, <2>2, ActionGoesOn
<1>6. CASE CheckLink(t)
  <2>1. UNCHANGED <<recs, linked, gone, dropped>> /\ a.pc = "check"
        /\ (Done(t) \/ (To(t, "read") /\ Owners(a.inbox) \ {a.oper} = {}))
    BY <1>6 DEF CheckLink
  <2>2. ASSUME Owners(a.inbox) \ {a.oper} = {}
        PROVE  ActOK([a EXCEPT !.pc = "read"], recs, linked, gone)
    <3>1. \A o \in Operators \ gone : a.inbox \in linked[o] => o = a.oper
      BY <2>2 DEF Owners
    <3>2. a.inbox \in Inboxes /\ a.op = "link" /\ a.inbox \in recs /\ a.oper \in Operators \ gone
      BY <1>1, <2>1 DEF ActOK
    <3> QED
      BY <1>4, <3>1, <3>2 DEF ActOK
  <2> QED
    BY <1>2, <2>1, <2>2, ActionGoesOn
<1>7. CASE ReadOperator(t)
  <2>1. UNCHANGED <<recs, linked, gone, dropped>> /\ a.pc = "read"
        /\ acts' = [acts EXCEPT ![t].pc = "write", ![t].read = linked[a.oper]]
    BY <1>7 DEF ReadOperator
  <2>2. a.oper \in Operators
    BY <1>1, <2>1 DEF ActOK
  <2>3. PICK k : k = [a EXCEPT !.pc = "write", !.read = linked[a.oper]]
    OBVIOUS
  <2>4. k \in ActType /\ k.pc = "write" /\ k.read = linked[a.oper]
        /\ k.op = a.op /\ k.inbox = a.inbox /\ k.oper = a.oper
    BY <1>1, <2>2, <2>3 DEF ActType
  <2>5. acts' = [acts EXCEPT ![t] = k]
    BY <1>1, <2>1, <2>3
  <2>6. ActOK(k, recs', linked', gone')
    BY <1>1, <2>1, <2>4 DEF ActOK
  <2>7. linked' = linked /\ gone' = gone /\ recs' = recs /\ dropped' = dropped
    BY <2>1
  <2> QED
    BY <1>1, <1>2, <2>4, <2>5, <2>6, <2>7, OneActionSteps
<1>8. CASE WriteOperator(t)
  <2>1. /\ UNCHANGED <<recs, gone, dropped>> /\ a.pc = "write"
        /\ linked' = [linked EXCEPT ![a.oper] =
                        IF a.op = "link" THEN a.read \cup {a.inbox} ELSE a.read \ {a.inbox}]
        /\ IF a.op = "rm" THEN To(t, "forget") ELSE Done(t)
    BY <1>8 DEF WriteOperator
  <2>2. /\ a.oper \in Operators \ gone /\ a.inbox \in Inboxes /\ a.read = linked[a.oper]
        /\ \A o \in Operators \ gone : a.inbox \in linked[o] => o = a.oper
        /\ a.op = "link" => a.inbox \in recs
    BY <1>1, <2>1 DEF ActOK
  <2>3. /\ linked' \in [Operators -> SUBSET Inboxes]
        /\ \A o \in Operators : o # a.oper => linked'[o] = linked[o]
        /\ linked'[a.oper] = IF a.op = "link" THEN linked[a.oper] \cup {a.inbox}
                             ELSE linked[a.oper] \ {a.inbox}
    BY <1>1, <2>1, <2>2
  <2>4. OneOwner(linked', gone')
    <3> SUFFICES ASSUME NEW i \in Inboxes, NEW o \in Operators \ gone, NEW p \in Operators \ gone,
                        i \in linked'[o], i \in linked'[p]
                 PROVE  o = p
      BY <2>1 DEF OneOwner
    <3>1. CASE i = a.inbox
      BY <2>2, <2>3, <3>1
    <3>2. CASE i # a.inbox
      <4>1. i \in linked[o] /\ i \in linked[p]
        BY <2>3, <3>2
      <4> QED
        BY <1>1, <4>1 DEF OneOwner
    <3> QED
      BY <3>1, <3>2
  <2>5. AllRecorded(recs', linked', gone', dropped')
    <3> SUFFICES ASSUME NEW o \in Operators \ gone
                 PROVE  linked'[o] \subseteq recs \cup dropped
      BY <2>1 DEF AllRecorded
    <3>1. linked[o] \subseteq recs \cup dropped
      BY <1>1 DEF AllRecorded
    <3> QED
      BY <2>2, <2>3, <3>1
  <2>6. CASE a.op = "rm"
    <3>1. PICK k : k = [a EXCEPT !.pc = "forget"]
      OBVIOUS
    <3>2. k \in ActType /\ k.pc = "forget" /\ k.op = "rm" /\ k.inbox = a.inbox
      BY <1>1, <2>6, <3>1 DEF ActType
    <3>3. acts' = [acts EXCEPT ![t] = k]
      BY <1>1, <2>1, <2>6, <3>1 DEF To
    <3>4. \A o \in Operators \ gone : a.inbox \notin linked'[o]
      BY <2>2, <2>3, <2>6
    <3>5. ActOK(k, recs', linked', gone')
      BY <2>1, <2>2, <3>2, <3>4 DEF ActOK
    <3> QED
      BY <1>2, <2>3, <2>4, <2>5, <3>2, <3>3, <3>5, OneActionSteps
  <2>7. CASE a.op # "rm"
    <3>1. acts' = [acts EXCEPT ![t] = NoAct]
      BY <2>1, <2>7 DEF Done
    <3>2. ActOK(NoAct, recs', linked', gone')
      BY DEF ActOK
    <3> QED
      BY <1>2, <2>3, <2>4, <2>5, <3>1, <3>2, NoActIsTyped, OneActionSteps
  <2> QED
    BY <2>6, <2>7
<1>9. CASE CleanupInbox(t)
  <2>1. UNCHANGED <<recs, linked, gone, dropped>> /\ a.pc = "cleanup"
        /\ (Done(t) \/ To(t, "owner"))
    BY <1>9 DEF CleanupInbox
  <2>2. ActOK([a EXCEPT !.pc = "owner"], recs, linked, gone)
    BY <1>1, <1>4, <2>1 DEF ActOK
  <2> QED
    BY <1>2, <2>1, <2>2, ActionGoesOn
<1>10. CASE FindOwner(t)
  <2>1. /\ UNCHANGED <<recs, linked, gone, dropped>> /\ a.pc = "owner"
        /\ \/ Done(t)
           \/ Owners(a.inbox) = {} /\ a.op = "rm" /\ To(t, "forget")
           \/ \E o \in Owners(a.inbox) : acts' = [acts EXCEPT ![t].pc = "read", ![t].oper = o]
    BY <1>3, <1>10 DEF FindOwner
  <2>2. a.inbox \in Inboxes /\ a.op \in {"unlink", "rm"}
    BY <1>1, <2>1 DEF ActOK
  <2>3. ASSUME Owners(a.inbox) = {}, a.op = "rm"
        PROVE  ActOK([a EXCEPT !.pc = "forget"], recs, linked, gone)
    <3>1. \A o \in Operators \ gone : a.inbox \notin linked[o]
      BY <2>3 DEF Owners
    <3> QED
      BY <1>4, <2>2, <2>3, <3>1 DEF ActOK
  <2>4. ASSUME NEW o \in Owners(a.inbox), acts' = [acts EXCEPT ![t].pc = "read", ![t].oper = o]
        PROVE  InboxInv'
    <3>1. o \in Operators \ gone /\ a.inbox \in linked[o]
      BY <2>4 DEF Owners
    <3>2. PICK k : k = [a EXCEPT !.pc = "read", !.oper = o]
      OBVIOUS
    <3>3. k \in ActType /\ k.pc = "read" /\ k.oper = o /\ k.op = a.op /\ k.inbox = a.inbox
      BY <1>1, <3>1, <3>2 DEF ActType
    <3>4. acts' = [acts EXCEPT ![t] = k]
      BY <1>1, <2>4, <3>2
    <3>5. \A p \in Operators \ gone : a.inbox \in linked[p] => p = o
      BY <1>1, <2>2, <3>1 DEF OneOwner
    <3>6. ActOK(k, recs', linked', gone')
      BY <2>1, <2>2, <3>1, <3>3, <3>5 DEF ActOK
    <3>7. linked' = linked /\ gone' = gone /\ recs' = recs /\ dropped' = dropped
      BY <2>1
    <3> QED
      BY <1>1, <1>2, <3>3, <3>4, <3>6, <3>7, OneActionSteps
  <2> QED
    BY <1>2, <2>1, <2>3, <2>4, ActionGoesOn
<1>11. CASE ForgetInbox(t)
  <2>1. /\ UNCHANGED <<linked, gone, dropped>> /\ a.pc = "forget" /\ Done(t)
        /\ recs' = recs \ {a.inbox} \/ recs' = recs
    BY <1>11 DEF ForgetInbox
  <2>2. \A o \in Operators \ gone : a.inbox \notin linked[o]
    BY <1>1, <2>1 DEF ActOK
  <2>3. AllRecorded(recs', linked', gone', dropped')
    BY <1>1, <2>1, <2>2 DEF AllRecorded
  <2>4. acts' = [acts EXCEPT ![t] = NoAct] /\ ActOK(NoAct, recs', linked', gone')
        /\ linked' = linked /\ gone' = gone
    BY <2>1 DEF Done, ActOK
  <2> QED
    BY <1>1, <1>2, <2>3, <2>4, NoActIsTyped, OneActionSteps
<1> QED
  BY <1>5, <1>6, <1>7, <1>8, <1>9, <1>10, <1>11

\* Every step of inbox actions that do not overlap keeps the links and the records
\* fitted together.
LEMMA InboxesKeepInv ==
    ASSUME InboxInv, ~Overlapping, BxNext
    PROVE  InboxInv'
<1>1. ASSUME NEW o \in Operators, RetireOperator(o)
      PROVE  InboxInv'
  <2>1. /\ gone' = gone \cup {o} /\ recs' = recs /\ linked' = linked /\ dropped' = dropped
        /\ acts' = acts /\ \A t \in ITasks : acts'[t] = NoAct
    BY <1>1 DEF RetireOperator, NoneRuns
  <2>2. \A t \in ITasks : ActOK(acts'[t], recs', linked', gone')
    BY <2>1 DEF ActOK
  <2>3. OneOwner(linked', gone') /\ AllRecorded(recs', linked', gone', dropped')
    BY <2>1 DEF OneOwner, AllRecorded, InboxInv
  <2> QED
    BY <2>1, <2>2, <2>3 DEF InboxInv
<1>2. ASSUME NEW i \in Inboxes, JoinedWithChat(i)
      PROVE  InboxInv'
  <2>1. /\ gone' = gone /\ recs \subseteq recs' /\ linked' = linked /\ dropped' = dropped
        /\ acts' = acts
    BY <1>2 DEF JoinedWithChat
  <2>2. \A t \in ITasks : ActOK(acts[t], recs, linked, gone) => ActOK(acts'[t], recs', linked', gone')
    BY <2>1 DEF ActOK
  <2>3. OneOwner(linked', gone') /\ AllRecorded(recs', linked', gone', dropped')
    BY <2>1 DEF OneOwner, AllRecorded, InboxInv
  <2> QED
    BY <2>1, <2>2, <2>3 DEF InboxInv
<1>3. ASSUME NEW i \in Inboxes, RemovedWithChat(i)
      PROVE  InboxInv'
  <2>1. /\ gone' = gone /\ recs' = recs \ {i} /\ linked' = linked /\ dropped' = dropped \cup {i}
        /\ acts' = acts /\ \A t \in ITasks : acts'[t] = NoAct
    BY <1>3 DEF RemovedWithChat, NoneRuns
  <2>2. \A t \in ITasks : ActOK(acts'[t], recs', linked', gone')
    BY <2>1 DEF ActOK
  <2>3. OneOwner(linked', gone') /\ AllRecorded(recs', linked', gone', dropped')
    BY <2>1 DEF OneOwner, AllRecorded, InboxInv
  <2> QED
    BY <2>1, <2>2, <2>3 DEF InboxInv
<1> QED
  BY <1>1, <1>2, <1>3, ActionBegins, ActionSteps DEF BxNext

\* Inbox actions that run one after the other never leave an inbox with two
\* operators, nor an operator with an inbox that has no record.
THEOREM LinksAreAlwaysSound ==
    ASSUME ~Overlapping
    PROVE  InboxSpec => []LinksAreSound
<1>1. BxInit => InboxInv
  <2> SUFFICES ASSUME BxInit PROVE InboxInv
    OBVIOUS
  <2>1. acts \in [ITasks -> ActType] /\ \A t \in ITasks : acts[t] = NoAct
    BY NoActIsTyped DEF BxInit
  <2>2. linked \in [Operators -> SUBSET Inboxes] /\ \A o \in Operators : linked[o] = {}
    BY DEF BxInit
  <2>3. \A t \in ITasks : ActOK(acts[t], recs, linked, gone)
    BY <2>1 DEF ActOK
  <2>4. OneOwner(linked, gone) /\ AllRecorded(recs, linked, gone, dropped)
    BY <2>2 DEF OneOwner, AllRecorded
  <2> QED
    BY <2>1, <2>2, <2>3, <2>4 DEF InboxInv
<1>2. InboxInv /\ [BxNext]_bxvars => InboxInv'
  <2>1. CASE BxNext
    BY <2>1, InboxesKeepInv
  <2>2. ASSUME InboxInv, UNCHANGED bxvars
        PROVE  InboxInv'
    <3>1. recs' = recs /\ linked' = linked /\ gone' = gone /\ dropped' = dropped /\ acts' = acts
      BY <2>2 DEF bxvars
    <3> QED
      BY <2>2, <3>1 DEF InboxInv
  <2> QED
    BY <2>1, <2>2
<1>3. InboxInv => LinksAreSound
  <2> SUFFICES ASSUME InboxInv PROVE LinksAreSound
    OBVIOUS
  <2>1. OneOperatorPerInbox
    BY LinkMapHolds DEF InboxInv, OneOperatorPerInbox
  <2>2. LinksHaveRecords
    BY DEF InboxInv, LinksHaveRecords, AllRecorded
  <2> QED
    BY <2>1, <2>2 DEF LinksAreSound
<1> QED
  BY <1>1, <1>2, <1>3, PTL DEF InboxSpec

(***************************************************************************)
(* The chat actions.  A name handed out only ever loses the group it       *)
(* stands for: a new local id is one no name has yet, and a removed        *)
(* mapping leaves a name that stands for nothing.  So what a check found   *)
(* bounds what the name stands for when it is resolved again.              *)
(***************************************************************************)
AllNames == {Net(g) : g \in Chats} \cup {Loc(n) : n \in Nat \ {0}}
NamesUpTo(h) == {Net(g) : g \in Chats} \cup {Loc(n) : n \in 1..h}

\* The groups the name n stands for under the mappings L.
Stands(n, L) ==
  IF n.form = "network" THEN {n.id} ELSE {g \in Chats : n.form = "local" /\ L[g] = n.id}

OneEach(L) == \A g, h \in Chats : L[g] = L[h] /\ L[g] # 0 => g = h

ChActType ==
  [op : {"none", "list", "info", "search", "search all", "cleanup", "leave"},
   pc : {"idle", "lookup", "read", "left", "revoke"}, name : AllNames \cup {NoName}, by : Nat,
   target : SUBSET Nat, covered : SUBSET Chats, mapped : Nat, duty : SUBSET Nat]

\* An action under way, with H local ids handed out, the mappings L and the grants S.
ChActOK(k, H, L, S) ==
  \/ k.pc \in {"idle", "left"}
  \/ /\ k.pc = "lookup" /\ k.by \in DOMAIN S
     /\ k.op # "search all" => k.name \in NamesUpTo(H)
  \/ /\ k.pc = "read" /\ (k.op = "search all" => k.by # 0)
     /\ k.op # "search all" => k.name \in NamesUpTo(H)
     /\ k.op \in {"list", "info"} \/ k.by = 0 => Stands(k.name, L) \subseteq k.covered
  \/ /\ k.pc = "revoke" /\ k.target \subseteq DOMAIN S /\ k.duty \subseteq DOMAIN S
     /\ \A c \in k.duty : c \in k.target \/ S[c].status # "active"

Grants == [chat : AllNames, status : {"active", "revoked"}]

ChatInv ==
  /\ handed \in Nat /\ local \in [Chats -> Nat] /\ OneEach(local)
  /\ \A g \in Chats : local[g] <= handed
  /\ issued \in Seq(Grants)
  /\ chacts \in [ChTasks -> ChActType]
  /\ \A t \in ChTasks : ChActOK(chacts[t], handed, local, issued)
  /\ strayed = {} /\ missed = {}

\* The place of a credential in the list of grants.
LEMMA GrantPlace ==
    ASSUME NEW q \in Seq(Grants), NEW c \in DOMAIN q
    PROVE  c \in Nat /\ c # 0 /\ q[c] \in Grants
<1>1. DOMAIN q = 1..Len(q) /\ Len(q) \in Nat
  OBVIOUS
<1>2. c \in 1..Len(q)
  BY <1>1
<1> QED
  BY <1>1, <1>2

\* The model's names are the ones handed out so far.
LEMMA NamesAreTyped ==
    ASSUME handed \in Nat
    PROVE  Names = NamesUpTo(handed) /\ Names \subseteq AllNames
<1>1. 1..handed \subseteq Nat \ {0}
  OBVIOUS
<1> QED
  BY <1>1 DEF Names, NamesUpTo, AllNames

\* A name stands for at most one group, and for groups of the network only.
LEMMA StandsForOne ==
    ASSUME NEW L \in [Chats -> Nat], OneEach(L), NEW n \in AllNames
    PROVE  /\ Stands(n, L) \subseteq Chats
           /\ \A g, h \in Stands(n, L) : g = h
<1>1. CASE n \in {Net(g) : g \in Chats}
  BY <1>1 DEF Net, Stands
<1>2. CASE n \in {Loc(m) : m \in Nat \ {0}}
  <2>1. PICK m \in Nat \ {0} : n = Loc(m)
    BY <1>2
  <2>2. n.form = "local" /\ n.id = m
    BY <2>1 DEF Loc
  <2>3. Stands(n, L) = {g \in Chats : L[g] = m}
    BY <2>2 DEF Stands
  <2> QED
    BY <2>3 DEF OneEach
<1> QED
  BY <1>1, <1>2 DEF AllNames

\* resolveGroupId reads the mappings of the moment.
LEMMA ResolveIsStands == \A n : resolveGroupId(n) = Stands(n, local)
BY DEF resolveGroupId, Stands

\* An action under way is not disturbed by names that lose their group, by more
\* grants, nor by revocations.
LEMMA ActsAreUndisturbed ==
    ASSUME NEW H \in Nat, NEW HH \in Nat, H <= HH, NEW L, NEW LL,
           \A n \in NamesUpTo(H) : Stands(n, LL) \subseteq Stands(n, L),
           NEW S, NEW SS, DOMAIN S \subseteq DOMAIN SS,
           \A c \in DOMAIN S : S[c].status # "active" => SS[c].status # "active",
           NEW k \in ChActType, ChActOK(k, H, L, S)
    PROVE  ChActOK(k, HH, LL, SS)
<1>1. NamesUpTo(H) \subseteq NamesUpTo(HH)
  BY DEF NamesUpTo
<1>2. CASE k.pc \in {"idle", "left"}
  BY <1>2 DEF ChActOK
<1>3. CASE k.pc = "lookup"
  BY <1>1, <1>3 DEF ChActOK
<1>4. CASE k.pc = "read"
  <2>1. k.op # "search all" => Stands(k.name, LL) \subseteq Stands(k.name, L)
    BY <1>4 DEF ChActOK
  <2> QED
    BY <1>1, <1>4, <2>1 DEF ChActOK
<1>5. CASE k.pc = "revoke"
  BY <1>5 DEF ChActOK
<1> QED
  BY <1>2, <1>3, <1>4, <1>5 DEF ChActType

\* No action under way.
LEMMA NoChActIsTyped == NoChAct \in ChActType /\ NoChAct.pc = "idle"
BY DEF NoChAct, ChActType

\* A step of one action that leaves mappings and grants alone.
LEMMA OneChActSteps ==
    ASSUME ChatInv, NEW t \in ChTasks, NEW k \in ChActType, chacts' = [chacts EXCEPT ![t] = k],
           ChActOK(k, handed, local, issued), UNCHANGED <<handed, local, issued>>,
           strayed' = {}, missed' = {}
    PROVE  ChatInv'
<1>1. handed' = handed /\ local' = local /\ issued' = issued
  OBVIOUS
<1>2. chacts' \in [ChTasks -> ChActType]
      /\ \A u \in ChTasks : ChActOK(chacts'[u], handed', local', issued')
  BY <1>1 DEF ChatInv
<1> QED
  BY <1>1, <1>2 DEF ChatInv

\* A name that is handed out keeps its group, or loses it: a group that enters gets
\* a local id nobody has.
LEMMA EnteringKeepsNames ==
    ASSUME ChatInv, NEW g \in Chats, EnterChat(g)
    PROVE  ChatInv'
<1>1. /\ chacts' = chacts /\ issued' = issued /\ strayed' = strayed /\ missed' = missed
      /\ \/ local' = local /\ handed' = handed
         \/ /\ local[g] = 0 /\ handed' = handed + 1
            /\ local' = [local EXCEPT ![g] = handed + 1]
  BY DEF EnterChat, ensureLocalId, granted
<1>2. CASE local' = local /\ handed' = handed
  BY <1>1, <1>2 DEF ChatInv
<1>3. CASE /\ local[g] = 0 /\ handed' = handed + 1
           /\ local' = [local EXCEPT ![g] = handed + 1]
  <2>1. /\ handed \in Nat /\ handed' \in Nat /\ handed <= handed' /\ local' \in [Chats -> Nat]
        /\ local'[g] = handed + 1 /\ \A h \in Chats : h # g => local'[h] = local[h]
        /\ \A h \in Chats : local'[h] <= handed' /\ local[h] <= handed
    BY <1>3 DEF ChatInv
  <2>2. OneEach(local')
    BY <1>3, <2>1 DEF ChatInv, OneEach
  <2>3. ASSUME NEW n \in NamesUpTo(handed)
        PROVE  Stands(n, local') \subseteq Stands(n, local)
    <3>1. CASE n \in {Net(h) : h \in Chats}
      BY <3>1 DEF Net, Stands
    <3>2. CASE n \in {Loc(m) : m \in 1..handed}
      <4>1. PICK m \in 1..handed : n = Loc(m)
        BY <3>2
      <4>2. n.form = "local" /\ n.id = m /\ m <= handed
        BY <2>1, <4>1 DEF Loc
      <4>3. Stands(n, local') = {h \in Chats : local'[h] = m}
            /\ Stands(n, local) = {h \in Chats : local[h] = m}
        BY <4>2 DEF Stands
      <4> QED
        BY <2>1, <4>2, <4>3
    <3> QED
      BY <2>3, <3>1, <3>2 DEF NamesUpTo
  <2>4. ASSUME NEW t \in ChTasks
        PROVE  ChActOK(chacts'[t], handed', local', issued')
    <3>1. chacts[t] \in ChActType /\ ChActOK(chacts[t], handed, local, issued)
      BY DEF ChatInv
    <3>2. ChActOK(chacts[t], handed', local', issued)
      BY <2>1, <2>3, <3>1, ActsAreUndisturbed
    <3> QED
      BY <1>1, <3>2
  <2> QED
    BY <1>1, <2>1, <2>2, <2>4 DEF ChatInv
<1> QED
  BY <1>1, <1>2, <1>3

\* A credential issued for a chat.
LEMMA IssuingKeepsInv ==
    ASSUME ChatInv, NEW n \in Names, IssueForChat(n)
    PROVE  ChatInv'
<1> PICK r : r = [chat |-> n, status |-> "active"]
  OBVIOUS
<1>1. /\ issued' = Append(issued, r)
      /\ UNCHANGED <<local, handed, chacts, strayed, missed>>
  BY DEF IssueForChat
<1>2. r \in Grants
  BY NamesAreTyped DEF ChatInv, Grants
<1>3. /\ issued' \in Seq(Grants) /\ DOMAIN issued \subseteq DOMAIN issued'
      /\ \A c \in DOMAIN issued : issued'[c] = issued[c]
  BY <1>1, <1>2 DEF ChatInv
<1>4. handed \in Nat /\ handed <= handed /\ local' = local /\ handed' = handed /\ chacts' = chacts
  BY <1>1 DEF ChatInv
<1>5. ASSUME NEW t \in ChTasks
      PROVE  ChActOK(chacts'[t], handed', local', issued')
  <2>1. chacts[t] \in ChActType /\ ChActOK(chacts[t], handed, local, issued)
    BY DEF ChatInv
  <2>2. ChActOK(chacts[t], handed, local, issued')
    BY <1>3, <1>4, <2>1, ActsAreUndisturbed
  <2> QED
    BY <1>4, <2>2
<1> QED
  BY <1>1, <1>3, <1>4, <1>5 DEF ChatInv

\* A read begins, as an admin or with a credential.
LEMMA ReadBegins ==
    ASSUME ChatInv, NEW t \in ChTasks, NEW n \in Names,
           NEW op \in {"list", "info", "search", "search all"},
           ReadAsAdmin(t, n, op) \/ \E c \in DOMAIN issued : ReadAsHarness(t, n, c, op)
    PROVE  ChatInv'
<1>0. /\ n \in NamesUpTo(handed) /\ n \in AllNames /\ local \in [Chats -> Nat] /\ OneEach(local)
      /\ issued \in Seq(Grants) /\ chacts \in [ChTasks -> ChActType]
      /\ strayed = {} /\ missed = {}
  BY NamesAreTyped DEF ChatInv
<1>1. CASE ReadAsAdmin(t, n, op)
  <2> PICK G : G = resolveGroupId(elevated)
    OBVIOUS
  <2>1. /\ op \in {"list", "info", "search"} /\ G = Stands(n, local)
        /\ chacts' = [chacts EXCEPT ![t] =
             [NoChAct EXCEPT !.op = op, !.pc = "read", !.name = n, !.covered = G]]
        /\ UNCHANGED <<handed, local, issued, strayed, missed>>
    BY <1>1, ResolveIsStands DEF ReadAsAdmin, AdminMayRead, granted
  <2>2. PICK k : k = [NoChAct EXCEPT !.op = op, !.pc = "read", !.name = n, !.covered = G]
    OBVIOUS
  <2>3. G \subseteq Chats
    BY <1>0, <2>1, StandsForOne
  <2>4. k \in ChActType /\ k.op = op /\ k.pc = "read" /\ k.name = n /\ k.covered = G
    BY <1>0, <2>1, <2>2, <2>3, NoChActIsTyped DEF ChActType
  <2>5. ChActOK(k, handed, local, issued)
    BY <1>0, <2>1, <2>4 DEF ChActOK
  <2>6. chacts' = [chacts EXCEPT ![t] = k] /\ strayed' = {} /\ missed' = {}
        /\ UNCHANGED <<handed, local, issued>>
    BY <1>0, <2>1, <2>2
  <2> QED
    BY <2>4, <2>5, <2>6, OneChActSteps
<1>2. ASSUME NEW c \in DOMAIN issued, ReadAsHarness(t, n, c, op)
      PROVE  ChatInv'
  <2>1. PICK m : m = IF op = "search all" THEN NoName ELSE n
    OBVIOUS
  <2>2. /\ chacts' = [chacts EXCEPT ![t] =
             [NoChAct EXCEPT !.op = op, !.pc = "lookup", !.by = c, !.name = m]]
        /\ UNCHANGED <<handed, local, issued, strayed, missed>>
    BY <1>2, <2>1 DEF ReadAsHarness, granted
  <2>3. PICK k : k = [NoChAct EXCEPT !.op = op, !.pc = "lookup", !.by = c, !.name = m]
    OBVIOUS
  <2>4. c \in Nat /\ m \in AllNames \cup {NoName} /\ (op # "search all" => m = n)
    BY <1>0, <2>1, GrantPlace
  <2>5. k \in ChActType /\ k.op = op /\ k.pc = "lookup" /\ k.name = m /\ k.by = c
    BY <2>3, <2>4, NoChActIsTyped DEF ChActType
  <2>6. ChActOK(k, handed, local, issued)
    BY <1>0, <2>4, <2>5 DEF ChActOK
  <2>7. chacts' = [chacts EXCEPT ![t] = k] /\ strayed' = {} /\ missed' = {}
        /\ UNCHANGED <<handed, local, issued>>
    BY <1>0, <2>2, <2>3
  <2> QED
    BY <2>5, <2>6, <2>7, OneChActSteps
<1> QED
  BY <1>1, <1>2

\* The credential's record is looked up.
LEMMA LookupKeepsInv ==
    ASSUME ChatInv, NEW t \in ChTasks, CredentialLookedUp(t)
    PROVE  ChatInv'
<1> PICK a : a = chacts[t]
  OBVIOUS
<1> PICK scoped : scoped = resolveGroupId(issued[a.by].chat)
  OBVIOUS
<1>0. /\ a \in ChActType /\ ChActOK(a, handed, local, issued) /\ handed \in Nat
      /\ local \in [Chats -> Nat] /\ OneEach(local) /\ strayed = {} /\ missed = {}
      /\ issued \in Seq(Grants) /\ chacts \in [ChTasks -> ChActType]
  BY DEF ChatInv
<1>1. /\ a.pc = "lookup"
      /\ \/ ChDone(t)
         \/ /\ a.op \in {"list", "info"} => resolveGroupId(a.name) \cap scoped # {}
            /\ chacts' = [chacts EXCEPT ![t].pc = "read", ![t].covered = scoped]
      /\ UNCHANGED <<handed, local, issued, strayed, missed>>
  BY DEF CredentialLookedUp, granted
<1>2. a.by \in DOMAIN issued /\ a.by \in Nat /\ a.by # 0
      /\ (a.op # "search all" => a.name \in NamesUpTo(handed))
  <2>1. a.by \in DOMAIN issued /\ (a.op # "search all" => a.name \in NamesUpTo(handed))
    BY <1>0, <1>1 DEF ChActOK
  <2> QED
    BY <1>0, <2>1, GrantPlace
<1>3. CASE ChDone(t)
  <2>1. chacts' = [chacts EXCEPT ![t] = NoChAct] /\ ChActOK(NoChAct, handed, local, issued)
        /\ strayed' = {} /\ missed' = {} /\ UNCHANGED <<handed, local, issued>>
    BY <1>0, <1>1, <1>3, NoChActIsTyped DEF ChDone, ChActOK
  <2> QED
    BY <2>1, NoChActIsTyped, OneChActSteps
<1>4. CASE /\ a.op \in {"list", "info"} => resolveGroupId(a.name) \cap scoped # {}
           /\ chacts' = [chacts EXCEPT ![t].pc = "read", ![t].covered = scoped]
  <2>1. issued[a.by] \in Grants
    BY <1>0, <1>2, GrantPlace
  <2>2. issued[a.by].chat \in AllNames
    BY <2>1 DEF Grants
  <2>3. scoped \subseteq Chats /\ \A g, h \in scoped : g = h
    BY <1>0, <2>2, StandsForOne, ResolveIsStands
  <2>4. a.op \in {"list", "info"} => Stands(a.name, local) \subseteq scoped
    <3> SUFFICES ASSUME a.op \in {"list", "info"}
                 PROVE  Stands(a.name, local) \subseteq scoped
      OBVIOUS
    <3>1. a.name \in AllNames
      BY <1>0, <1>2, NamesAreTyped
    <3>2. \A g, h \in Stands(a.name, local) : g = h
      BY <1>0, <3>1, StandsForOne
    <3>3. Stands(a.name, local) \cap scoped # {}
      BY <1>4, ResolveIsStands
    <3> QED
      BY <3>2, <3>3
  <2>5. PICK k : k = [a EXCEPT !.pc = "read", !.covered = scoped]
    OBVIOUS
  <2>6. k \in ChActType /\ k.pc = "read" /\ k.covered = scoped /\ k.op = a.op
        /\ k.by = a.by /\ k.name = a.name
    BY <1>0, <2>3, <2>5 DEF ChActType
  <2>7. ChActOK(k, handed, local, issued)
    BY <1>2, <2>4, <2>6 DEF ChActOK
  <2>8. chacts' = [chacts EXCEPT ![t] = k] /\ strayed' = {} /\ missed' = {}
        /\ UNCHANGED <<handed, local, issued>>
    BY <1>0, <1>1, <1>4, <2>5
  <2> QED
    BY <2>6, <2>7, <2>8, OneChActSteps
<1> QED
  BY <1>1, <1>3, <1>4

\* The messages are read: the name is resolved once more.
LEMMA ReadingStaysCovered ==
    ASSUME ChatInv, NEW t \in ChTasks, ReadMessages(t)
    PROVE  ChatInv'
<1> PICK a : a = chacts[t]
  OBVIOUS
<1>0. a \in ChActType /\ ChActOK(a, handed, local, issued) /\ strayed = {} /\ missed = {}
  BY DEF ChatInv
<1>1. a.pc = "read" /\ ChDone(t) /\ UNCHANGED <<handed, local, issued, missed>>
  BY DEF ReadMessages, granted
<1>2. /\ a.op = "search all" => a.by # 0
      /\ a.op \in {"list", "info"} \/ a.by = 0 => resolveGroupId(a.name) \subseteq a.covered
  BY <1>0, <1>1, ResolveIsStands DEF ChActOK
<1>3. a.op = "list" => listMessages(a.name) \subseteq a.covered
  BY <1>2 DEF listMessages
<1>4. \A m \in Chats : a.op = "info" => getMessage(a.name, m) \subseteq a.covered
  BY <1>2 DEF getMessage
<1>5. a.op \notin {"list", "info"} => searchMessages(a) \subseteq a.covered
  BY <1>2 DEF searchMessages
<1>6. PICK m \in Chats :
        strayed' = strayed \cup ((CASE a.op = "list" -> listMessages(a.name)
                                    [] a.op = "info" -> getMessage(a.name, m)
                                    [] OTHER -> searchMessages(a)) \ a.covered)
  BY DEF ReadMessages
<1>7. strayed' = {}
  <2>1. CASE a.op = "list"
    BY <1>0, <1>3, <1>6, <2>1
  <2>2. CASE a.op = "info"
    BY <1>0, <1>4, <1>6, <2>2
  <2>3. CASE a.op \notin {"list", "info"}
    BY <1>0, <1>5, <1>6, <2>3
  <2> QED
    BY <2>1, <2>2, <2>3
<1>8. chacts' = [chacts EXCEPT ![t] = NoChAct] /\ ChActOK(NoChAct, handed, local, issued)
      /\ missed' = {} /\ UNCHANGED <<handed, local, issued>>
  BY <1>0, <1>1, NoChActIsTyped DEF ChDone, ChActOK
<1> QED
  BY <1>7, <1>8, NoChActIsTyped, OneChActSteps

\* A cleanup begins: what it owes is on the list of what it will revoke, whichever
\* name of the chat the credential was issued for.
LEMMA CleanupBegins ==
    ASSUME ChatInv, NEW t \in ChTasks, NEW n \in AllNames \cup {NoName}, NEW gs \in SUBSET Chats,
           BeginCleanup(t, n, gs), UNCHANGED <<handed, local, issued, strayed, missed>>
    PROVE  ChatInv'
<1>0. /\ issued \in Seq(Grants) /\ local \in [Chats -> Nat] /\ strayed = {} /\ missed = {}
      /\ chacts \in [ChTasks -> ChActType]
  BY DEF ChatInv
<1>1. PICK target : target = {c \in DOMAIN issued : Standing(c) /\ issued[c].chat \in matchChatIds(n, gs)}
  OBVIOUS
<1>2. PICK duty : duty = {c \in DOMAIN issued :
                            Standing(c) /\ resolveGroupId(issued[c].chat) \cap gs # {}}
  OBVIOUS
<1>3. PICK mapped : mapped = IF gs = {} THEN 0 ELSE local[CHOOSE g \in gs : TRUE]
  OBVIOUS
<1>4. duty \subseteq target
  <2> SUFFICES ASSUME NEW c \in DOMAIN issued, Standing(c),
                      resolveGroupId(issued[c].chat) \cap gs # {}
               PROVE  issued[c].chat \in matchChatIds(n, gs)
    BY <1>1, <1>2
  <2>1. PICK g \in gs : g \in Stands(issued[c].chat, local)
    BY ResolveIsStands
  <2>2. issued[c].chat \in AllNames
    BY <1>0, GrantPlace DEF Grants
  <2>3. CASE issued[c].chat \in {Net(h) : h \in Chats}
    <3>1. PICK h \in Chats : issued[c].chat = Net(h)
      BY <2>3
    <3>2. g = h
      BY <2>1, <3>1 DEF Stands, Net
    <3> QED
      BY <3>1, <3>2 DEF matchChatIds
  <2>4. CASE issued[c].chat \in {Loc(m) : m \in Nat \ {0}}
    <3>1. PICK m \in Nat \ {0} : issued[c].chat = Loc(m)
      BY <2>4
    <3>2. local[g] = m
      BY <2>1, <3>1 DEF Stands, Loc
    <3> QED
      BY <3>1, <3>2 DEF matchChatIds
  <2> QED
    BY <2>2, <2>3, <2>4 DEF AllNames
<1>5. target \subseteq DOMAIN issued /\ duty \subseteq DOMAIN issued
      /\ target \subseteq Nat /\ duty \subseteq Nat
  BY <1>0, <1>1, <1>2, GrantPlace
<1>6. mapped \in Nat
  BY <1>0, <1>3
<1>7. PICK k : k = [NoChAct EXCEPT !.op = "cleanup", !.pc = "revoke", !.name = n, !.covered = gs,
                                   !.target = target, !.mapped = mapped, !.duty = duty]
  OBVIOUS
<1>8. k \in ChActType /\ k.pc = "revoke" /\ k.target = target /\ k.duty = duty
  BY <1>5, <1>6, <1>7, NoChActIsTyped DEF ChActType
<1>9. chacts' = [chacts EXCEPT ![t] = k]
  BY <1>1, <1>2, <1>3, <1>7 DEF BeginCleanup
<1>10. ChActOK(k, handed, local, issued)
  BY <1>4, <1>5, <1>8 DEF ChActOK
<1> QED
  BY <1>0, <1>8, <1>9, <1>10, OneChActSteps

\* chat.rm begins a cleanup; chat.leave leaves, and with purge goes on to one.
LEMMA LeavingKeepsInv ==
    ASSUME ChatInv, NEW t \in ChTasks,
           \/ Purge(t)
           \/ \E n \in Names : RemoveLocal(t, n) \/ \E b \in BOOLEAN : Leave(t, n, b)
    PROVE  ChatInv'
<1>0. /\ local \in [Chats -> Nat] /\ OneEach(local) /\ Names \subseteq AllNames
      /\ chacts \in [ChTasks -> ChActType] /\ strayed = {} /\ missed = {}
  BY NamesAreTyped DEF ChatInv
<1>1. \A n \in Names : resolveGroupId(n) \in SUBSET Chats
  BY <1>0, StandsForOne, ResolveIsStands
<1>2. CASE Purge(t)
  <2>1. chacts[t] \in ChActType
    BY <1>0
  <2>2. chacts[t].name \in AllNames \cup {NoName} /\ chacts[t].covered \in SUBSET Chats
    BY <2>1 DEF ChActType
  <2>3. BeginCleanup(t, chacts[t].name, chacts[t].covered)
        /\ UNCHANGED <<handed, local, issued, strayed, missed>>
    BY <1>2 DEF Purge, granted
  <2> QED
    BY <2>2, <2>3, CleanupBegins
<1>3. ASSUME NEW n \in Names, RemoveLocal(t, n)
      PROVE  ChatInv'
  <2>1. BeginCleanup(t, n, resolveGroupId(n))
        /\ UNCHANGED <<handed, local, issued, strayed, missed>>
    BY <1>3 DEF RemoveLocal, granted
  <2> QED
    BY <1>0, <1>1, <2>1, CleanupBegins
<1>4. ASSUME NEW n \in Names, NEW b \in BOOLEAN, Leave(t, n, b)
      PROVE  ChatInv'
  <2> PICK gs : gs = resolveGroupId(n)
    OBVIOUS
  <2>1. /\ UNCHANGED <<handed, local, issued, strayed, missed>>
        /\ \/ chacts' = chacts
           \/ chacts' = [chacts EXCEPT ![t] = [NoChAct EXCEPT !.op = "leave", !.pc = "left",
                                                              !.name = n, !.covered = gs]]
    BY <1>4 DEF Leave, granted
  <2>2. CASE chacts' = chacts
    BY <2>1, <2>2 DEF ChatInv
  <2>3. CASE chacts' = [chacts EXCEPT ![t] = [NoChAct EXCEPT !.op = "leave", !.pc = "left",
                                                             !.name = n, !.covered = gs]]
    <3>1. PICK k : k = [NoChAct EXCEPT !.op = "leave", !.pc = "left", !.name = n, !.covered = gs]
      OBVIOUS
    <3>2. k \in ChActType /\ k.pc = "left"
      BY <1>0, <1>1, <3>1, NoChActIsTyped DEF ChActType
    <3>3. chacts' = [chacts EXCEPT ![t] = k] /\ ChActOK(k, handed, local, issued)
      BY <2>3, <3>1, <3>2 DEF ChActOK
    <3> QED
      BY <1>0, <2>1, <3>2, <3>3, OneChActSteps
  <2> QED
    BY <2>1, <2>2, <2>3
<1> QED
  BY <1>2, <1>3, <1>4

\* A cleanup revokes one credential of its list.
LEMMA RevokingKeepsInv ==
    ASSUME ChatInv, NEW t \in ChTasks, RevokeNext(t)
    PROVE  ChatInv'
<1> PICK a : a = chacts[t]
  OBVIOUS
<1>0. /\ a \in ChActType /\ ChActOK(a, handed, local, issued) /\ handed \in Nat /\ handed <= handed
      /\ issued \in Seq(Grants) /\ chacts \in [ChTasks -> ChActType]
  BY DEF ChatInv
<1>1. PICK c \in a.target :
        /\ issued' = [issued EXCEPT ![c].status = "revoked"]
        /\ chacts' = [chacts EXCEPT ![t].target = a.target \ {c}]
  BY DEF RevokeNext
<1>2. a.pc = "revoke" /\ UNCHANGED <<handed, local, strayed, missed>>
  BY DEF RevokeNext
<1>3. a.target \subseteq DOMAIN issued /\ a.duty \subseteq DOMAIN issued
      /\ \A d \in a.duty : d \in a.target \/ issued[d].status # "active"
  BY <1>0, <1>2 DEF ChActOK
<1>4. c \in DOMAIN issued /\ issued[c] \in Grants
  BY <1>0, <1>3, GrantPlace
<1>5. [issued[c] EXCEPT !.status = "revoked"] \in Grants
      /\ [issued[c] EXCEPT !.status = "revoked"].status = "revoked"
  BY <1>4 DEF Grants
<1>6. /\ issued' \in Seq(Grants) /\ DOMAIN issued' = DOMAIN issued
      /\ \A d \in DOMAIN issued : d # c => issued'[d] = issued[d]
      /\ issued'[c].status = "revoked"
  <2>1. PICK r : r = [issued[c] EXCEPT !.status = "revoked"]
    OBVIOUS
  <2>2. issued' = [issued EXCEPT ![c] = r] /\ r \in Grants /\ r.status = "revoked"
    BY <1>1, <1>5, <2>1
  <2> QED
    BY <1>0, <1>4, <2>2
<1>7. \A d \in DOMAIN issued : issued[d].status # "active" => issued'[d].status # "active"
  BY <1>6
<1>8. PICK k : k = [a EXCEPT !.target = a.target \ {c}]
  OBVIOUS
<1>9. k \in ChActType /\ k.pc = "revoke" /\ k.target = a.target \ {c} /\ k.duty = a.duty
  BY <1>0, <1>2, <1>8 DEF ChActType
<1>10. ChActOK(k, handed, local, issued')
  BY <1>3, <1>6, <1>7, <1>9 DEF ChActOK
<1>11. chacts' = [chacts EXCEPT ![t] = k]
  BY <1>0, <1>1, <1>8
<1>12. ASSUME NEW u \in ChTasks
       PROVE  ChActOK(chacts'[u], handed', local', issued')
  <2>1. CASE u = t
    BY <1>0, <1>2, <1>10, <1>11, <2>1
  <2>2. CASE u # t
    <3>1. chacts[u] \in ChActType /\ ChActOK(chacts[u], handed, local, issued)
      BY DEF ChatInv
    <3>2. ChActOK(chacts[u], handed, local, issued')
      BY <1>0, <1>6, <1>7, <3>1, ActsAreUndisturbed
    <3> QED
      BY <1>0, <1>2, <1>11, <2>2, <3>2
  <2> QED
    BY <2>1, <2>2
<1>13. chacts' \in [ChTasks -> ChActType]
  BY <1>0, <1>9, <1>11
<1> QED
  BY <1>2, <1>6, <1>12, <1>13 DEF ChatInv

\* A cleanup ends: nothing it owed is standing, and the group has lost its local id.
LEMMA CleanupEnds ==
    ASSUME ChatInv, NEW t \in ChTasks, FinishCleanup(t)
    PROVE  ChatInv'
<1> PICK a : a = chacts[t]
  OBVIOUS
<1>0. /\ a \in ChActType /\ ChActOK(a, handed, local, issued) /\ handed \in Nat /\ handed <= handed
      /\ local \in [Chats -> Nat] /\ OneEach(local) /\ \A g \in Chats : local[g] <= handed
      /\ chacts \in [ChTasks -> ChActType] /\ missed = {}
  BY DEF ChatInv
<1>1. /\ a.pc = "revoke" /\ a.target = {} /\ chacts' = [chacts EXCEPT ![t] = NoChAct]
      /\ local' = [g \in Chats |-> IF g \in a.covered /\ local[g] = a.mapped THEN 0 ELSE local[g]]
      /\ missed' = missed \cup {c \in a.duty : Standing(c)}
      /\ handed' = handed /\ issued' = issued /\ strayed' = strayed
  BY DEF FinishCleanup, ChDone, granted
<1>2. missed' = {}
  <2>1. \A c \in a.duty : ~Standing(c)
    BY <1>0, <1>1 DEF ChActOK, Standing
  <2> QED
    BY <1>0, <1>1, <2>1
<1>3. \A g \in Chats : local'[g] = 0 \/ local'[g] = local[g]
  BY <1>1
<1>4. local' \in [Chats -> Nat] /\ OneEach(local') /\ \A g \in Chats : local'[g] <= handed
  <2>1. local' \in [Chats -> Nat]
    BY <1>0, <1>1
  <2> QED
    BY <1>0, <1>3, <2>1 DEF OneEach
<1>5. ASSUME NEW n \in NamesUpTo(handed)
      PROVE  Stands(n, local') \subseteq Stands(n, local)
  <2>1. CASE n \in {Net(h) : h \in Chats}
    BY <2>1 DEF Net, Stands
  <2>2. CASE n \in {Loc(m) : m \in 1..handed}
    <3>1. PICK m \in 1..handed : n = Loc(m)
      BY <2>2
    <3>2. n.form = "local" /\ n.id = m /\ m # 0
      BY <1>0, <3>1 DEF Loc
    <3>3. Stands(n, local') = {h \in Chats : local'[h] = m}
          /\ Stands(n, local) = {h \in Chats : local[h] = m}
      BY <3>2 DEF Stands
    <3> QED
      BY <1>3, <3>2, <3>3
  <2> QED
    BY <1>5, <2>1, <2>2 DEF NamesUpTo
<1>6. ASSUME NEW u \in ChTasks
      PROVE  ChActOK(chacts'[u], handed', local', issued')
  <2>1. CASE u = t
    <3>1. chacts'[u] = NoChAct
      BY <1>0, <1>1, <2>1
    <3> QED
      BY <3>1, NoChActIsTyped DEF ChActOK
  <2>2. CASE u # t
    <3>1. chacts[u] \in ChActType /\ ChActOK(chacts[u], handed, local, issued)
      BY DEF ChatInv
    <3>2. ChActOK(chacts[u], handed, local', issued)
      BY <1>0, <1>5, <3>1, ActsAreUndisturbed
    <3> QED
      BY <1>0, <1>1, <2>2, <3>2
  <2> QED
    BY <2>1, <2>2
<1>7. chacts' \in [ChTasks -> ChActType]
  BY <1>0, <1>1, NoChActIsTyped
<1>8. strayed' = {} /\ issued' \in Seq(Grants)
  BY <1>1 DEF ChatInv
<1> QED
  BY <1>1, <1>2, <1>4, <1>6, <1>7, <1>8 DEF ChatInv

\* The chat actions keep the invariant.
LEMMA ChatsKeepInv == ChatSpec => []ChatInv
<1>1. ChInit => ChatInv
  <2> SUFFICES ASSUME ChInit PROVE ChatInv
    OBVIOUS
  <2>1. chacts \in [ChTasks -> ChActType] /\ \A t \in ChTasks : chacts[t] = NoChAct
    BY NoChActIsTyped DEF ChInit
  <2>2. \A t \in ChTasks : ChActOK(chacts[t], handed, local, issued)
    BY <2>1, NoChActIsTyped DEF ChActOK
  <2>3. local \in [Chats -> Nat] /\ OneEach(local) /\ handed \in Nat
        /\ \A g \in Chats : local[g] <= handed
    BY DEF ChInit, OneEach
  <2>4. issued \in Seq(Grants)
    BY DEF ChInit
  <2> QED
    BY <2>1, <2>2, <2>3, <2>4 DEF ChInit, ChatInv
<1>2. ASSUME ChatInv, ChNext
      PROVE  ChatInv'
  <2>1. ASSUME NEW n \in Names, ElevateFor(n) \/ ChangeGroup(n) \/ \E b \in BOOLEAN : SetConsent(n, b)
        PROVE  ChatInv'
    <3>1. local' = local /\ handed' = handed /\ issued' = issued /\ chacts' = chacts
          /\ strayed' = strayed /\ missed' = missed
      BY <2>1 DEF ElevateFor, ChangeGroup, SetConsent
    <3> QED
      BY <1>2, <3>1 DEF ChatInv
  <2>2. CASE ChWrites
    BY <1>2, <2>1, <2>2, EnteringKeepsNames DEF ChWrites
  <2>3. CASE ChReads
    BY <1>2, <2>1, <2>3, EnteringKeepsNames, IssuingKeepsInv, ReadBegins, LookupKeepsInv,
       ReadingStaysCovered, LeavingKeepsInv, RevokingKeepsInv, CleanupEnds DEF ChReads
  <2> QED
    BY <1>2, <2>2, <2>3 DEF ChNext
<1>3. ASSUME ChatInv, UNCHANGED chvars
      PROVE  ChatInv'
  BY <1>3 DEF ChatInv, chvars
<1> QED
  BY <1>1, <1>2, <1>3, PTL DEF ChatSpec

\* No read returns messages of a group that the grant it was checked against did not
\* stand for, however often the chat's name is resolved and its mapping changes.
THEOREM ReadsAreAlwaysCovered == ChatSpec => []ReadsAreCovered
<1>1. ChatInv => ReadsAreCovered
  BY DEF ChatInv, ReadsAreCovered
<1> QED
  BY <1>1, ChatsKeepInv, PTL

\* A cleanup reported as executed has left none of the chat's credentials active.
THEOREM PurgedIsAlwaysRevoked == ChatSpec => []PurgedIsRevoked
<1>1. ChatInv => PurgedIsRevoked
  BY DEF ChatInv, PurgedIsRevoked
<1> QED
  BY <1>1, ChatsKeepInv, PTL
=============================================================================
