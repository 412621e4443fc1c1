----------------------------- MODULE SignetCore -----------------------------
(***************************************************************************)
(* The signet core: the identity records of the SQLite store, the registry *)
(* of live XMTP clients, the three streams of every client (messages,      *)
(* groups, direct messages), and the operations that create, attach,       *)
(* detach, start and stop them.  Every await of an operation is a step     *)
(* boundary, so two operations interleave as the event loop lets them, and *)
(* every call into the XMTP SDK may fail.                                  *)
(***************************************************************************)
EXTENDS Naturals, FiniteSets, Sequences

CONSTANTS Ids,        \* identity ids, fresh ones are drawn from here
          Stored,     \* identities the store already holds when the core is built
          Groups,     \* group ids on the network
          Tasks,      \* operations that may be under way at once
          MaxDrops    \* bound: chats removed and groups forgotten

ASSUME StoredAssumption == Stored \subseteq Ids

VARIABLES
  cstate,     \* #state
  store,      \* identity records held by the SQLite store
  inboxed,    \* records whose inbox_id is set
  used,       \* ids handed out so far
  bound,      \* identity -> the group its record is bound to, or NoGroup
  registry,   \* ClientRegistry: identities with a live client
  groupIds,   \* groups of every registered client
  streams,    \* open streams: [id, kind, task]
  heartbeat,  \* the heartbeat and liveness timers run
  open,       \* the identity store's database is open
  ops,        \* the operation each task performs
  mixed,      \* history: identities that two operations handled at once, or
              \* whose chat was removed
  drops       \* chats removed and groups forgotten so far

cvars == <<cstate, store, inboxed, used, bound, registry, groupIds, streams,
           heartbeat, open, ops, mixed, drops>>

NoGroup == "no group"
Kinds == {"messages", "groups", "dms"}
Idle == [kind |-> "none", id |-> "none", pc |-> "idle", todo |-> {}, fallback |-> "error"]

\* The steps of #hydrateIdentity in order; the last three open the streams.
StreamStep == [messages |-> "groups", groups |-> "dms", dms |-> "done"]

Active == {t \in Tasks : ops[t].kind # "none"}
Handled(i) == \E t \in Active : ops[t].id = i \/ i \in ops[t].todo
Free(t) == ops[t].kind = "none"

CInit ==
  /\ cstate = "idle" /\ store = Stored /\ inboxed = Stored /\ used = Stored
  /\ bound \in [Ids -> Groups \cup {NoGroup}]
  /\ \A i, j \in Ids : bound[i] = bound[j] => i = j \/ bound[i] = NoGroup
  /\ registry = {} /\ groupIds = [i \in Ids |-> {}] /\ streams = {}
  /\ heartbeat = FALSE /\ open = TRUE
  /\ ops = [t \in Tasks |-> Idle] /\ mixed = {} /\ drops = 0

-----------------------------------------------------------------------------
(* The identity store, and removing an identity from the live runtime.     *)

\* SqliteIdentityStore: create, setInboxId, remove.
CreateRecord(i) == used' = used \cup {i} /\ store' = store \cup {i}
SetInboxId(i) == inboxed' = inboxed \cup {i}
RemoveRecords(ids) == store' = store \ ids /\ inboxed' = inboxed \ ids

StartHeartbeat == heartbeat' = TRUE
StopHeartbeat == heartbeat' = FALSE

\* detachManagedIdentity: abort the identity's streams, drop its client.
Detach(i) ==
  /\ streams' = {s \in streams : s.id # i}
  /\ registry' = registry \ {i}
  /\ groupIds' = [groupIds EXCEPT ![i] = {}]

\* #resetStartupArtifacts
ResetStartup ==
  /\ StopHeartbeat /\ streams' = {} /\ registry' = {}
  /\ groupIds' = [i \in Ids |-> {}]

-----------------------------------------------------------------------------
(* The end of an operation.                                                *)

\* Mutant: the failed identity's streams are not aborted.
HydrateFailsOpen(t) ==
  /\ ops' = [ops EXCEPT ![t] = Idle]
  /\ registry' = registry \ {ops[t].id}
  /\ UNCHANGED <<cstate, store, inboxed, used, bound, groupIds, streams, heartbeat,
                 open, mixed, drops>>

\* A failed step of #hydrateIdentity, seen from its caller: register and attach
\* detach the identity (register also deletes the record it created), start
\* resets everything and falls back.
HydrateFails(t) ==
  /\ ops' = [ops EXCEPT ![t] = Idle]
  /\ \/ /\ ops[t].kind \in {"register", "attach"}
        /\ Detach(ops[t].id)
        /\ RemoveRecords(IF ops[t].kind = "register" THEN {ops[t].id} ELSE {})
        /\ UNCHANGED <<cstate, heartbeat>>
     \/ /\ ops[t].kind = "start"
        /\ ResetStartup
        /\ cstate' = ops[t].fallback
        /\ UNCHANGED <<store, inboxed>>
  /\ UNCHANGED <<used, bound, open, mixed, drops>>

\* An exception instead of an error result: the store was closed meanwhile.
\* start catches it, register and attach pass it on and clean nothing up.
HydrateThrows(t) ==
  IF ops[t].kind = "start"
  THEN HydrateFails(t)
  ELSE /\ ops' = [ops EXCEPT ![t] = Idle]
       /\ UNCHANGED <<cstate, store, inboxed, used, bound, registry, groupIds,
                      streams, heartbeat, open, mixed, drops>>

\* The step after one identity is hydrated: start goes on to the next one or
\* ends running, register still reads the identity key, attach is done.
Hydrated(t, i) ==
  CASE ops[t].kind = "start" /\ ops[t].todo # {} ->
         /\ \E j \in ops[t].todo :
              ops' = [ops EXCEPT ![t].id = j, ![t].todo = @ \ {j}, ![t].pc = "keys"]
         /\ UNCHANGED <<cstate, heartbeat>>
    [] ops[t].kind = "start" /\ ops[t].todo = {} ->
         /\ ops' = [ops EXCEPT ![t] = Idle]
         /\ StartHeartbeat /\ cstate' = "running"
    [] ops[t].kind = "register" ->
         /\ ops' = [ops EXCEPT ![t].pc = "address"]
         /\ UNCHANGED <<cstate, heartbeat>>
    [] OTHER ->
         /\ ops' = [ops EXCEPT ![t] = Idle]
         /\ UNCHANGED <<cstate, heartbeat>>

-----------------------------------------------------------------------------
(* The operations.                                                         *)

\* registerManagedIdentity: refused unless running or local; creates the record.
Register(t, i) ==
  /\ Free(t) /\ cstate \in {"running", "local"} /\ i \notin used
  /\ CreateRecord(i)
  /\ ops' = [ops EXCEPT ![t] = [kind |-> "register", id |-> i, pc |-> "keys",
                                todo |-> {}, fallback |-> "error"]]
  /\ UNCHANGED <<cstate, inboxed, bound, registry, groupIds, streams, heartbeat,
                 open, mixed, drops>>

\* attachPersistedIdentity: nothing to do for a registered identity, else hydrate
\* the stored record.  A second attach sees no client while the first one hydrates.
Attach(t, i) ==
  /\ Free(t) /\ cstate \in {"running", "local"}
  /\ i \in store \ registry
  /\ ops' = [ops EXCEPT ![t] = [kind |-> "attach", id |-> i, pc |-> "keys",
                                todo |-> {}, fallback |-> "error"]]
  /\ mixed' = IF Handled(i) THEN mixed \cup {i} ELSE mixed
  /\ UNCHANGED <<cstate, store, inboxed, used, bound, registry, groupIds, streams,
                 heartbeat, open, drops>>

\* startLocal
StartLocal ==
  /\ cstate = "idle"
  /\ cstate' = "local"
  /\ UNCHANGED <<store, inboxed, used, bound, registry, groupIds, streams,
                 heartbeat, open, ops, mixed, drops>>

\* start: from idle or local; lists the records and hydrates them one by one.
Start(t) ==
  /\ Free(t) /\ cstate \in {"idle", "local"}
  /\ mixed' = mixed \cup {ops[u].id : u \in Active}
  /\ \/ /\ store = {}
        /\ StartHeartbeat /\ cstate' = "running"
        /\ UNCHANGED ops
     \/ /\ \E i \in store :
             ops' = [ops EXCEPT ![t] = [kind |-> "start", id |-> i, pc |-> "keys",
                       todo |-> store \ {i},
                       fallback |-> IF cstate = "local" THEN "local" ELSE "error"]]
        /\ cstate' = "starting"
        /\ UNCHANGED heartbeat
  /\ UNCHANGED <<store, inboxed, used, bound, registry, groupIds, streams, open, drops>>

\* stop: refused while starting; aborts every stream, clears the registry and
\* closes the store.
Stop ==
  /\ cstate \in {"local", "running", "error"}
  /\ cstate' = "stopped" /\ StopHeartbeat /\ streams' = {} /\ registry' = {}
  /\ groupIds' = [i \in Ids |-> {}] /\ open' = FALSE
  /\ mixed' = mixed \cup {ops[u].id : u \in Active}
  /\ UNCHANGED <<store, inboxed, used, bound, ops, drops>>

\* #hydrateIdentity: the database key and the identity key from the signer.
HydrateKeys(t) ==
  /\ ops[t].pc = "keys"
  /\ \/ HydrateFails(t)
     \/ /\ ops' = [ops EXCEPT ![t].pc = "client"]
        /\ UNCHANGED <<cstate, store, inboxed, used, bound, registry, groupIds,
                       streams, heartbeat, open, mixed, drops>>

\* The registered client, with the group its record is bound to, and the choice
\* between a client without streams and one with.
Registered(t, i) ==
  IF cstate \in {"running", "starting"}
  THEN /\ registry' = registry \cup {i}
       /\ groupIds' = [groupIds EXCEPT ![i] = {bound[i]} \cap Groups]
       /\ ops' = [ops EXCEPT ![t].pc = "sync"]
       /\ UNCHANGED <<cstate, heartbeat>>
  ELSE /\ registry' = IF cstate = "local" THEN registry \cup {i} ELSE registry
       /\ groupIds' = IF cstate = "local"
                      THEN [groupIds EXCEPT ![i] = {bound[i]} \cap Groups] ELSE groupIds
       /\ Hydrated(t, i)

\* clientFactory.create; a record without an inbox id goes on to setInboxId.
HydrateClient(t) ==
  LET i == ops[t].id IN
  /\ ops[t].pc = "client"
  /\ \/ HydrateFails(t)
     \/ /\ ops[t].kind = "register" \/ i \notin inboxed
        /\ ops' = [ops EXCEPT ![t].pc = "inbox"]
        /\ UNCHANGED <<cstate, registry, groupIds, heartbeat>>
        /\ UNCHANGED <<store, inboxed, used, bound, streams, open, mixed, drops>>
     \/ /\ ops[t].kind # "register" /\ i \in inboxed
        /\ Registered(t, i)
        /\ UNCHANGED <<store, inboxed, used, bound, streams, open, mixed, drops>>

\* setInboxId: throws once the store is closed, fails when the record is gone.
HydrateInbox(t) ==
  LET i == ops[t].id IN
  /\ ops[t].pc = "inbox"
  /\ \/ ~open /\ HydrateThrows(t)
     \/ open /\ HydrateFails(t)
     \/ /\ open /\ i \in store
        /\ SetInboxId(i)
        /\ Registered(t, i)
        /\ UNCHANGED <<store, used, bound, streams, open, mixed, drops>>

\* client.syncAll and client.listGroups; the listed groups are added to the
\* managed client, which the registry may no longer hold.
HydrateSync(t) ==
  LET i == ops[t].id IN
  /\ ops[t].pc = "sync"
  /\ \/ HydrateFails(t)
     \/ \E g \in SUBSET Groups :
          /\ groupIds' = [groupIds EXCEPT ![i] = IF i \in registry THEN @ \cup g ELSE @]
          /\ ops' = [ops EXCEPT ![t].pc = "messages"]
          /\ UNCHANGED <<cstate, store, inboxed, used, bound, registry, streams,
                         heartbeat, open, mixed, drops>>

\* streamAllMessages, streamGroups, streamDms: one stream opened and consumed.
HydrateStream(t) ==
  LET i == ops[t].id IN
  /\ ops[t].pc \in Kinds
  /\ \/ HydrateFails(t)
     \/ /\ streams' = streams \cup {[id |-> i, kind |-> ops[t].pc, task |-> t]}
        /\ IF ops[t].pc = "dms"
           THEN Hydrated(t, i)
           ELSE /\ ops' = [ops EXCEPT ![t].pc = StreamStep[@]]
                /\ UNCHANGED <<cstate, heartbeat>>
        /\ UNCHANGED <<store, inboxed, used, bound, registry, groupIds, open,
                       mixed, drops>>

\* The end of registerManagedIdentity: the address is derived from the identity
\* key, and a key that cannot be read takes the identity away again.
RegisterAddress(t) ==
  /\ ops[t].pc = "address"
  /\ \/ HydrateFails(t)
     \/ /\ ops' = [ops EXCEPT ![t] = Idle]
        /\ UNCHANGED <<cstate, store, inboxed, used, bound, registry, groupIds,
                       streams, heartbeat, open, mixed, drops>>

-----------------------------------------------------------------------------
(* What happens to a live identity.                                        *)

\* #consumeGroupStream: a group the identity joins is added to its client.
GroupJoined(i, g) ==
  /\ \E s \in streams : s.id = i /\ s.kind = "groups"
  /\ i \in registry /\ g \notin groupIds[i]
  /\ groupIds' = [groupIds EXCEPT ![i] = @ \cup {g}]
  /\ UNCHANGED <<cstate, store, inboxed, used, bound, registry, streams, heartbeat,
                 open, ops, mixed, drops>>

\* cleanupInbox with execute, and the removal of the record by inbox.rm after it.
RemoveInbox(i) ==
  /\ open /\ i \in store
  /\ Detach(i)
  /\ RemoveRecords({i})
  /\ mixed' = IF Handled(i) THEN mixed \cup {i} ELSE mixed
  /\ UNCHANGED <<cstate, used, bound, heartbeat, open, ops, drops>>

\* cleanupLocalState with execute, for the group of a chat: the group is
\* forgotten, and the identity bound to it loses its client and its record.
\* Its streams stay open.
RemoveChat(g) ==
  /\ open /\ drops < MaxDrops
  /\ drops' = drops + 1
  /\ LET gone == {i \in store : bound[i] = g} IN
     /\ registry' = registry \ gone
     /\ RemoveRecords(gone)
     /\ groupIds' = [i \in Ids |-> IF i \in gone THEN {} ELSE groupIds[i] \ {g}]
     /\ mixed' = mixed \cup gone
  /\ UNCHANGED <<cstate, used, bound, streams, heartbeat, open, ops>>

CNext ==
  \/ StartLocal \/ Stop
  \/ \E t \in Tasks :
       \/ Start(t) \/ HydrateKeys(t) \/ HydrateClient(t) \/ HydrateInbox(t)
       \/ HydrateSync(t) \/ HydrateStream(t) \/ RegisterAddress(t)
       \/ \E i \in Ids : Register(t, i) \/ Attach(t, i)
  \/ \E i \in Ids : RemoveInbox(i) \/ \E g \in Groups : GroupJoined(i, g)
  \/ \E g \in Groups : RemoveChat(g)

CoreSpec == CInit /\ [][CNext]_cvars

-----------------------------------------------------------------------------
CTypeOK ==
  /\ cstate \in {"idle", "local", "starting", "running", "error", "stopped"}
  /\ inboxed \subseteq store /\ store \subseteq used /\ used \subseteq Ids
  /\ registry \subseteq Ids /\ groupIds \in [Ids -> SUBSET Groups]
  /\ streams \subseteq [id : Ids, kind : Kinds, task : Tasks]

Open(i) == {s \in streams : s.id = i}
Gone(i) == i \notin registry /\ Open(i) = {} /\ groupIds[i] = {}
Listening(i) ==
  /\ i \in registry
  /\ Cardinality(Open(i)) = 3 /\ {s.kind : s \in Open(i)} = Kinds

(***************************************************************************)
(* No half-live identity: whatever step of hydration failed, and whatever  *)
(* was registered, attached, removed, started or stopped before, an        *)
(* identity no operation is working on is either gone (no client, no       *)
(* stream, no group routed to it), or a client with exactly one stream of  *)
(* each kind in a running core, or a client without streams in a local     *)
(* core; a stopped core has none.  Identities two operations handled at    *)
(* once and identities of removed chats are excepted: see                  *)
(* StreamsHaveRecords for what those leave behind.                         *)
(***************************************************************************)
LiveOrGone ==
  \A i \in Ids \ mixed : ~Handled(i) /\ cstate # "starting" =>
    \/ Gone(i)
    \/ cstate = "running" /\ Listening(i)
    \/ cstate = "local" /\ i \in registry /\ Open(i) = {}

(***************************************************************************)
(* "stop streams and remove the in-memory client entry before deleting the *)
(* persisted inbox record": an open stream belongs to a stored identity.   *)
(* Removing a chat deletes the record of the identity bound to it and      *)
(* leaves its streams running.                                             *)
(***************************************************************************)
StreamsHaveRecords == \A s \in streams : s.id \in store

=============================================================================
