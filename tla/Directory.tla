----------------------------- MODULE Directory -----------------------------
(***************************************************************************)
(* Names of operators and policies: the two managers (operator-manager.ts  *)
(* and policy-manager.ts of packages/sessions/src), the actions over them  *)
(* that take an id or a label (operator-actions.ts, policy-actions.ts),    *)
(* and lookup.resolve (packages/core/src/lookup-actions.ts), which asks    *)
(* one store after the other.  An action resolves its argument first and   *)
(* acts on the id it found; other calls run in between.                    *)
(*                                                                         *)
(* A query is an id, a label or Malformed, an id of wrong length.  An id   *)
(* tells its kind.  Inboxes, credentials and the id mappings are only read *)
(* here: Inboxes is a set of [id, label, network] records, CredentialIds   *)
(* the stored ids, Mappings a set of [network, local] records.             *)
(***************************************************************************)
EXTENDS Naturals, FiniteSets

CONSTANTS
    OperatorIds, PolicyIds, CredentialIds,
    Labels,
    Inboxes, Mappings,
    Callers,                  \* actions under way at once
    MaxActions                \* bound: actions begun

ASSUME DirectoryAssumption ==
    /\ IsFiniteSet(OperatorIds) /\ IsFiniteSet(PolicyIds)
    /\ OperatorIds \cap PolicyIds = {}
    /\ Labels \cap (OperatorIds \cup PolicyIds) = {}

VARIABLES
    record,    \* id -> [status, label]; status "none": not drawn, or deleted
    request,   \* caller -> its action, none, or the answer it got
    changed,   \* history: [id, verb, by, bearers] of every change made by an action
    begun

dvars == <<record, request, changed, begun>>

AllIds == OperatorIds \cup PolicyIds
Kinds == {"operator", "policy"}
KindOf(id) == IF id \in OperatorIds THEN "operator" ELSE "policy"
Absent == [status |-> "none", label |-> "none"]
Malformed == "malformed"
Idle == [phase |-> "idle"]
Answer(what) == [phase |-> "answered", answer |-> what]

-----------------------------------------------------------------------------
(* The managers.                                                           *)

\* store.get: a removed operator is still found, a removed policy is gone.
Stored(id) == record[id].status # "none"

\* list
Listed(kind) == {id \in AllIds : KindOf(id) = kind /\ record[id].status = "active"}

\* matches: the listed records with this label
Bearers(kind, label) == {id \in Listed(kind) : record[id].label = label}

\* create.  A superadmin is refused; nothing compares labels.
Create(id, label, role) ==
  /\ record[id] = Absent /\ id \notin {c.id : c \in changed}
  /\ record' = IF role = "superadmin" /\ KindOf(id) = "operator" THEN record
               ELSE [record EXCEPT ![id] = [status |-> "active", label |-> label]]
  /\ UNCHANGED <<request, changed, begun>>

Note(c) ==
  LET r == request[c]
  IN changed' = changed \cup {[id |-> r.id, verb |-> r.verb, by |-> r.query,
                               bearers |-> r.bearers]}

\* update: the merged record replaces the stored one, a removed one included.
UpdateRecord(c, label, role) ==
  LET id == request[c].id
      refused == role = "superadmin" /\ KindOf(id) = "operator"
  IN /\ request[c].phase = "resolved" /\ request[c].verb = "update"
     /\ IF ~Stored(id) \/ refused
        THEN /\ request' = [request EXCEPT ![c] = Answer("error")]
             /\ UNCHANGED <<record, changed>>
        ELSE /\ record' = [record EXCEPT ![id].label = label]
             /\ request' = [request EXCEPT ![c] = Answer("ok")]
             /\ Note(c)
     /\ UNCHANGED begun

\* remove of a policy, and the first part of remove of an operator: it reads
\* the record and waits for the revocation of the operator's credentials.
RemoveRecord(c) ==
  LET id == request[c].id
  IN /\ request[c].phase = "resolved" /\ request[c].verb = "remove"
     /\ IF ~Stored(id)
        THEN /\ request' = [request EXCEPT ![c] = Answer("error")]
             /\ UNCHANGED <<record, changed>>
        ELSE IF KindOf(id) = "policy"
        THEN /\ record' = [record EXCEPT ![id] = Absent]
             /\ request' = [request EXCEPT ![c] = Answer("ok")]
             /\ Note(c)
        ELSE /\ request' = [request EXCEPT ![c].phase = "revoking", ![c].held = record[id]]
             /\ UNCHANGED <<record, changed>>
     /\ UNCHANGED begun

\* The rest of remove: the record it read is written back as removed, over
\* whatever was stored meanwhile.
RemoveWrites(c, revoked) ==
  /\ request[c].phase = "revoking"
  /\ IF revoked
     THEN /\ record' = [record EXCEPT ![request[c].id] =
                          [request[c].held EXCEPT !.status = "removed"]]
          /\ request' = [request EXCEPT ![c] = Answer("ok")]
          /\ Note(c)
     ELSE /\ request' = [request EXCEPT ![c] = Answer("error")]
          /\ UNCHANGED <<record, changed>>
  /\ UNCHANGED begun

\* lookup
ReadRecord(c) ==
  /\ request[c].phase = "resolved" /\ request[c].verb = "info"
  /\ request' = [request EXCEPT ![c] =
                   Answer(IF Stored(request[c].id) THEN "ok" ELSE "error")]
  /\ UNCHANGED <<record, changed, begun>>

-----------------------------------------------------------------------------
(* The actions by id or label.                                             *)

\* Resolve with a bug: the first of several bearers is taken.
ResolveByFirst(kind, query) ==
  IF query \in AllIds THEN {query}
  ELSE IF Bearers(kind, query) = {} THEN {} ELSE {CHOOSE id \in Bearers(kind, query) : TRUE}

\* resolveOperatorId and resolvePolicyId: an id is taken as it is, a label
\* must have one bearer.
Resolve(kind, query) ==
  IF query \in AllIds THEN {query}
  ELSE IF Cardinality(Bearers(kind, query)) = 1 THEN Bearers(kind, query) ELSE {}

\* The handlers of operator.* and policy.*: info, update and remove.  An id of
\* the other kind is a label nothing bears.
BeginAction(c, verb, kind, query) ==
  LET found == IF query \in AllIds /\ KindOf(query) # kind THEN {}
               ELSE Resolve(kind, query)
  IN /\ request[c].phase \in {"idle", "answered"} /\ begun < MaxActions
     /\ begun' = begun + 1
     /\ request' = [request EXCEPT ![c] =
          IF query = Malformed \/ found = {} THEN Answer("error")
          ELSE [phase |-> "resolved", verb |-> verb, query |-> query,
                id |-> CHOOSE id \in found : TRUE, held |-> Absent,
                bearers |-> IF query \in Labels THEN Bearers(kind, query) ELSE {query}]]
     /\ UNCHANGED <<record, changed>>

-----------------------------------------------------------------------------
(* lookup.resolve                                                          *)

\* The inbox a query names: its id, the local id the query is mapped to, its
\* label, or its id on the network, in this order.
InboxesFor(query) ==
  LET local == {m.local : m \in {n \in Mappings : query \in {n.network, n.local}}}
      tries == <<{i \in Inboxes : i.id = query}, {i \in Inboxes : i.id \in local},
                 {i \in Inboxes : i.label = query}, {i \in Inboxes : i.network = query}>>
      hits == {n \in 1..4 : tries[n] # {}}
  IN IF hits = {} THEN {}
     ELSE tries[CHOOSE n \in hits : \A m \in hits : n <= m]

\* The mapping of the query or, failing that, of the inbox it names.
MappingsFor(query) ==
  LET of(names) == {m \in Mappings : names \cap {m.network, m.local} # {}}
      inbox == InboxesFor(query)
  IN IF of({query}) # {} \/ inbox = {} THEN of({query})
     ELSE IF of({i.id : i \in inbox}) # {} THEN of({i.id : i \in inbox})
     ELSE of({i.network : i \in inbox})

BeginLookup(c, query) ==
  /\ request[c].phase \in {"idle", "answered"} /\ begun < MaxActions
  /\ begun' = begun + 1
  /\ request' = [request EXCEPT ![c] =
       [phase |-> "operator", query |-> query,
        found |-> {m.local : m \in MappingsFor(query)}
                  \cup {i.id : i \in InboxesFor(query)}]]
  /\ UNCHANGED <<record, changed>>

\* resolveOperator and resolvePolicy: the record of an id, removed or not;
\* the first listed record with the label, however many bear it.
LookupRecord(c) ==
  LET kind == request[c].phase
      query == request[c].query
      hits == IF query \in AllIds
              THEN {id \in {query} : KindOf(id) = kind /\ Stored(id)}
              ELSE Bearers(kind, query)
  IN /\ kind \in Kinds
     /\ \E first \in IF hits = {} THEN {{}} ELSE {{id} : id \in hits} :
          request' = [request EXCEPT
            ![c].phase = IF kind = "operator" THEN "policy" ELSE "credential",
            ![c].found = @ \cup first]
     /\ UNCHANGED <<record, changed, begun>>

\* resolveCredential, by id only, and the answer.
LookupCredential(c) ==
  /\ request[c].phase = "credential"
  /\ LET found == request[c].found \cup ({request[c].query} \cap CredentialIds)
     IN request' = [request EXCEPT ![c] = Answer(IF found = {} THEN "nothing" ELSE "ok")]
  /\ UNCHANGED <<record, changed, begun>>

-----------------------------------------------------------------------------
DInit ==
  /\ record = [id \in AllIds |-> Absent]
  /\ request = [c \in Callers |-> Idle]
  /\ changed = {} /\ begun = 0

DNext ==
  \/ \E id \in AllIds, label \in Labels, role \in {"operator", "superadmin"} :
       Create(id, label, role)
  \/ \E c \in Callers :
       \/ \E verb \in {"info", "update", "remove"}, kind \in Kinds,
            query \in AllIds \cup Labels \cup {Malformed} : BeginAction(c, verb, kind, query)
       \/ \E label \in Labels, role \in {"operator", "superadmin"} :
            UpdateRecord(c, label, role)
       \/ RemoveRecord(c)
       \/ \E revoked \in BOOLEAN : RemoveWrites(c, revoked)
       \/ ReadRecord(c)
       \/ \E query \in AllIds \cup Labels \cup CredentialIds
                       \cup UNION {{i.id, i.network} : i \in Inboxes} :
            BeginLookup(c, query)
       \/ LookupRecord(c)
       \/ LookupCredential(c)

DirectorySpec == DInit /\ [][DNext]_dvars

-----------------------------------------------------------------------------
Gone == {c.id : c \in {d \in changed : d.verb = "remove"}}

\* What an action changed or removed by a label is the record that alone bore
\* the label when the label was resolved (operator-actions.ts:60,
\* policy-actions.ts:51), never one of several.  A removal that was answered
\* takes the record out of every list for good, although updates and removals
\* that overlap it write whole records back (operator-manager.ts:193).
NamesReachTheirBearer ==
  /\ \A c \in changed : c.by \in Labels => c.bearers = {c.id}
  /\ \A id \in Gone : id \notin Listed(KindOf(id))
=============================================================================
