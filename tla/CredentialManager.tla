------------------------- MODULE CredentialManager -------------------------
(***************************************************************************)
(* The credential store of the signet daemon                               *)
(* (packages/sessions/src/credential-manager.ts) behind its service        *)
(* (service.ts), with the actions that reach it from the admin side        *)
(* (update-actions.ts, reveal-actions.ts) and from the harness side        *)
(* (cli/src/ws/request-handler.ts).                                        *)
(*                                                                         *)
(* The manager is synchronous: one JavaScript call is one atomic step.     *)
(* What is not atomic is split at its await: an issue that names a policy  *)
(* waits for the policy manager, and a reveal request waits for the        *)
(* credential lookup it has just started.                                  *)
(*                                                                         *)
(* Credential ids are 1..MaxCredentials in insertion order.  The indexes   *)
(* byToken and byOperator never change for a stored record, so they are    *)
(* functions of cred: the token of a credential is its id.                 *)
(***************************************************************************)
EXTENDS Integers, FiniteSets

CONSTANTS
    Operators,       \* operator ids
    NoOperator,      \* the operatorId of an id that has no record
    Chats,           \* chat ids
    Scopes,          \* permission scopes
    ScopeSets,       \* the allow/deny pairs callers ask for
    Ttls,            \* the ttlSeconds callers ask for, in ticks
    RevealEnds,      \* the expiresAt of the reveals callers ask for
    MaxConcurrent,   \* config.maxConcurrentPerOperator
    RenewalWindow,   \* config.renewalWindowSeconds, in ticks
    HeartbeatLimit,  \* heartbeatInterval + heartbeatGracePeriod, in ticks
    MaxCredentials,  \* bound: records ever stored
    MaxTime,         \* bound: the clock
    MaxWaiting       \* bound: calls waiting at an await at the same time

ASSUME ScopesAssumption ==
    ScopeSets \subseteq [allow : SUBSET Scopes, deny : SUBSET Scopes]

ASSUME LimitsAssumption ==
    /\ Ttls \subseteq Nat \ {0}
    /\ MaxConcurrent \in Nat \ {0}
    /\ RenewalWindow \in Nat
    /\ HeartbeatLimit \in Nat \ {0}
    /\ MaxCredentials \in Nat
    /\ MaxTime \in Nat
    /\ MaxWaiting \in Nat
    /\ RevealEnds \subseteq Int

VARIABLES
    cred,        \* byId: id -> record, "absent" until issued
    now,         \* Date.now(), in ticks
    reveals,     \* revealStates: id -> recorded reveals
    resolving,   \* issue calls waiting for the policy manager
    revealing,   \* reveal requests past their credential lookup
    handling,    \* harness requests past their credential lookup
    stale,       \* ids handed to onCredentialMutated and not re-read yet
    outdated,    \* ids whose reader's copy no longer has the present view
    revocations, \* ids handed to onCredentialRevoked
    sweptNow     \* history: has sweepExpired run since the clock moved

vars == <<cred, now, reveals, resolving, revealing, handling, stale, outdated,
          revocations, sweptNow>>

Ids == 1..MaxCredentials
Time == 0..MaxTime
NoTime == -1

\* CredentialStatus, and "absent" for an id that has no record.
Status == {"absent", "pending", "active", "expired", "revoked"}

\* computePolicyHash: a function of the scope set and the chats, taken to be
\* injective.
PolicyHash(scopes, chatIds) == <<scopes, chatIds>>

AllScopeSets == [allow : SUBSET Scopes, deny : SUBSET Scopes]

\* InternalCredentialRecord.  Of revokedAt only "is it set" matters; the
\* revocation reason is a label nothing here reads.
CredentialRecord ==
    [operatorId    : Operators \cup {NoOperator},
     chatIds       : SUBSET Chats,
     scopes        : AllScopeSets,
     policyHash    : AllScopeSets \X SUBSET Chats,
     status        : Status,
     lastHeartbeat : Nat,
     issuedAt      : Nat,
     expiresAt     : Nat,
     ttl           : Nat,
     revokedAt     : {"null", "set"}]

\* An issue call that waits for its policy.
IssueRequest == [operatorId : Operators, chatIds : (SUBSET Chats) \ {{}},
                 scopes : ScopeSets, ttl : Ttls]

\* A reveal: the chat it opens and when the access ends (NoTime: never).
Reveal == [chatId : Chats, expiresAt : RevealEnds]

\* What a reader of the record decides by: status and scopes.
View(r) == <<r.status, r.scopes>>

Blank == [operatorId |-> NoOperator,
          chatIds |-> {}, scopes |-> [allow |-> {}, deny |-> {}],
          policyHash |-> PolicyHash([allow |-> {}, deny |-> {}], {}),
          status |-> "absent",
          lastHeartbeat |-> 0, issuedAt |-> 0, expiresAt |-> 0, ttl |-> 0,
          revokedAt |-> "null"]

Init ==
    /\ cred = [i \in Ids |-> Blank]
    /\ now = 0
    /\ reveals = [i \in Ids |-> {}]
    /\ resolving = {}
    /\ revealing = {}
    /\ handling = {}
    /\ stale = {}
    /\ outdated = {}
    /\ revocations = {}
    /\ sweptNow = FALSE

-----------------------------------------------------------------------------
(***************************************************************************)
(* Operators on the store.  Each takes the store and returns it changed,   *)
(* so that one handler can apply several.                                  *)
(***************************************************************************)

\* getActiveForOperator.
ActiveFor(c, op) == {i \in Ids : c[i].status = "active" /\ c[i].operatorId = op}

\* Variant: the status is not compared.
PolicyFieldsWithoutStatus == {"effectiveScopes", "revokedAt", "policyHash"}

\* The fields whose update makes mutateRecord call onCredentialMutated.
PolicyFields == {"effectiveScopes", "status", "revokedAt", "policyHash"}

\* mutateRecord's hook: the ids to add to stale when these fields of
\* the records ids are updated.
Mutated(ids, fields) == IF fields \cap PolicyFields # {} THEN ids ELSE {}

\* revokeRecord, on every record of ids.
Revoked(c, ids) ==
    [i \in Ids |->
        IF i \in ids
        THEN [c[i] EXCEPT !.status = "revoked", !.revokedAt = "set"]
        ELSE c[i]]

RevokeFields == {"status", "revokedAt", "revocationReason"}

\* cleanupRevealState, on every record of ids.
CleanedUp(rv, ids) == [i \in Ids |-> IF i \in ids THEN {} ELSE rv[i]]

\* sweepExpired's two cases for an active record.
TtlExpired(r) == r.status = "active" /\ now >= r.expiresAt
HeartbeatDead(r) ==
    /\ r.status = "active"
    /\ now < r.expiresAt
    /\ now >= r.lastHeartbeat + HeartbeatLimit

\* isHeartbeatStale.
IsHeartbeatStale(r) ==
    r.status = "active" /\ now >= r.lastHeartbeat + HeartbeatLimit

SweptExpired == {i \in Ids : TtlExpired(cred[i])}
SweptRevoked == {i \in Ids : HeartbeatDead(cred[i])}

\* sweepExpired: the store after a sweep.
Swept ==
    [i \in Ids |->
        IF i \in SweptExpired THEN [cred[i] EXCEPT !.status = "expired"]
        ELSE Revoked(cred, SweptRevoked)[i]]

SweptStale ==
    Mutated(SweptExpired, {"status"}) \cup Mutated(SweptRevoked, RevokeFields)

\* The active credential of the operator that was issued first; the sort is
\* stable, so ties go to the one inserted first.
IsOldest(c, op, i) ==
    /\ i \in ActiveFor(c, op)
    /\ \A j \in ActiveFor(c, op) :
          \/ c[i].issuedAt < c[j].issuedAt
          \/ c[i].issuedAt = c[j].issuedAt /\ i <= j

\* Variant: eviction one credential late.
EvictedLate(c, op) ==
    IF Cardinality(ActiveFor(c, op)) > MaxConcurrent
    THEN {i \in Ids : IsOldest(c, op, i)}
    ELSE {}

\* What issueCredential evicts: the oldest, once the operator is at its limit.
Evicted(c, op) ==
    IF Cardinality(ActiveFor(c, op)) >= MaxConcurrent
    THEN {i \in Ids : IsOldest(c, op, i)}
    ELSE {}

\* checkMateriality(...).requiresReauthorization: some scope is allowed now
\* that was not allowed before (deny wins over allow).
Allowed(s) == s.allow \ s.deny
RequiresReauthorization(old, new) == ~(Allowed(new) \subseteq Allowed(old))

\* The bound on calls that wait at an await.
MayWait ==
    Cardinality(resolving) + Cardinality(revealing) + Cardinality(handling)
        < MaxWaiting

\* A reader holds a copy of every issued credential (a live connection does).
\* The copy is outdated once status or scopes differ, until it is read again.
TrackCopies(reread) ==
    outdated' = (outdated \cup
                    {j \in Ids : /\ cred[j].status # "absent"
                                 /\ View(cred'[j]) # View(cred[j])}) \ reread

Absent == {i \in Ids : cred[i].status = "absent"}

-----------------------------------------------------------------------------
(***************************************************************************)
(* issueCredential on store c.  At the limit the oldest credential is      *)
(* revoked; only then are the remaining ones searched for the same policy, *)
(* and a record is stored when none is found.                              *)
(***************************************************************************)
IssueCredential(c, rv, st, rk, req) ==
    LET evicted == Evicted(c, req.operatorId)
        c1      == Revoked(c, evicted)
        hash    == PolicyHash(req.scopes, req.chatIds)
        same    == {i \in ActiveFor(c1, req.operatorId) : c1[i].policyHash = hash}
    IN
    /\ reveals' = CleanedUp(rv, evicted)
    /\ stale' = st \cup Mutated(evicted, RevokeFields)
    /\ revocations' = rk \cup evicted
    /\ \/ same # {} /\ cred' = c1
       \/ /\ same = {}
          /\ \E i \in Absent :
                /\ \A j \in Absent : i <= j
                /\ cred' = [c1 EXCEPT ![i] =
                      [operatorId    |-> req.operatorId,
                       chatIds       |-> req.chatIds,
                       scopes        |-> req.scopes,
                       policyHash    |-> hash,
                       status        |-> "active",
                       lastHeartbeat |-> now,
                       issuedAt      |-> now,
                       expiresAt     |-> now + req.ttl,
                       ttl           |-> req.ttl,
                       revokedAt     |-> "null"]]
    /\ TrackCopies({})

\* service.issue with inline scopes: sweep, then issueCredential, no await.
Issue(req) ==
    /\ IssueCredential(Swept,
                       CleanedUp(reveals, SweptExpired \cup SweptRevoked),
                       stale \cup SweptStale,
                       revocations \cup SweptRevoked, req)
    /\ sweptNow' = TRUE
    /\ UNCHANGED <<now, resolving, revealing, handling>>

\* The state change every sweepExpired call makes; reread is the credential
\* the caller goes on to read for its reader, if any.
SweepExpired(reread) ==
    /\ cred' = Swept
    /\ stale' = (stale \ reread) \cup SweptStale
    /\ TrackCopies(reread)
    /\ reveals' = CleanedUp(reveals, SweptExpired \cup SweptRevoked)
    /\ revocations' = revocations \cup SweptRevoked
    /\ sweptNow' = TRUE

\* service.issue with a policyId: sweep, then wait for the policy manager.
IssueWithPolicy(req) ==
    /\ MayWait
    /\ req \notin resolving
    /\ SweepExpired({})
    /\ resolving' = resolving \cup {req}
    /\ UNCHANGED <<now, revealing, handling>>

\* The policy is resolved: issueCredential runs, with no second sweep.
PolicyResolved(req) ==
    /\ req \in resolving
    /\ IssueCredential(cred, reveals, stale, revocations, req)
    /\ resolving' = resolving \ {req}
    /\ UNCHANGED <<now, revealing, handling, sweptNow>>

\* The policy lookup fails: the issue returns the error.
PolicyNotFound(req) ==
    /\ req \in resolving
    /\ resolving' = resolving \ {req}
    /\ UNCHANGED <<cred, now, reveals, revealing, handling, stale,
                   outdated, revocations, sweptNow>>

\* service.list and service.lookup: a sweep, then a read.
Lookup ==
    /\ SweepExpired({})
    /\ UNCHANGED <<now, resolving, revealing, handling>>

\* getCredentialByToken.  Past its expiry the record is marked expired
\* whatever its status was, and its reveals stay; otherwise nothing changes
\* and an active record is returned.
LookupByToken(i) ==
    /\ cred[i].status # "absent"
    /\ IF now >= cred[i].expiresAt
       THEN /\ cred' = [cred EXCEPT ![i].status = "expired"]
            /\ stale' = stale \cup Mutated({i}, {"status"})
       ELSE UNCHANGED <<cred, stale>>
    /\ TrackCopies({})
    /\ UNCHANGED <<now, reveals, resolving, revealing, handling, revocations,
                   sweptNow>>

\* The subscriber of onCredentialMutated re-reads the credential by
\* service.lookup, which sweeps first.
Reread(i) ==
    /\ i \in stale
    /\ SweepExpired({i})
    /\ UNCHANGED <<now, resolving, revealing, handling>>

\* Variant: a renewal without the status check that makes the record active.
RenewAnyCredential(i) ==
    /\ cred[i].status # "absent"
    /\ cred[i].expiresAt - now <= RenewalWindow
    /\ cred' = [cred EXCEPT ![i].expiresAt = now + cred[i].ttl,
                            ![i].status = "active"]
    /\ stale' = stale \cup Mutated({i}, {"expiresAt", "status"})
    /\ TrackCopies({})
    /\ UNCHANGED <<now, reveals, resolving, revealing, handling,
                   revocations, sweptNow>>

\* renewCredential: status and window are checked, the expiry is not.
RenewCredential(i) ==
    /\ cred[i].status = "active"
    /\ cred[i].expiresAt - now <= RenewalWindow
    /\ cred' = [cred EXCEPT ![i].expiresAt = now + cred[i].ttl]
    /\ stale' = stale \cup Mutated({i}, {"expiresAt"})
    /\ TrackCopies({})
    /\ UNCHANGED <<now, reveals, resolving, revealing, handling,
                   revocations, sweptNow>>

\* Variant: the revocation goes through mutateRecord only.
RevokeIdsSilently(ids) ==
    /\ cred' = Revoked(cred, ids)
    /\ TrackCopies({})
    /\ reveals' = CleanedUp(reveals, ids)
    /\ stale' = stale \cup Mutated(ids, RevokeFields)
    /\ UNCHANGED <<now, resolving, revealing, handling, revocations, sweptNow>>

\* revokeRecord on the records ids, with both hooks.
RevokeIds(ids) ==
    /\ cred' = Revoked(cred, ids)
    /\ TrackCopies({})
    /\ reveals' = CleanedUp(reveals, ids)
    /\ stale' = stale \cup Mutated(ids, RevokeFields)
    /\ revocations' = revocations \cup ids
    /\ UNCHANGED <<now, resolving, revealing, handling, sweptNow>>

\* revokeCredential: whatever the status is.
RevokeCredential(i) ==
    /\ cred[i].status # "absent"
    /\ RevokeIds({i})

\* revokeAllCredentials, called when an operator is removed.
RevokeAllCredentials(op) ==
    /\ ActiveFor(cred, op) # {}
    /\ RevokeIds(ActiveFor(cred, op))

\* Variant: the policy hash is left as it was.
ScopesUpdatedOnly(i, scopes) == [cred EXCEPT ![i].scopes = scopes]

\* updateCredentialScopes: scopes and policy hash change together.
ScopesUpdated(i, scopes) ==
    [cred EXCEPT ![i].scopes = scopes,
                 ![i].policyHash = PolicyHash(scopes, cred[i].chatIds)]

ScopeFields == {"effectiveScopes", "resolvedScopes", "policyHash"}

\* service.update once its scopes are known, and credential.updateScopes of
\* the admin once its lookup (an action of its own above: it awaits) has
\* returned: an escalation revokes the credential whatever its status is by
\* then, anything else applies in place to an active one.
Update(i, scopes) ==
    /\ cred[i].status # "absent"
    /\ \/ /\ RequiresReauthorization(cred[i].scopes, scopes)
          /\ RevokeIds({i})
       \/ /\ ~RequiresReauthorization(cred[i].scopes, scopes)
          /\ cred[i].status = "active"
          /\ cred' = ScopesUpdated(i, scopes)
          /\ stale' = stale \cup Mutated({i}, ScopeFields)
          /\ TrackCopies({})
          /\ UNCHANGED <<now, reveals, resolving, revealing, handling,
                         revocations, sweptNow>>

\* A harness request: handleRequestFrame looks the credential up again and
\* goes on when it is active ...
HarnessRequest(i) ==
    /\ MayWait
    /\ SweepExpired({})
    /\ Swept[i].status = "active"
    /\ handling' = handling \cup {i}
    /\ UNCHANGED <<now, resolving, revealing>>

\* ... the request is refused (stale heartbeat, credential no longer active),
\* or is one that leaves the store alone ...
HarnessRefused(i) ==
    /\ i \in handling
    /\ handling' = handling \ {i}
    /\ UNCHANGED <<cred, now, reveals, resolving, revealing, stale, outdated,
                   revocations, sweptNow>>

\* ... handleUpdateScopes: an escalation parks the credential in "pending"
\* with setCredentialStatus, whatever its status is by then.
HarnessUpdateScopes(i, scopes) ==
    /\ i \in handling
    /\ ~IsHeartbeatStale(cred[i])
    /\ handling' = handling \ {i}
    /\ \/ /\ RequiresReauthorization(cred[i].scopes, scopes)
          /\ cred' = [cred EXCEPT ![i].status = "pending"]
          /\ stale' = stale \cup Mutated({i}, {"status"})
       \/ /\ ~RequiresReauthorization(cred[i].scopes, scopes)
          /\ cred[i].status = "active"
          /\ cred' = ScopesUpdated(i, scopes)
          /\ stale' = stale \cup Mutated({i}, ScopeFields)
    /\ TrackCopies({})
    /\ UNCHANGED <<now, reveals, resolving, revealing, revocations,
                   sweptNow>>

\* ... handleHeartbeat: recordHeartbeat, refused when no longer active.
HarnessHeartbeat(i) ==
    /\ i \in handling
    /\ handling' = handling \ {i}
    /\ cred[i].status = "active"
    /\ cred' = [cred EXCEPT ![i].lastHeartbeat = now]
    /\ stale' = stale \cup Mutated({i}, {"lastHeartbeat"})
    /\ TrackCopies({})
    /\ UNCHANGED <<now, reveals, resolving, revealing, revocations,
                   sweptNow>>

\* ... handleRevealContent: the reveal is recorded for whatever chat it
\* names, with no look at the credential's status or chats.
HarnessReveal(i, r) ==
    /\ i \in handling
    /\ ~IsHeartbeatStale(cred[i])
    /\ handling' = handling \ {i}
    /\ reveals' = [reveals EXCEPT ![i] = @ \cup {r}]
    /\ UNCHANGED <<cred, now, resolving, revealing, stale, outdated, revocations,
                   sweptNow>>

\* reveal.request: sweep and look the credential up; go on when it is active
\* and covers the chat ...
RevealRequest(i, chat) ==
    /\ MayWait
    /\ SweepExpired({})
    /\ Swept[i].status = "active"
    /\ chat \in Swept[i].chatIds
    /\ revealing' = revealing \cup {<<i, chat>>}
    /\ UNCHANGED <<now, resolving, handling>>

\* ... and after the await record the reveal, with no second look.
RecordReveal(i, r) ==
    /\ <<i, r.chatId>> \in revealing
    /\ reveals' = [reveals EXCEPT ![i] = @ \cup {r}]
    /\ revealing' = revealing \ {<<i, r.chatId>>}
    /\ UNCHANGED <<cred, now, resolving, handling, stale, outdated, revocations,
                   sweptNow>>

Tick ==
    /\ now < MaxTime
    /\ now' = now + 1
    /\ sweptNow' = FALSE
    /\ UNCHANGED <<cred, reveals, resolving, revealing, handling, stale, outdated,
                   revocations>>

-----------------------------------------------------------------------------
Next ==
    \/ \E req \in IssueRequest : Issue(req) \/ IssueWithPolicy(req)
    \/ \E req \in resolving : PolicyResolved(req) \/ PolicyNotFound(req)
    \/ Lookup
    \/ \E i \in Ids :
          \/ LookupByToken(i)
          \/ Reread(i)
          \/ RenewCredential(i)
          \/ RevokeCredential(i)
          \/ HarnessRequest(i)
          \/ HarnessRefused(i)
          \/ HarnessHeartbeat(i)
          \/ \E scopes \in ScopeSets :
                Update(i, scopes) \/ HarnessUpdateScopes(i, scopes)
          \/ \E chat \in Chats : RevealRequest(i, chat)
          \/ \E r \in Reveal : RecordReveal(i, r) \/ HarnessReveal(i, r)
    \/ \E op \in Operators : RevokeAllCredentials(op)
    \/ Tick

Spec == Init /\ [][Next]_vars

-----------------------------------------------------------------------------
(***************************************************************************)
(* Properties                                                              *)
(***************************************************************************)

\* Type correctness of the store, its indexes and the pending calls.
TypeOK ==
    /\ cred \in [Ids -> CredentialRecord]
    /\ now \in Time
    /\ reveals \in [Ids -> SUBSET Reveal]
    /\ resolving \subseteq IssueRequest
    /\ revealing \subseteq Ids \X Chats
    /\ handling \subseteq Ids
    /\ stale \subseteq Ids
    /\ outdated \subseteq Ids
    /\ revocations \subseteq Ids
    /\ sweptNow \in BOOLEAN

\* maxConcurrentPerOperator: whatever mix of issues (inline, or resumed after
\* the policy lookup, with no sweep in between), updates, renewals and sweeps
\* ran, an operator never holds more active credentials than the limit.
ActiveWithinLimit ==
    \A op \in Operators : Cardinality(ActiveFor(cred, op)) <= MaxConcurrent

\* The stored policy hash is the hash of the stored scopes and chats: if an
\* update let the two drift apart, the dedup of issueCredential would hand out
\* a credential with other permissions than the ones asked for.
HashMatchesPolicy ==
    \A i \in Ids : cred[i].policyHash = PolicyHash(cred[i].scopes, cred[i].chatIds)

\* The push invalidation of mutateRecord is complete: a subscriber that holds
\* a copy of a credential either has the present status and scopes or has been
\* told to read again, whichever path changed the record (sweep, eviction,
\* update, token lookup, operator removal).
CopiesAreFreshOrStale ==
    outdated \subseteq stale

\* onCredentialRevoked is called for exactly the credentials that were
\* revoked: no revocation path (explicit, eviction, heartbeat timeout,
\* escalating update, operator removal) skips the seal layer, and an expiry
\* alone never reaches it.
RevocationsReported ==
    revocations = {i \in Ids : cred[i].revokedAt = "set"}

\* Right after a sweep (service.issue, list, lookup) and until the clock
\* moves, no active credential is past its expiry or its heartbeat deadline.
SweepLeavesNoneDead ==
    sweptNow =>
        \A i \in Ids : cred[i].status = "active" =>
            /\ now < cred[i].expiresAt
            /\ now < cred[i].lastHeartbeat + HeartbeatLimit

\* A credential that stopped being active (revoked, expired, or parked in
\* "pending") never becomes active again, and a revocation keeps its mark even
\* when a late token lookup or a racing harness request overwrites the status.
NeverReactivated ==
    [][\A i \in Ids :
          /\ cred[i].status \notin {"absent", "active"} => cred'[i].status # "active"
          /\ cred[i].revokedAt = "set" => cred'[i].revokedAt = "set"]_vars

-----------------------------------------------------------------------------
(***************************************************************************)
(* What the repository says and the code does not do                       *)
(***************************************************************************)

\* sessions/src/__tests__/credential-manager.test.ts, "rejects renewal on
\* expired credential": a credential whose expiry has passed is not extended.
\* renewCredential looks at the status only, which stays "active" until the
\* next sweep.
ExpiredIsNotRenewed ==
    [][\A i \in Ids :
          cred[i].status = "active" /\ now >= cred[i].expiresAt
              => cred'[i].expiresAt = cred[i].expiresAt]_vars

\* sessions/src/__tests__/reveal-state.test.ts, "cleans up reveal state when
\* credential is revoked": a revoked credential holds no reveals.  A reveal
\* request that passed its lookup before the revocation records after it.
RevokedHasNoReveals ==
    \A i \in Ids : cred[i].status = "revoked" => reveals[i] = {}
=============================================================================
