---------------------- MODULE CredentialManagerProofs ----------------------
(***************************************************************************)
(* Proofs about CredentialManager, for every number of operators, chats,   *)
(* scopes and credentials, every limit and every TTL.                      *)
(***************************************************************************)
EXTENDS CredentialManager, FiniteSetTheorems, WellFoundedInduction, TLAPS

-----------------------------------------------------------------------------
(***************************************************************************)
(* Lemmas about the store's operators                                      *)
(***************************************************************************)

Store == [Ids -> CredentialRecord]

\* The updates of one record that revokeRecord, setCredentialStatus,
\* recordHeartbeat, renewCredential and updateCredentialScopes make.
LEMMA RecordUpdates ==
  ASSUME NEW r \in CredentialRecord
  PROVE  /\ [r EXCEPT !.status = "revoked", !.revokedAt = "set"] \in CredentialRecord
         /\ \A status \in Status : [r EXCEPT !.status = status] \in CredentialRecord
         /\ \A t \in Nat : [r EXCEPT !.lastHeartbeat = t] \in CredentialRecord
         /\ \A t \in Nat : [r EXCEPT !.expiresAt = t] \in CredentialRecord
         /\ \A s \in AllScopeSets, h \in AllScopeSets \X SUBSET Chats :
               [r EXCEPT !.scopes = s, !.policyHash = h] \in CredentialRecord
  <1>1. [r EXCEPT !.status = "revoked", !.revokedAt = "set"] \in CredentialRecord
    BY DEF CredentialRecord, Status
  <1>2. \A status \in Status : [r EXCEPT !.status = status] \in CredentialRecord
    BY DEF CredentialRecord
  <1>3. \A t \in Nat : [r EXCEPT !.lastHeartbeat = t] \in CredentialRecord
    BY DEF CredentialRecord
  <1>4. \A t \in Nat : [r EXCEPT !.expiresAt = t] \in CredentialRecord
    BY DEF CredentialRecord
  <1>5. \A s \in AllScopeSets, h \in AllScopeSets \X SUBSET Chats :
               [r EXCEPT !.scopes = s, !.policyHash = h] \in CredentialRecord
    BY DEF CredentialRecord
  <1> QED
    BY <1>1, <1>2, <1>3, <1>4, <1>5

\* revokeRecord keeps the store well typed.
LEMMA RevokedType ==
  ASSUME NEW c \in Store, NEW ids
  PROVE  Revoked(c, ids) \in Store
  <1>1. \A i \in Ids : [c[i] EXCEPT !.status = "revoked", !.revokedAt = "set"]
                          \in CredentialRecord
    BY RecordUpdates DEF Store
  <1> QED
    BY <1>1 DEF Store, Revoked

\* setting one status keeps the store well typed.
LEMMA StatusType ==
  ASSUME cred \in Store, NEW i \in Ids, NEW status \in Status
  PROVE  [cred EXCEPT ![i].status = status] \in Store
  BY RecordUpdates DEF Store

\* sweepExpired keeps the store well typed.
LEMMA SweptType ==
  ASSUME cred \in Store
  PROVE  Swept \in Store
  <1>1. Revoked(cred, SweptRevoked) \in Store
    BY RevokedType
  <1>2. \A i \in Ids : [cred[i] EXCEPT !.status = "expired"] \in CredentialRecord
    BY RecordUpdates DEF Store, Status
  <1> QED
    BY <1>1, <1>2 DEF Swept, Store

\* The hook of mutateRecord names ids it was given.
LEMMA MutatedSubset ==
  ASSUME NEW ids, NEW fields
  PROVE  Mutated(ids, fields) \subseteq ids
  BY DEF Mutated

\* cleanupRevealState keeps the reveal stores well typed.
LEMMA CleanedUpType ==
  ASSUME NEW rv \in [Ids -> SUBSET Reveal], NEW ids
  PROVE  CleanedUp(rv, ids) \in [Ids -> SUBSET Reveal]
  BY DEF CleanedUp

\* Every id sweepExpired or issueCredential touches is an id.
LEMMA TouchedSubset ==
  /\ SweptExpired \subseteq Ids
  /\ SweptRevoked \subseteq Ids
  /\ SweptStale \subseteq Ids
  /\ \A c, op : Evicted(c, op) \subseteq Ids
  BY MutatedSubset DEF SweptExpired, SweptRevoked, SweptStale, Evicted

\* The clock and the requested lifetimes are integers.
LEMMA ClockType ==
  ASSUME TypeOK
  PROVE  now \in 0..MaxTime /\ now \in Nat
  <1>1. now \in 0..MaxTime
    BY DEF TypeOK, Time
  <1> QED
    BY <1>1

\* A ttl of the configuration is a positive number of seconds.
LEMMA TtlType == \A t \in Ttls : t \in Nat /\ t > 0
  BY LimitsAssumption

\* The type part of a step that sweeps.
LEMMA SweepType ==
  ASSUME TypeOK, NEW reread, SweepExpired(reread)
  PROVE  /\ cred' \in Store
         /\ reveals' \in [Ids -> SUBSET Reveal]
         /\ stale' \subseteq Ids
         /\ outdated' \subseteq Ids
         /\ revocations' \subseteq Ids
         /\ sweptNow' \in BOOLEAN
  <1>1. cred' \in Store
    BY SweptType DEF SweepExpired, TypeOK, Store
  <1>2. reveals' \in [Ids -> SUBSET Reveal]
    BY CleanedUpType DEF SweepExpired, TypeOK
  <1> QED
    BY <1>1, <1>2, TouchedSubset DEF SweepExpired, TypeOK, TrackCopies

\* The type part of issueCredential.
LEMMA IssueType ==
  ASSUME TypeOK, NEW c \in Store, NEW rv \in [Ids -> SUBSET Reveal],
         NEW st \in SUBSET Ids, NEW rk \in SUBSET Ids,
         NEW req \in IssueRequest, IssueCredential(c, rv, st, rk, req)
  PROVE  /\ cred' \in Store
         /\ reveals' \in [Ids -> SUBSET Reveal]
         /\ stale' \subseteq Ids
         /\ outdated' \subseteq Ids
         /\ revocations' \subseteq Ids
  <1> DEFINE evicted == Evicted(c, req.operatorId)
             c1 == Revoked(c, evicted)
             hash == PolicyHash(req.scopes, req.chatIds)
             fresh == [operatorId    |-> req.operatorId,
                       chatIds       |-> req.chatIds,
                       scopes        |-> req.scopes,
                       policyHash    |-> hash,
                       status        |-> "active",
                       lastHeartbeat |-> now,
                       issuedAt      |-> now,
                       expiresAt     |-> now + req.ttl,
                       ttl           |-> req.ttl,
                       revokedAt     |-> "null"]
  <1>1. c1 \in Store
    BY RevokedType
  <1>2. fresh \in CredentialRecord
    <2>1. /\ req.operatorId \in Operators
          /\ req.chatIds \in (SUBSET Chats) \ {{}}
          /\ req.scopes \in ScopeSets
          /\ req.ttl \in Ttls
      BY DEF IssueRequest
    <2>4. req.chatIds \in SUBSET Chats /\ req.scopes \in AllScopeSets
      BY <2>1, ScopesAssumption DEF AllScopeSets
    <2>2. now \in Nat /\ req.ttl \in Nat /\ now + req.ttl \in Nat
      BY <2>1, ClockType, TtlType
    <2>3. hash \in AllScopeSets \X SUBSET Chats
      BY <2>4 DEF PolicyHash
    <2> QED
      BY <2>1, <2>2, <2>3, <2>4 DEF CredentialRecord, Status
  <1>3. cred' = c1 \/ \E i \in Ids : cred' = [c1 EXCEPT ![i] = fresh]
    BY DEF IssueCredential, Absent
  <1>4. cred' \in Store
    BY <1>1, <1>2, <1>3 DEF Store
  <1>5. reveals' \in [Ids -> SUBSET Reveal]
    BY CleanedUpType DEF IssueCredential
  <1>6. Mutated(evicted, RevokeFields) \subseteq Ids /\ evicted \subseteq Ids
    BY MutatedSubset, TouchedSubset
  <1> QED
    BY <1>4, <1>5, <1>6 DEF IssueCredential, TypeOK, TrackCopies

-----------------------------------------------------------------------------
(***************************************************************************)
(* Type correctness                                                        *)
(***************************************************************************)

\* The empty store of createCredentialManager is well typed.
LEMMA InitType == Init => TypeOK
  <1>1. [allow |-> {}, deny |-> {}] \in AllScopeSets
    BY DEF AllScopeSets
  <1>2. Blank \in CredentialRecord
    BY <1>1 DEF Blank, CredentialRecord, Status, PolicyHash
  <1>3. 0 \in 0..MaxTime
    BY LimitsAssumption
  <1> QED
    BY <1>2, <1>3 DEF Init, TypeOK, Time

\* Every operation of the credential manager and of the request handler keeps
\* the store well typed.
LEMMA NextType == TypeOK /\ [Next]_vars => TypeOK'
  <1> SUFFICES ASSUME TypeOK, [Next]_vars
               PROVE  TypeOK'
    OBVIOUS
  <1>1. ASSUME NEW req \in IssueRequest, Issue(req)
        PROVE  TypeOK'
    <2>1. Swept \in Store
      BY SweptType DEF TypeOK, Store
    <2>2. CleanedUp(reveals, SweptExpired \cup SweptRevoked) \in [Ids -> SUBSET Reveal]
      BY CleanedUpType DEF TypeOK
    <2>3. stale \cup SweptStale \in SUBSET Ids /\ revocations \cup SweptRevoked \in SUBSET Ids
      BY TouchedSubset DEF TypeOK
    <2>4. IssueCredential(Swept,
                       CleanedUp(reveals, SweptExpired \cup SweptRevoked),
                       stale \cup SweptStale,
                       revocations \cup SweptRevoked, req)
      BY <1>1 DEF Issue
    <2>5. /\ cred' \in Store
          /\ reveals' \in [Ids -> SUBSET Reveal]
          /\ stale' \subseteq Ids
          /\ outdated' \subseteq Ids
          /\ revocations' \subseteq Ids
      BY <2>1, <2>2, <2>3, <2>4, IssueType
    <2> QED
      BY <1>1, <2>5 DEF Issue, TypeOK, Store
  <1>2. ASSUME NEW req \in IssueRequest, IssueWithPolicy(req)
        PROVE  TypeOK'
    BY <1>2, SweepType DEF IssueWithPolicy, TypeOK, Store
  <1>3. ASSUME NEW req \in resolving, PolicyResolved(req)
        PROVE  TypeOK'
    <2>1. /\ cred' \in Store
          /\ reveals' \in [Ids -> SUBSET Reveal]
          /\ stale' \subseteq Ids
          /\ outdated' \subseteq Ids
          /\ revocations' \subseteq Ids
      BY <1>3, IssueType DEF PolicyResolved, TypeOK, Store
    <2> QED
      BY <1>3, <2>1 DEF PolicyResolved, TypeOK, Store
  <1>4. ASSUME NEW req \in resolving, PolicyNotFound(req)
        PROVE  TypeOK'
    BY <1>4 DEF PolicyNotFound, TypeOK
  <1>5. CASE Lookup
    BY <1>5, SweepType DEF Lookup, TypeOK, Store
  <1>6. ASSUME NEW i \in Ids, LookupByToken(i)
        PROVE  TypeOK'
    <2>1. cred' \in Store
      BY <1>6, StatusType DEF LookupByToken, TypeOK, Store, Status
    <2> QED
      BY <1>6, <2>1, MutatedSubset DEF LookupByToken, TypeOK, TrackCopies, Store
  <1>7. ASSUME NEW i \in Ids, Reread(i)
        PROVE  TypeOK'
    BY <1>7, SweepType DEF Reread, TypeOK, Store
  <1>8. ASSUME NEW i \in Ids, RenewCredential(i)
        PROVE  TypeOK'
    <2>1. now + cred[i].ttl \in Nat
      BY DEF TypeOK, CredentialRecord, Time
    <2>2. [cred EXCEPT ![i].expiresAt = now + cred[i].ttl] \in Store
      BY <2>1, RecordUpdates DEF TypeOK, Store
    <2> QED
      BY <1>8, <2>1, <2>2, MutatedSubset DEF RenewCredential, TypeOK, TrackCopies, Store
  <1>9. ASSUME NEW ids \in SUBSET Ids, RevokeIds(ids)
        PROVE  TypeOK'
    <2>1. cred' \in Store
      BY <1>9, RevokedType DEF RevokeIds, TypeOK, Store
    <2>2. reveals' \in [Ids -> SUBSET Reveal]
      BY <1>9, CleanedUpType DEF RevokeIds, TypeOK
    <2> QED
      BY <1>9, <2>1, <2>2, MutatedSubset DEF RevokeIds, TypeOK, TrackCopies, Store
  <1>10. ASSUME NEW i \in Ids, RevokeCredential(i)
         PROVE  TypeOK'
    BY <1>9, <1>10 DEF RevokeCredential
  <1>11. ASSUME NEW i \in Ids, HarnessRequest(i)
         PROVE  TypeOK'
    BY <1>11, SweepType DEF HarnessRequest, TypeOK, Store
  <1>12. ASSUME NEW i \in Ids, HarnessRefused(i) \/ HarnessHeartbeat(i)
         PROVE  TypeOK'
    <2>1. CASE HarnessRefused(i)
      BY <2>1 DEF HarnessRefused, TypeOK
    <2>2. CASE HarnessHeartbeat(i)
      <3>1. [cred EXCEPT ![i].lastHeartbeat = now] \in Store
        BY RecordUpdates, ClockType DEF TypeOK, Store
      <3> QED
        BY <2>2, <3>1, MutatedSubset DEF HarnessHeartbeat, TypeOK, TrackCopies, Store
    <2> QED
      BY <1>12, <2>1, <2>2
  <1>13. ASSUME NEW i \in Ids, NEW scopes \in ScopeSets
         PROVE  ScopesUpdated(i, scopes) \in Store
    <2> DEFINE hash == PolicyHash(scopes, cred[i].chatIds)
    <2>1. scopes \in AllScopeSets
      BY ScopesAssumption DEF AllScopeSets
    <2>2. cred[i] \in CredentialRecord
      BY DEF TypeOK
    <2>3. cred[i].chatIds \in SUBSET Chats
      BY <2>2 DEF CredentialRecord
    <2>4. hash \in AllScopeSets \X SUBSET Chats
      BY <2>1, <2>3 DEF PolicyHash
    <2>5. [cred[i] EXCEPT !.scopes = scopes, !.policyHash = hash] \in CredentialRecord
      BY <2>1, <2>2, <2>4, RecordUpdates
    <2>6. ScopesUpdated(i, scopes) =
            [cred EXCEPT ![i] = [cred[i] EXCEPT !.scopes = scopes, !.policyHash = hash]]
      BY DEF ScopesUpdated, TypeOK
    <2> QED
      BY <2>5, <2>6 DEF TypeOK, Store
  <1>14. ASSUME NEW i \in Ids, NEW scopes \in ScopeSets, Update(i, scopes)
         PROVE  TypeOK'
    BY <1>9, <1>13, <1>14, MutatedSubset DEF Update, TypeOK, TrackCopies, Store
  <1>15. ASSUME NEW i \in Ids, NEW scopes \in ScopeSets,
                HarnessUpdateScopes(i, scopes)
         PROVE  TypeOK'
    <2>1. [cred EXCEPT ![i].status = "pending"] \in Store
      <3>1. "pending" \in Status
        BY DEF Status
      <3> QED
        BY <3>1, StatusType DEF TypeOK, Store
    <2> QED
      <3>1. cred' \in Store
        BY <1>13, <1>15, <2>1 DEF HarnessUpdateScopes
      <3>2. stale' \subseteq Ids /\ outdated' \subseteq Ids
        BY <1>15, MutatedSubset DEF HarnessUpdateScopes, TrackCopies, TypeOK
      <3> QED
        BY <1>15, <3>1, <3>2 DEF HarnessUpdateScopes, TypeOK, Store
  <1>16. ASSUME NEW i \in Ids, NEW chat \in Chats, RevealRequest(i, chat)
         PROVE  TypeOK'
    BY <1>16, SweepType DEF RevealRequest, TypeOK, Store
  <1>17. ASSUME NEW i \in Ids, NEW r \in Reveal,
                RecordReveal(i, r) \/ HarnessReveal(i, r)
         PROVE  TypeOK'
    <2>1. [reveals EXCEPT ![i] = @ \cup {r}] \in [Ids -> SUBSET Reveal]
      BY DEF TypeOK
    <2>2. CASE RecordReveal(i, r)
      BY <2>1, <2>2 DEF RecordReveal, TypeOK
    <2>3. CASE HarnessReveal(i, r)
      BY <2>1, <2>3 DEF HarnessReveal, TypeOK
    <2> QED
      BY <1>17, <2>2, <2>3
  <1>18. ASSUME NEW op \in Operators, RevokeAllCredentials(op)
         PROVE  TypeOK'
    BY <1>9, <1>18 DEF RevokeAllCredentials, ActiveFor
  <1>19. CASE Tick
    <2>1. now' \in 0..MaxTime
      BY <1>19, ClockType, LimitsAssumption DEF Tick
    <2> QED
      BY <1>19, <2>1 DEF Tick, TypeOK, Time
  <1>20. CASE UNCHANGED vars
    BY <1>20 DEF vars, TypeOK
  <1> QED
    BY <1>1, <1>2, <1>3, <1>4, <1>5, <1>6, <1>7, <1>8, <1>10, <1>11, <1>12,
       <1>14, <1>15, <1>16, <1>17, <1>18, <1>19, <1>20 DEF Next

\* The store, the pending calls and the hooks stay well typed.
THEOREM TypeCorrect == Spec => []TypeOK
  BY InitType, NextType, PTL DEF Spec

-----------------------------------------------------------------------------
(***************************************************************************)
(* What one step may do to one record.  The invariants about single        *)
(* records, and NeverReactivated, follow from it.  Sound is the inductive  *)
(* strengthening: a record's hash fits its policy, an id without a record  *)
(* is not marked revoked, and a stored record has a positive TTL (which is *)
(* what makes a renewal give it some time to live).                        *)
(***************************************************************************)

Sound(r) ==
    /\ r.policyHash = PolicyHash(r.scopes, r.chatIds)
    /\ r.status = "absent" => r.revokedAt = "null"
    /\ r.status # "absent" => r.ttl > 0

Ended(r) == r.status \in {"pending", "expired", "revoked"}

RecordStep(r, s) ==
    Sound(r) =>
        /\ Sound(s)
        /\ r.status # "absent" => s.status # "absent"
        /\ Ended(r) => Ended(s)
        /\ r.revokedAt = "set" => s.revokedAt = "set"

\* A step of a record that is not its creation: what is active afterwards was
\* active before, for the same operator.
RecordUpdate(r, s) ==
    /\ RecordStep(r, s)
    /\ s.status = "active" => r.status = "active" /\ s.operatorId = r.operatorId

\* Two updates of one record in a row are a step.
LEMMA RecordUpdateTrans ==
  ASSUME NEW r, NEW s, NEW t, RecordUpdate(r, s), RecordUpdate(s, t)
  PROVE  RecordUpdate(r, t)
  BY DEF RecordUpdate, RecordStep

\* A store that is left alone is an admissible update of itself.
LEMMA RecordUpdateRefl ==
  ASSUME NEW r
  PROVE  RecordUpdate(r, r)
  BY DEF RecordUpdate, RecordStep

\* revokeRecord, setCredentialStatus, recordHeartbeat and renewCredential
\* keep the policy of the record and its mark.
LEMMA RecordUpdateSteps ==
  ASSUME NEW r \in CredentialRecord, r.status # "absent"
  PROVE  /\ RecordUpdate(r, [r EXCEPT !.status = "revoked", !.revokedAt = "set"])
         /\ RecordUpdate(r, [r EXCEPT !.status = "expired"])
         /\ RecordUpdate(r, [r EXCEPT !.status = "pending"])
         /\ \A t : RecordUpdate(r, [r EXCEPT !.lastHeartbeat = t])
         /\ \A t : RecordUpdate(r, [r EXCEPT !.expiresAt = t])
         /\ \A scopes : RecordUpdate(r, [r EXCEPT !.scopes = scopes,
                                  !.policyHash = PolicyHash(scopes, r.chatIds)])
  <1>1. RecordUpdate(r, [r EXCEPT !.status = "revoked", !.revokedAt = "set"])
    BY DEF CredentialRecord, RecordUpdate, RecordStep, Sound, Ended
  <1>2. RecordUpdate(r, [r EXCEPT !.status = "expired"])
    BY DEF CredentialRecord, RecordUpdate, RecordStep, Sound, Ended
  <1>3. RecordUpdate(r, [r EXCEPT !.status = "pending"])
    BY DEF CredentialRecord, RecordUpdate, RecordStep, Sound, Ended
  <1>4. \A t : RecordUpdate(r, [r EXCEPT !.lastHeartbeat = t])
    BY DEF CredentialRecord, RecordUpdate, RecordStep, Sound, Ended
  <1>5. \A t : RecordUpdate(r, [r EXCEPT !.expiresAt = t])
    BY DEF CredentialRecord, RecordUpdate, RecordStep, Sound, Ended
  <1>6. \A scopes : RecordUpdate(r, [r EXCEPT !.scopes = scopes,
                                  !.policyHash = PolicyHash(scopes, r.chatIds)])
    BY DEF CredentialRecord, RecordUpdate, RecordStep, Sound, Ended
  <1> QED
    BY <1>1, <1>2, <1>3, <1>4, <1>5, <1>6

\* Revoking stored records is a step of each record.
LEMMA RevokedStep ==
  ASSUME NEW c \in Store, NEW ids, \A j \in ids : c[j].status # "absent"
  PROVE  \A i \in Ids : RecordUpdate(c[i], Revoked(c, ids)[i])
  BY RecordUpdateSteps, RecordUpdateRefl DEF Revoked, Store

\* A sweep is a step of each record.
LEMMA SweptStep ==
  ASSUME cred \in Store
  PROVE  \A i \in Ids : RecordUpdate(cred[i], Swept[i])
  <1>1. \A j \in SweptRevoked : cred[j].status # "absent"
    BY DEF SweptRevoked, HeartbeatDead
  <1>2. \A i \in Ids : RecordUpdate(cred[i], Revoked(cred, SweptRevoked)[i])
    BY <1>1, RevokedStep
  <1>3. \A i \in SweptExpired : RecordUpdate(cred[i], [cred[i] EXCEPT !.status = "expired"])
    BY RecordUpdateSteps DEF SweptExpired, TtlExpired, Store
  <1> QED
    BY <1>2, <1>3 DEF Swept

\* Evicting from a store whose stored records are those of cred, and storing a
\* record in a free id, is a step of each record of cred.
LEMMA IssueStep ==
  ASSUME TypeOK, NEW c \in Store, NEW rv, NEW st, NEW rk,
         NEW req \in IssueRequest, IssueCredential(c, rv, st, rk, req),
         \A i \in Ids : RecordUpdate(cred[i], c[i])
  PROVE  \A i \in Ids : RecordStep(cred[i], cred'[i])
  <1> DEFINE evicted == Evicted(c, req.operatorId)
             c1 == Revoked(c, evicted)
             fresh == [operatorId    |-> req.operatorId,
                       chatIds       |-> req.chatIds,
                       scopes        |-> req.scopes,
                       policyHash    |-> PolicyHash(req.scopes, req.chatIds),
                       status        |-> "active",
                       lastHeartbeat |-> now,
                       issuedAt      |-> now,
                       expiresAt     |-> now + req.ttl,
                       ttl           |-> req.ttl,
                       revokedAt     |-> "null"]
  <1>1. \A j \in evicted : c[j].status # "absent"
    BY DEF Evicted, IsOldest, ActiveFor
  <1>2. \A i \in Ids : RecordUpdate(c[i], c1[i])
    BY <1>1, RevokedStep
  <1>3. \A i \in Ids : RecordUpdate(cred[i], c1[i])
    BY <1>2, RecordUpdateTrans
  <1>4. req.ttl > 0
    BY TtlType DEF IssueRequest
  <1>5. Sound(fresh)
    BY <1>4 DEF Sound
  <1>6. \A i \in Absent : RecordStep(cred[i], fresh)
    BY <1>5 DEF RecordStep, Absent, Ended, Sound
  <1>7. cred' = c1 \/ \E i \in Absent : cred' = [c1 EXCEPT ![i] = fresh]
    BY DEF IssueCredential
  <1>8. c1 \in Store
    BY RevokedType
  <1>9. CASE cred' = c1
    BY <1>3, <1>9 DEF RecordUpdate
  <1>10. ASSUME NEW k \in Absent, cred' = [c1 EXCEPT ![k] = fresh]
         PROVE  \A i \in Ids : RecordStep(cred[i], cred'[i])
    <2> HIDE DEF fresh, c1
    <2>1. \A i \in Ids : cred'[i] = IF i = k THEN fresh ELSE c1[i]
      BY <1>8, <1>10 DEF Store
    <2> QED
      BY <1>3, <1>6, <1>10, <2>1 DEF RecordUpdate
  <1> QED
    BY <1>7, <1>9, <1>10

\* A step that sweeps is a step of each record.
LEMMA SweepStep ==
  ASSUME TypeOK, NEW reread, SweepExpired(reread)
  PROVE  \A i \in Ids : RecordUpdate(cred[i], cred'[i])
  BY SweptStep DEF SweepExpired, TypeOK, Store

\* The step that updates scopes.
LEMMA ScopesStep ==
  ASSUME TypeOK, NEW k \in Ids, NEW scopes, cred[k].status # "absent"
  PROVE  \A i \in Ids : RecordUpdate(cred[i], ScopesUpdated(k, scopes)[i])
  <1>1. \A i \in Ids : ScopesUpdated(k, scopes)[i] =
           IF i = k THEN [cred[k] EXCEPT !.scopes = scopes,
                            !.policyHash = PolicyHash(scopes, cred[k].chatIds)]
           ELSE cred[i]
    BY DEF ScopesUpdated, TypeOK
  <1>2. RecordUpdate(cred[k], [cred[k] EXCEPT !.scopes = scopes,
                            !.policyHash = PolicyHash(scopes, cred[k].chatIds)])
    BY RecordUpdateSteps DEF TypeOK
  <1> QED
    BY <1>1, <1>2, RecordUpdateRefl

\* Every step of the system but an issue updates records in place.
LEMMA OtherStep ==
  ASSUME TypeOK, [Next]_vars,
         \A i \in handling : cred[i].status # "absent",
         ~ \E req \in IssueRequest : Issue(req) \/ PolicyResolved(req)
  PROVE  \A i \in Ids : RecordUpdate(cred[i], cred'[i])
  <1> USE RecordUpdateRefl
  <1> DEFINE Goal == \A i \in Ids : RecordUpdate(cred[i], cred'[i])
  <1>2. ASSUME NEW req \in IssueRequest, IssueWithPolicy(req)
        PROVE  Goal
    BY <1>2, SweepStep DEF IssueWithPolicy
  <1>3. \A req \in IssueRequest : ~Issue(req) /\ ~PolicyResolved(req)
    OBVIOUS
  <1>1. \A req \in resolving : req \in IssueRequest
    BY DEF TypeOK
  <1>4. ASSUME NEW req \in resolving, PolicyNotFound(req)
        PROVE  Goal
    BY <1>4 DEF PolicyNotFound
  <1>5. CASE Lookup
    BY <1>5, SweepStep DEF Lookup
  <1>6. ASSUME NEW i \in Ids, LookupByToken(i)
        PROVE  Goal
    BY <1>6, RecordUpdateSteps DEF LookupByToken, TypeOK
  <1>7. ASSUME NEW i \in Ids, Reread(i)
        PROVE  Goal
    BY <1>7, SweepStep DEF Reread
  <1>8. ASSUME NEW i \in Ids, RenewCredential(i)
        PROVE  Goal
    BY <1>8, RecordUpdateSteps DEF RenewCredential, TypeOK
  <1>9. ASSUME NEW ids \in SUBSET Ids, RevokeIds(ids),
               \A j \in ids : cred[j].status # "absent"
        PROVE  Goal
    BY <1>9, RevokedStep DEF RevokeIds, TypeOK, Store
  <1>10. ASSUME NEW i \in Ids, RevokeCredential(i)
         PROVE  Goal
    BY <1>9, <1>10 DEF RevokeCredential
  <1>11. ASSUME NEW i \in Ids, HarnessRequest(i)
         PROVE  Goal
    BY <1>11, SweepStep DEF HarnessRequest
  <1>12. ASSUME NEW i \in Ids, HarnessRefused(i)
         PROVE  Goal
    BY <1>12 DEF HarnessRefused
  <1>13. ASSUME NEW i \in Ids, HarnessHeartbeat(i)
         PROVE  Goal
    BY <1>13, RecordUpdateSteps DEF HarnessHeartbeat, TypeOK
  <1>14. ASSUME NEW i \in Ids, NEW scopes \in ScopeSets, Update(i, scopes)
         PROVE  Goal
    BY <1>9, <1>14, ScopesStep DEF Update
  <1>15. ASSUME NEW i \in Ids, NEW scopes \in ScopeSets,
                HarnessUpdateScopes(i, scopes)
         PROVE  Goal
    <2>1. cred[i].status # "absent"
      BY <1>15 DEF HarnessUpdateScopes
    <2>2. CASE cred' = [cred EXCEPT ![i].status = "pending"]
      BY <2>1, <2>2, RecordUpdateSteps DEF TypeOK
    <2>3. CASE cred' = ScopesUpdated(i, scopes)
      BY <2>1, <2>3, ScopesStep
    <2> QED
      BY <1>15, <2>2, <2>3 DEF HarnessUpdateScopes
  <1>16. ASSUME NEW i \in Ids, NEW chat \in Chats, RevealRequest(i, chat)
         PROVE  Goal
    BY <1>16, SweepStep DEF RevealRequest
  <1>17. ASSUME NEW i \in Ids, NEW r \in Reveal,
                RecordReveal(i, r) \/ HarnessReveal(i, r)
         PROVE  Goal
    BY <1>17 DEF RecordReveal, HarnessReveal
  <1>18. ASSUME NEW op \in Operators, RevokeAllCredentials(op)
         PROVE  Goal
    BY <1>9, <1>18 DEF RevokeAllCredentials, ActiveFor
  <1>19. CASE Tick
    BY <1>19 DEF Tick
  <1>20. CASE UNCHANGED vars
    BY <1>20 DEF vars
  <1> QED
    BY <1>1, <1>2, <1>3, <1>4, <1>5, <1>6, <1>7, <1>8, <1>10, <1>11, <1>12,
       <1>13, <1>14, <1>15, <1>16, <1>17, <1>18, <1>19, <1>20 DEF Next

\* Every step of the system is a step of each record.
LEMMA StoreStep ==
  ASSUME TypeOK, [Next]_vars,
         \A i \in handling : cred[i].status # "absent"
  PROVE  \A i \in Ids : RecordStep(cred[i], cred'[i])
  <1>1. ASSUME NEW req \in IssueRequest, Issue(req)
        PROVE  \A i \in Ids : RecordStep(cred[i], cred'[i])
    <2>1. Swept \in Store /\ \A i \in Ids : RecordUpdate(cred[i], Swept[i])
      BY SweptType, SweptStep DEF TypeOK, Store
    <2> QED
      BY <1>1, <2>1, IssueStep DEF Issue
  <1>2. ASSUME NEW req \in IssueRequest, PolicyResolved(req)
        PROVE  \A i \in Ids : RecordStep(cred[i], cred'[i])
    <2>1. cred \in Store
      BY DEF TypeOK, Store
    <2> QED
      BY <1>2, <2>1, IssueStep, RecordUpdateRefl DEF PolicyResolved
  <1> QED
    BY <1>1, <1>2, OtherStep DEF RecordUpdate

-----------------------------------------------------------------------------
(***************************************************************************)
(* The records stay sound                                                  *)
(***************************************************************************)

RecordsSound ==
    /\ \A i \in Ids : Sound(cred[i])
    /\ \A i \in handling : cred[i].status # "absent"

\* The empty store is sound.
LEMMA InitSound == Init => RecordsSound
  <1>1. Sound(Blank)
    BY DEF Sound, Blank
  <1> QED
    BY <1>1 DEF Init, RecordsSound


\* A request is only handled for a stored record.
LEMMA HandledStored ==
  ASSUME TypeOK, [Next]_vars, NEW i \in Ids, i \in handling', i \notin handling
  PROVE  cred'[i].status # "absent"
  <1>1. HarnessRequest(i) => cred'[i].status # "absent"
    BY DEF HarnessRequest, SweepExpired
  <1>2. HarnessRequest(i)
    BY DEF Next, vars, Issue, IssueWithPolicy, PolicyResolved, PolicyNotFound,
       Lookup, LookupByToken, Reread, RenewCredential, RevokeCredential,
       HarnessRequest, HarnessRefused, HarnessHeartbeat, Update, RevokeIds,
       HarnessUpdateScopes, RevealRequest, RecordReveal, HarnessReveal,
       RevokeAllCredentials, Tick
  <1> QED
    BY <1>1, <1>2

\* Every operation keeps the records sound.
LEMMA NextSound == TypeOK /\ RecordsSound /\ [Next]_vars => RecordsSound'
  <1> SUFFICES ASSUME TypeOK, RecordsSound, [Next]_vars
               PROVE  RecordsSound'
    OBVIOUS
  <1>1. \A i \in Ids : RecordStep(cred[i], cred'[i])
    BY StoreStep DEF RecordsSound
  <1>2. \A i \in Ids : Sound(cred'[i])
    BY <1>1 DEF RecordsSound, RecordStep
  <1>3. \A i \in handling' : i \in Ids
    BY NextType DEF TypeOK
  <1>4. \A i \in handling' : cred'[i].status # "absent"
    BY <1>1, <1>3, HandledStored DEF RecordsSound, RecordStep
  <1> QED
    BY <1>2, <1>4 DEF RecordsSound

\* The records are sound in every reachable state.
THEOREM RecordsStaySound == Spec => [](TypeOK /\ RecordsSound)
  <1>1. Init => TypeOK /\ RecordsSound
    BY InitType, InitSound
  <1>2. TypeOK /\ RecordsSound /\ [Next]_vars => TypeOK' /\ RecordsSound'
    BY NextType, NextSound
  <1> QED
    BY <1>1, <1>2, PTL DEF Spec

\* The stored policy hash fits the stored policy in every reachable state.
THEOREM HashMatches == Spec => []HashMatchesPolicy
  <1>1. RecordsSound => HashMatchesPolicy
    BY DEF RecordsSound, HashMatchesPolicy, Sound
  <1> QED
    BY <1>1, RecordsStaySound, PTL

\* No step makes a credential active again or removes the mark of a
\* revocation.
THEOREM NeverActiveAgain == Spec => NeverReactivated
  <1>1. ASSUME TypeOK, RecordsSound, [Next]_vars
        PROVE  [\A i \in Ids :
                  /\ cred[i].status \notin {"absent", "active"} => cred'[i].status # "active"
                  /\ cred[i].revokedAt = "set" => cred'[i].revokedAt = "set"]_vars
    <2>1. \A i \in Ids : RecordStep(cred[i], cred'[i])
      BY <1>1, StoreStep DEF RecordsSound
    <2>2. \A i \in Ids : cred[i].status \in Status
      BY <1>1 DEF TypeOK, CredentialRecord
    <2>3. \A i \in Ids : Sound(cred[i])
      BY <1>1 DEF RecordsSound
    <2> QED
      BY <2>1, <2>2, <2>3 DEF RecordStep, Ended, Status
  <1> QED
    BY <1>1, RecordsStaySound, PTL DEF Spec, NeverReactivated

-----------------------------------------------------------------------------
(***************************************************************************)
(* The two hooks, onCredentialRevoked and onCredentialMutated, miss        *)
(* nothing                                                                 *)
(***************************************************************************)

Marked(c) == {i \in Ids : c[i].revokedAt = "set"}

\* mutateRecord reports a revocation, a status and a change of scopes.
LEMMA PolicyFieldsReported ==
  ASSUME NEW ids
  PROVE  /\ Mutated(ids, RevokeFields) = ids
         /\ Mutated(ids, {"status"}) = ids
         /\ Mutated(ids, ScopeFields) = ids
  BY DEF Mutated, RevokeFields, ScopeFields, PolicyFields

\* revokeRecord marks what it is given, and changes nothing else.
LEMMA RevokedMarks ==
  ASSUME NEW c \in Store, NEW ids \in SUBSET Ids
  PROVE  /\ Marked(Revoked(c, ids)) = Marked(c) \cup ids
         /\ \A i \in Ids : i \notin ids => Revoked(c, ids)[i] = c[i]
  <1>1. \A i \in Ids : Revoked(c, ids)[i].revokedAt =
                          IF i \in ids THEN "set" ELSE c[i].revokedAt
    BY DEF Revoked, Store, CredentialRecord
  <1> QED
    BY <1>1 DEF Marked, Revoked

\* A sweep marks what its heartbeat case revokes, and reports all it changes.
LEMMA SweptMarks ==
  ASSUME TypeOK
  PROVE  /\ Marked(Swept) = Marked(cred) \cup SweptRevoked
         /\ \A i \in Ids : i \notin SweptStale => Swept[i] = cred[i]
         /\ \A i \in Absent : Swept[i] = cred[i]
  <1>8. cred \in Store
    BY DEF TypeOK, Store
  <1>1. SweptStale = SweptExpired \cup SweptRevoked
    BY PolicyFieldsReported DEF SweptStale
  <1>2. /\ Marked(Revoked(cred, SweptRevoked)) = Marked(cred) \cup SweptRevoked
        /\ \A i \in Ids : i \notin SweptRevoked => Revoked(cred, SweptRevoked)[i] = cred[i]
    BY <1>8, RevokedMarks, TouchedSubset
  <1>3. \A i \in SweptExpired : i \notin SweptRevoked
    <2>1. ASSUME NEW i \in SweptExpired, i \in SweptRevoked
          PROVE  FALSE
      <3>1. now >= cred[i].expiresAt /\ now < cred[i].expiresAt /\ i \in Ids
        BY <2>1 DEF SweptExpired, SweptRevoked, TtlExpired, HeartbeatDead
      <3>2. cred[i].expiresAt \in Nat
        BY <1>8, <3>1 DEF Store, CredentialRecord
      <3> QED
        BY <3>1, <3>2, ClockType
    <2> QED
      BY <2>1
  <1>4. \A i \in SweptExpired : [cred[i] EXCEPT !.status = "expired"].revokedAt = cred[i].revokedAt
    BY <1>8 DEF SweptExpired, Store, CredentialRecord
  <1>5. \A i \in Ids : Swept[i].revokedAt = IF i \in SweptRevoked THEN "set" ELSE cred[i].revokedAt
    <2>1. \A i \in Ids : Revoked(cred, SweptRevoked)[i].revokedAt =
                          IF i \in SweptRevoked THEN "set" ELSE cred[i].revokedAt
      BY <1>8 DEF Revoked, Store, CredentialRecord
    <2> QED
      BY <1>3, <1>4, <2>1 DEF Swept
  <1>6. \A i \in Ids : i \notin SweptStale => Swept[i] = cred[i]
    BY <1>1, <1>2 DEF Swept
  <1>7. \A i \in Absent : i \notin SweptStale /\ i \in Ids
    BY <1>1 DEF Absent, SweptExpired, SweptRevoked, TtlExpired, HeartbeatDead
  <1> QED
    BY <1>5, <1>6, <1>7, TouchedSubset DEF Marked

Reported == RevocationsReported /\ CopiesAreFreshOrStale

\* A step that sweeps reports what it revokes and what it changes.
LEMMA SweepReports ==
  ASSUME TypeOK, Reported, NEW reread, SweepExpired(reread)
  PROVE  Reported'
  <1>1. /\ Marked(Swept) = Marked(cred) \cup SweptRevoked
        /\ \A i \in Ids : i \notin SweptStale => Swept[i] = cred[i]
    BY SweptMarks
  <1>2. Marked(cred') = Marked(cred) \cup SweptRevoked
    BY <1>1 DEF SweepExpired
  <1>3. RevocationsReported'
    BY <1>2 DEF SweepExpired, Reported, RevocationsReported, Marked
  <1>4. CopiesAreFreshOrStale'
    BY <1>1 DEF SweepExpired, TrackCopies, Reported, CopiesAreFreshOrStale, View
  <1> QED
    BY <1>3, <1>4 DEF Reported

\* issueCredential reports what it evicts.
LEMMA IssueReports ==
  ASSUME TypeOK, RecordsSound, CopiesAreFreshOrStale, NEW c \in Store, NEW rv,
         NEW st, NEW rk, NEW req \in IssueRequest,
         IssueCredential(c, rv, st, rk, req),
         stale \subseteq st, rk = Marked(c),
         \A i \in Ids : i \notin st => c[i] = cred[i],
         \A i \in Absent : c[i] = cred[i]
  PROVE  Reported'
  <1> DEFINE evicted == Evicted(c, req.operatorId)
             c1 == Revoked(c, evicted)
             fresh == [operatorId    |-> req.operatorId,
                       chatIds       |-> req.chatIds,
                       scopes        |-> req.scopes,
                       policyHash    |-> PolicyHash(req.scopes, req.chatIds),
                       status        |-> "active",
                       lastHeartbeat |-> now,
                       issuedAt      |-> now,
                       expiresAt     |-> now + req.ttl,
                       ttl           |-> req.ttl,
                       revokedAt     |-> "null"]
  <1>1. /\ Marked(c1) = Marked(c) \cup evicted
        /\ \A i \in Ids : i \notin evicted => c1[i] = c[i]
        /\ evicted \subseteq Ids
    BY RevokedMarks, TouchedSubset
  <1>2. /\ stale' = st \cup evicted
        /\ revocations' = rk \cup evicted
        /\ cred' = c1 \/ \E i \in Absent : cred' = [c1 EXCEPT ![i] = fresh]
        /\ TrackCopies({})
    BY PolicyFieldsReported DEF IssueCredential
  <1>3. \A i \in Absent : i \notin evicted /\ i \in Ids
    BY DEF Absent, Evicted, IsOldest, ActiveFor
  <1>4. \A i \in Absent : i \notin Marked(c1)
    <2>1. \A i \in Absent : cred[i].revokedAt = "null"
      BY DEF Absent, RecordsSound, Sound
    <2> QED
      BY <1>1, <1>3, <2>1 DEF Marked
  <1>5. fresh.revokedAt = "null"
    OBVIOUS
  <1>6. c1 \in Store
    BY RevokedType
  <1> HIDE DEF fresh, c1, evicted
  <1>7. Marked(cred') = Marked(c1)
    <2>1. CASE cred' = c1
      BY <2>1
    <2>2. ASSUME NEW k \in Absent, cred' = [c1 EXCEPT ![k] = fresh]
          PROVE  Marked(cred') = Marked(c1)
      <3>1. \A i \in Ids : cred'[i] = IF i = k THEN fresh ELSE c1[i]
        BY <1>6, <2>2 DEF Store
      <3>2. \A i \in Ids : cred'[i].revokedAt = "set" <=> c1[i].revokedAt = "set"
        BY <1>4, <1>5, <2>2, <3>1 DEF Marked
      <3> QED
        BY <3>2 DEF Marked
    <2> QED
      BY <1>2, <2>1, <2>2
  <1>8. RevocationsReported'
    <2>1. revocations' = Marked(cred')
      BY <1>1, <1>2, <1>7
    <2> QED
      BY <2>1 DEF RevocationsReported, Marked
  <1>9. \A i \in Ids : cred[i].status # "absent" /\ i \notin stale' => cred'[i] = cred[i]
    <2>1. \A i \in Ids : i \notin stale' => c1[i] = cred[i]
      BY <1>1, <1>2
    <2> QED
      BY <1>2, <1>6, <2>1 DEF Absent, Store
  <1>10. CopiesAreFreshOrStale'
    BY <1>2, <1>9 DEF TrackCopies, CopiesAreFreshOrStale, View
  <1> QED
    BY <1>8, <1>10 DEF Reported

\* A step that changes one record without marking it, and reports the change
\* when the reader's view differs.
LEMMA LocalReports ==
  ASSUME TypeOK, Reported, NEW k \in Ids, NEW r, cred' = [cred EXCEPT ![k] = r],
         r.revokedAt = cred[k].revokedAt, revocations' = revocations,
         stale \subseteq stale', TrackCopies({}),
         View(r) # View(cred[k]) => k \in stale'
  PROVE  Reported'
  <1>1. \A i \in Ids : cred'[i] = IF i = k THEN r ELSE cred[i]
    BY DEF TypeOK
  <1>2. RevocationsReported'
    BY <1>1 DEF Reported, RevocationsReported
  <1>3. \A i \in Ids : View(cred'[i]) # View(cred[i]) => i \in stale'
    BY <1>1
  <1>4. CopiesAreFreshOrStale'
    BY <1>3 DEF TrackCopies, Reported, CopiesAreFreshOrStale
  <1> QED
    BY <1>2, <1>4 DEF Reported

\* A step that leaves the store alone.
LEMMA IdleReports ==
  ASSUME Reported, UNCHANGED <<cred, stale, outdated, revocations>>
  PROVE  Reported'
  BY DEF Reported, RevocationsReported, CopiesAreFreshOrStale

\* Every operation hands the credentials it revokes to onCredentialRevoked, and
\* the ones whose view it changes to onCredentialMutated.
LEMMA NextReports ==
  ASSUME TypeOK, RecordsSound, Reported, [Next]_vars
  PROVE  Reported'
  <1>1. ASSUME NEW req \in IssueRequest, Issue(req)
        PROVE  Reported'
    <2>1. Swept \in Store
      BY SweptType DEF TypeOK, Store
    <2>2. revocations \cup SweptRevoked = Marked(Swept)
      BY SweptMarks DEF Reported, RevocationsReported, Marked
    <2>3. \A i \in Ids : i \notin stale \cup SweptStale => Swept[i] = cred[i]
      BY SweptMarks
    <2>4. \A i \in Absent : Swept[i] = cred[i]
      BY SweptMarks
    <2>5. IssueCredential(Swept,
                       CleanedUp(reveals, SweptExpired \cup SweptRevoked),
                       stale \cup SweptStale,
                       revocations \cup SweptRevoked, req)
      BY <1>1 DEF Issue
    <2> QED
      BY <2>1, <2>2, <2>3, <2>4, <2>5, IssueReports DEF Reported
  <1>2. ASSUME NEW req \in resolving, PolicyResolved(req)
        PROVE  Reported'
    <2>1. cred \in Store /\ req \in IssueRequest
      BY DEF TypeOK, Store
    <2>2. revocations = Marked(cred)
      BY DEF Reported, RevocationsReported, Marked
    <2>3. IssueCredential(cred, reveals, stale, revocations, req)
      BY <1>2 DEF PolicyResolved
    <2> QED
      BY <2>1, <2>2, <2>3, IssueReports DEF Reported
  <1>3. ASSUME NEW reread, SweepExpired(reread)
        PROVE  Reported'
    BY <1>3, SweepReports
  <1>4. ASSUME NEW req \in IssueRequest, IssueWithPolicy(req)
        PROVE  Reported'
    BY <1>3, <1>4 DEF IssueWithPolicy
  <1>5. CASE Lookup
    BY <1>3, <1>5 DEF Lookup
  <1>6. ASSUME NEW i \in Ids, Reread(i) \/ HarnessRequest(i)
        PROVE  Reported'
    BY <1>3, <1>6 DEF Reread, HarnessRequest
  <1>7. ASSUME NEW i \in Ids, NEW chat \in Chats, RevealRequest(i, chat)
        PROVE  Reported'
    BY <1>3, <1>7 DEF RevealRequest
  <1>8. ASSUME NEW k \in Ids, NEW s, [cred EXCEPT ![k].status = s] = cred',
               stale' = stale \cup Mutated({k}, {"status"}), TrackCopies({}),
               revocations' = revocations
        PROVE  Reported'
    <2> DEFINE r == [cred[k] EXCEPT !.status = s]
    <2>1. cred' = [cred EXCEPT ![k] = r]
      BY <1>8
    <2>2. r.revokedAt = cred[k].revokedAt
      BY DEF TypeOK, CredentialRecord
    <2>3. stale \subseteq stale' /\ k \in stale'
      BY <1>8, PolicyFieldsReported
    <2> HIDE DEF r
    <2> QED
      BY <1>8, <2>1, <2>2, <2>3, LocalReports
  <1>9. ASSUME NEW i \in Ids, LookupByToken(i)
        PROVE  Reported'
    <2>1. CASE now >= cred[i].expiresAt
      BY <1>8, <1>9, <2>1 DEF LookupByToken
    <2>2. CASE ~(now >= cred[i].expiresAt)
      <3>1. cred' = cred /\ stale' = stale /\ revocations' = revocations /\ outdated' = outdated
        BY <1>9, <2>2 DEF LookupByToken, TrackCopies
      <3> QED
        BY <3>1, IdleReports
    <2> QED
      BY <2>1, <2>2
  <1>10. ASSUME NEW k \in Ids, RenewCredential(k)
         PROVE  Reported'
    <2> DEFINE r == [cred[k] EXCEPT !.expiresAt = now + cred[k].ttl]
    <2>1. cred' = [cred EXCEPT ![k] = r] /\ stale \subseteq stale'
      BY <1>10 DEF RenewCredential
    <2>2. r.revokedAt = cred[k].revokedAt /\ View(r) = View(cred[k])
      BY DEF TypeOK, CredentialRecord, View
    <2> HIDE DEF r
    <2> QED
      BY <1>10, <2>1, <2>2, LocalReports DEF RenewCredential
  <1>11. ASSUME NEW k \in Ids, HarnessHeartbeat(k)
         PROVE  Reported'
    <2> DEFINE r == [cred[k] EXCEPT !.lastHeartbeat = now]
    <2>1. cred' = [cred EXCEPT ![k] = r] /\ stale \subseteq stale'
      BY <1>11 DEF HarnessHeartbeat
    <2>2. r.revokedAt = cred[k].revokedAt /\ View(r) = View(cred[k])
      BY DEF TypeOK, CredentialRecord, View
    <2> HIDE DEF r
    <2> QED
      BY <1>11, <2>1, <2>2, LocalReports DEF HarnessHeartbeat
  <1>12. ASSUME NEW ids \in SUBSET Ids, RevokeIds(ids)
         PROVE  Reported'
    <2>1. /\ Marked(cred') = Marked(cred) \cup ids
          /\ \A i \in Ids : i \notin ids => cred'[i] = cred[i]
      BY <1>12, RevokedMarks DEF RevokeIds, TypeOK, Store
    <2>2. stale' = stale \cup ids
      BY <1>12, PolicyFieldsReported DEF RevokeIds
    <2>3. RevocationsReported'
      BY <1>12, <2>1 DEF RevokeIds, Reported, RevocationsReported, Marked
    <2>4. CopiesAreFreshOrStale'
      BY <1>12, <2>1, <2>2 DEF RevokeIds, TrackCopies, Reported, CopiesAreFreshOrStale
    <2> QED
      BY <2>3, <2>4 DEF Reported
  <1>13. ASSUME NEW i \in Ids, RevokeCredential(i)
         PROVE  Reported'
    BY <1>12, <1>13 DEF RevokeCredential
  <1>14. ASSUME NEW op \in Operators, RevokeAllCredentials(op)
         PROVE  Reported'
    BY <1>12, <1>14 DEF RevokeAllCredentials, ActiveFor
  <1>15. ASSUME NEW k \in Ids, NEW scopes \in ScopeSets,
                cred' = ScopesUpdated(k, scopes),
                stale' = stale \cup Mutated({k}, ScopeFields), TrackCopies({}),
                revocations' = revocations
         PROVE  Reported'
    <2> DEFINE r == [cred[k] EXCEPT !.scopes = scopes,
                                    !.policyHash = PolicyHash(scopes, cred[k].chatIds)]
    <2>1. cred' = [cred EXCEPT ![k] = r]
      BY <1>15 DEF ScopesUpdated, TypeOK
    <2>2. r.revokedAt = cred[k].revokedAt
      BY DEF TypeOK, CredentialRecord
    <2>3. stale \subseteq stale' /\ k \in stale'
      BY <1>15, PolicyFieldsReported
    <2> HIDE DEF r
    <2> QED
      BY <1>15, <2>1, <2>2, <2>3, LocalReports
  <1>16. ASSUME NEW i \in Ids, NEW scopes \in ScopeSets, Update(i, scopes)
         PROVE  Reported'
    BY <1>12, <1>15, <1>16 DEF Update
  <1>17. ASSUME NEW i \in Ids, NEW scopes \in ScopeSets,
                HarnessUpdateScopes(i, scopes)
         PROVE  Reported'
    <2>1. CASE /\ cred' = [cred EXCEPT ![i].status = "pending"]
               /\ stale' = stale \cup Mutated({i}, {"status"})
      BY <1>8, <1>17, <2>1 DEF HarnessUpdateScopes
    <2>2. CASE /\ cred' = ScopesUpdated(i, scopes)
               /\ stale' = stale \cup Mutated({i}, ScopeFields)
      BY <1>15, <1>17, <2>2 DEF HarnessUpdateScopes
    <2> QED
      BY <1>17, <2>1, <2>2 DEF HarnessUpdateScopes
  <1>18. ASSUME NEW i \in Ids, NEW r \in Reveal,
                RecordReveal(i, r) \/ HarnessReveal(i, r)
         PROVE  Reported'
    BY <1>18, IdleReports DEF RecordReveal, HarnessReveal
  <1>19. ASSUME NEW i \in Ids, HarnessRefused(i)
         PROVE  Reported'
    BY <1>19, IdleReports DEF HarnessRefused
  <1>20. ASSUME NEW req \in resolving, PolicyNotFound(req)
         PROVE  Reported'
    BY <1>20, IdleReports DEF PolicyNotFound
  <1>21. CASE Tick \/ UNCHANGED vars
    BY <1>21, IdleReports DEF Tick, vars
  <1> QED
    BY <1>1, <1>2, <1>4, <1>5, <1>6, <1>7, <1>9, <1>10, <1>11, <1>13, <1>14,
       <1>16, <1>17, <1>18, <1>19, <1>20, <1>21 DEF Next

\* In the empty store nothing is revoked and nothing has to be reported.
LEMMA InitReports == Init => Reported
  BY DEF Init, Reported, RevocationsReported, CopiesAreFreshOrStale, Blank

\* The two hooks are complete in every reachable state: onCredentialRevoked has
\* been called for exactly the revoked credentials, and onCredentialMutated for
\* every reader's copy that is out of date.
THEOREM ReportsStay == Spec => []Reported
  <1>1. TypeOK /\ RecordsSound /\ Reported /\ [Next]_vars => Reported'
    BY NextReports
  <1> QED
    BY <1>1, InitReports, RecordsStaySound, PTL DEF Spec

\* onCredentialRevoked has been called for exactly the revoked credentials.
THEOREM RevocationsAreReported == Spec => []RevocationsReported
  <1>1. Reported => RevocationsReported
    BY DEF Reported
  <1> QED
    BY <1>1, ReportsStay, PTL

\* A copy with another status or other scopes has been invalidated.
THEOREM CopiesAreInvalidated == Spec => []CopiesAreFreshOrStale
  <1>1. Reported => CopiesAreFreshOrStale
    BY DEF Reported
  <1> QED
    BY <1>1, ReportsStay, PTL

-----------------------------------------------------------------------------
(***************************************************************************)
(* After a sweep no active credential is past a deadline                   *)
(***************************************************************************)

Alive(r, t) ==
    r.status = "active" => t < r.expiresAt /\ t < r.lastHeartbeat + HeartbeatLimit

AllAlive == sweptNow => \A i \in Ids : Alive(cred[i], now)

\* sweepExpired's two cases together are the negation of Alive.
LEMMA AliveDef ==
  ASSUME NEW r \in CredentialRecord, now \in Nat
  PROVE  Alive(r, now) <=> ~TtlExpired(r) /\ ~HeartbeatDead(r)
  <1>1. r.expiresAt \in Nat /\ r.lastHeartbeat \in Nat
    BY DEF CredentialRecord
  <1>2. HeartbeatLimit \in Nat
    BY LimitsAssumption
  <1> QED
    BY <1>1, <1>2 DEF Alive, TtlExpired, HeartbeatDead

\* Revoking records (revokeRecord) makes no dead credential active.
LEMMA RevokedAlive ==
  ASSUME NEW c \in Store, NEW ids
  PROVE  \A i \in Ids : /\ i \in ids => Alive(Revoked(c, ids)[i], now)
                        /\ Alive(c[i], now) => Alive(Revoked(c, ids)[i], now)
  <1>1. \A i \in Ids : i \in ids => Revoked(c, ids)[i].status = "revoked"
    BY DEF Revoked, Store, CredentialRecord
  <1>2. \A i \in Ids : i \notin ids => Revoked(c, ids)[i] = c[i]
    BY DEF Revoked
  <1> QED
    BY <1>1, <1>2 DEF Alive

\* After sweepExpired every active credential is alive.
LEMMA SweptAlive ==
  ASSUME TypeOK
  PROVE  \A i \in Ids : Alive(Swept[i], now)
  <1>1. \A i \in SweptExpired : [cred[i] EXCEPT !.status = "expired"].status = "expired"
    BY DEF TypeOK, SweptExpired, CredentialRecord
  <1>2. \A i \in Ids : i \notin SweptExpired /\ i \notin SweptRevoked => Alive(cred[i], now)
    BY AliveDef, ClockType DEF SweptExpired, SweptRevoked, TypeOK
  <1>3. \A i \in Ids : i \notin SweptExpired => Alive(Revoked(cred, SweptRevoked)[i], now)
    BY <1>2, RevokedAlive DEF TypeOK, Store
  <1> QED
    BY <1>1, <1>3 DEF Swept, Alive

\* issueCredential, which runs at the time of its record, keeps the active
\* credentials alive.
LEMMA IssueAlive ==
  ASSUME TypeOK, NEW c \in Store, NEW rv, NEW st, NEW rk,
         NEW req \in IssueRequest, IssueCredential(c, rv, st, rk, req),
         \A i \in Ids : Alive(c[i], now)
  PROVE  \A i \in Ids : Alive(cred'[i], now)
  <1> DEFINE c1 == Revoked(c, Evicted(c, req.operatorId))
             fresh == [operatorId    |-> req.operatorId,
                       chatIds       |-> req.chatIds,
                       scopes        |-> req.scopes,
                       policyHash    |-> PolicyHash(req.scopes, req.chatIds),
                       status        |-> "active",
                       lastHeartbeat |-> now,
                       issuedAt      |-> now,
                       expiresAt     |-> now + req.ttl,
                       ttl           |-> req.ttl,
                       revokedAt     |-> "null"]
  <1>1. c1 \in Store /\ \A i \in Ids : Alive(c1[i], now)
    BY RevokedAlive, RevokedType
  <1>2. req.ttl \in Nat /\ req.ttl > 0 /\ now \in Nat
    BY TtlType, ClockType DEF IssueRequest
  <1>3. HeartbeatLimit \in Nat /\ HeartbeatLimit > 0
    BY LimitsAssumption
  <1>4. Alive(fresh, now)
    BY <1>2, <1>3 DEF Alive
  <1>5. cred' = c1 \/ \E i \in Absent : cred' = [c1 EXCEPT ![i] = fresh]
    BY DEF IssueCredential
  <1> HIDE DEF c1, fresh
  <1> QED
    BY <1>1, <1>4, <1>5 DEF Store

\* A step that does not move the clock, sweep or issue keeps every record
\* alive: it ends records, renews them or records a heartbeat.
LEMMA NextAlive ==
  ASSUME TypeOK, RecordsSound, AllAlive, [Next]_vars
  PROVE  AllAlive'
  <1>1. now \in Nat /\ HeartbeatLimit \in Nat /\ HeartbeatLimit > 0
    BY ClockType, LimitsAssumption
  <1>2. cred \in Store
    BY DEF TypeOK, Store
  <1>3. ASSUME NEW reread, SweepExpired(reread), now' = now
        PROVE  AllAlive'
    BY <1>3, SweptAlive DEF SweepExpired, AllAlive
  <1>4. ASSUME NEW req \in IssueRequest, Issue(req)
        PROVE  AllAlive'
    <2>1. Swept \in Store /\ \A i \in Ids : Alive(Swept[i], now)
      BY <1>2, SweptType, SweptAlive
    <2>2. \A i \in Ids : Alive(cred'[i], now)
      BY <1>4, <2>1, IssueAlive DEF Issue
    <2> QED
      BY <1>4, <2>2 DEF Issue, AllAlive
  <1>5. ASSUME NEW req \in resolving, PolicyResolved(req)
        PROVE  AllAlive'
    <2>1. req \in IssueRequest
      BY DEF TypeOK
    <2>2. sweptNow => \A i \in Ids : Alive(cred'[i], now)
      BY <1>2, <1>5, <2>1, IssueAlive DEF PolicyResolved, AllAlive
    <2> QED
      BY <1>5, <2>2 DEF PolicyResolved, AllAlive
  <1>6. ASSUME NEW k \in Ids, NEW r, cred' = [cred EXCEPT ![k] = r],
               now' = now, sweptNow' = sweptNow,
               Alive(cred[k], now) => Alive(r, now)
        PROVE  AllAlive'
    BY <1>2, <1>6 DEF AllAlive, Store
  <1>7. ASSUME NEW k \in Ids, NEW s, s # "active",
               cred' = [cred EXCEPT ![k].status = s],
               now' = now, sweptNow' = sweptNow
        PROVE  AllAlive'
    <2> DEFINE r == [cred[k] EXCEPT !.status = s]
    <2>1. r.status = s
      BY <1>2 DEF Store, CredentialRecord
    <2>2. Alive(r, now)
      BY <1>7, <2>1 DEF Alive
    <2>3. cred' = [cred EXCEPT ![k] = r]
      BY <1>7
    <2> HIDE DEF r
    <2> QED
      BY <1>6, <1>7, <2>2, <2>3
  <1>8. ASSUME NEW k \in Ids, NEW scopes, cred' = ScopesUpdated(k, scopes),
               now' = now, sweptNow' = sweptNow
        PROVE  AllAlive'
    <2> DEFINE r == [cred[k] EXCEPT !.scopes = scopes,
                                    !.policyHash = PolicyHash(scopes, cred[k].chatIds)]
    <2>1. cred' = [cred EXCEPT ![k] = r]
      BY <1>2, <1>8 DEF ScopesUpdated, Store
    <2>2. /\ r.status = cred[k].status /\ r.expiresAt = cred[k].expiresAt
          /\ r.lastHeartbeat = cred[k].lastHeartbeat
      BY <1>2 DEF Store, CredentialRecord
    <2> HIDE DEF r
    <2>3. Alive(cred[k], now) => Alive(r, now)
      BY <2>2 DEF Alive
    <2> QED
      BY <1>6, <1>8, <2>1, <2>3
  <1>9. ASSUME NEW ids, RevokeIds(ids)
        PROVE  AllAlive'
    BY <1>2, <1>9, RevokedAlive DEF RevokeIds, AllAlive
  <1>10. ASSUME NEW k \in Ids, RenewCredential(k)
         PROVE  AllAlive'
    <2> DEFINE r == [cred[k] EXCEPT !.expiresAt = now + cred[k].ttl]
    <2>1. cred' = [cred EXCEPT ![k] = r] /\ now' = now /\ sweptNow' = sweptNow
      BY <1>10 DEF RenewCredential
    <2>2. cred[k].ttl \in Nat /\ cred[k].ttl > 0
      BY <1>2, <1>10 DEF RenewCredential, RecordsSound, Sound, Store, CredentialRecord
    <2>3. /\ r.status = cred[k].status /\ r.expiresAt = now + cred[k].ttl
          /\ r.lastHeartbeat = cred[k].lastHeartbeat
      BY <1>2 DEF Store, CredentialRecord
    <2> HIDE DEF r
    <2>4. Alive(cred[k], now) => Alive(r, now)
      BY <1>1, <2>2, <2>3 DEF Alive
    <2> QED
      BY <1>6, <2>1, <2>4
  <1>11. ASSUME NEW k \in Ids, HarnessHeartbeat(k)
         PROVE  AllAlive'
    <2> DEFINE r == [cred[k] EXCEPT !.lastHeartbeat = now]
    <2>1. cred' = [cred EXCEPT ![k] = r] /\ now' = now /\ sweptNow' = sweptNow
      BY <1>11 DEF HarnessHeartbeat
    <2>2. /\ r.status = cred[k].status /\ r.expiresAt = cred[k].expiresAt
          /\ r.lastHeartbeat = now
      BY <1>2 DEF Store, CredentialRecord
    <2> HIDE DEF r
    <2>3. Alive(cred[k], now) => Alive(r, now)
      BY <1>1, <2>2 DEF Alive
    <2> QED
      BY <1>6, <2>1, <2>3
  <1>12. ASSUME NEW i \in Ids, LookupByToken(i)
         PROVE  AllAlive'
    <2>1. CASE now >= cred[i].expiresAt
      BY <1>7, <1>12, <2>1 DEF LookupByToken
    <2>2. CASE ~(now >= cred[i].expiresAt)
      BY <1>12, <2>2 DEF LookupByToken, AllAlive
    <2> QED
      BY <2>1, <2>2
  <1>13. ASSUME NEW i \in Ids, NEW scopes \in ScopeSets, Update(i, scopes)
         PROVE  AllAlive'
    BY <1>8, <1>9, <1>13 DEF Update
  <1>14. ASSUME NEW i \in Ids, NEW scopes \in ScopeSets,
                HarnessUpdateScopes(i, scopes)
         PROVE  AllAlive'
    <2>1. CASE cred' = [cred EXCEPT ![i].status = "pending"]
      BY <1>7, <1>14, <2>1 DEF HarnessUpdateScopes
    <2>2. CASE cred' = ScopesUpdated(i, scopes)
      BY <1>8, <1>14, <2>2 DEF HarnessUpdateScopes
    <2> QED
      BY <1>14, <2>1, <2>2 DEF HarnessUpdateScopes
  <1>15. ASSUME NEW req \in IssueRequest, IssueWithPolicy(req)
         PROVE  AllAlive'
    BY <1>3, <1>15 DEF IssueWithPolicy
  <1>16. CASE Lookup
    BY <1>3, <1>16 DEF Lookup
  <1>17. ASSUME NEW i \in Ids, Reread(i) \/ HarnessRequest(i)
         PROVE  AllAlive'
    BY <1>3, <1>17 DEF Reread, HarnessRequest
  <1>18. ASSUME NEW i \in Ids, NEW chat \in Chats, RevealRequest(i, chat)
         PROVE  AllAlive'
    BY <1>3, <1>18 DEF RevealRequest
  <1>19. ASSUME NEW i \in Ids, RevokeCredential(i)
         PROVE  AllAlive'
    BY <1>9, <1>19 DEF RevokeCredential
  <1>20. ASSUME NEW op \in Operators, RevokeAllCredentials(op)
         PROVE  AllAlive'
    BY <1>9, <1>20 DEF RevokeAllCredentials
  <1>21. ASSUME NEW i \in Ids, NEW r \in Reveal,
                RecordReveal(i, r) \/ HarnessReveal(i, r)
         PROVE  AllAlive'
    BY <1>21 DEF RecordReveal, HarnessReveal, AllAlive
  <1>22. ASSUME NEW i \in Ids, HarnessRefused(i)
         PROVE  AllAlive'
    BY <1>22 DEF HarnessRefused, AllAlive
  <1>23. ASSUME NEW req \in resolving, PolicyNotFound(req)
         PROVE  AllAlive'
    BY <1>23 DEF PolicyNotFound, AllAlive
  <1>24. CASE Tick
    BY <1>24 DEF Tick, AllAlive
  <1>25. CASE UNCHANGED vars
    BY <1>25 DEF vars, AllAlive
  <1> QED
    BY <1>4, <1>5, <1>10, <1>11, <1>12, <1>13, <1>14, <1>15, <1>16, <1>17,
       <1>18, <1>19, <1>20, <1>21, <1>22, <1>23, <1>24, <1>25 DEF Next

\* Between a sweep and the next tick no active credential is past its expiry
\* or its heartbeat deadline.
THEOREM SweepIsComplete == Spec => []SweepLeavesNoneDead
  <1>1. Init => AllAlive
    BY DEF Init, AllAlive
  <1>2. TypeOK /\ RecordsSound /\ AllAlive /\ [Next]_vars => AllAlive'
    BY NextAlive
  <1>3. AllAlive => SweepLeavesNoneDead
    BY DEF AllAlive, Alive, SweepLeavesNoneDead
  <1> QED
    BY <1>1, <1>2, <1>3, RecordsStaySound, PTL DEF Spec

-----------------------------------------------------------------------------
(***************************************************************************)
(* The limit of concurrent credentials                                     *)
(***************************************************************************)

\* A non-empty set of naturals has a smallest element.
LEMMA NatMinimum ==
  ASSUME NEW T \in SUBSET Nat, T # {}
  PROVE  \E x \in T : \A y \in T : x <= y
  <1>1. \E x \in T : \A y \in T : ~(<<y, x>> \in OpToRel(<, Nat))
    BY WFMin, NatLessThanWellFounded
  <1>2. PICK x \in T : \A y \in T : ~(<<y, x>> \in OpToRel(<, Nat))
    BY <1>1
  <1>3. \A y \in T : ~(y < x)
    BY <1>2 DEF OpToRel
  <1> QED
    BY <1>3

\* The operator's active credentials are finitely many.
LEMMA ActiveFinite ==
  ASSUME NEW c, NEW op
  PROVE  /\ IsFiniteSet(ActiveFor(c, op))
         /\ Cardinality(ActiveFor(c, op)) \in Nat
  <1>1. IsFiniteSet(Ids)
    BY FS_Interval, LimitsAssumption DEF Ids
  <1>2. ActiveFor(c, op) \subseteq Ids
    BY DEF ActiveFor
  <1> QED
    BY <1>1, <1>2, FS_Subset, FS_CardinalityType

\* The eviction finds a victim whenever there is an active credential.
LEMMA OldestExists ==
  ASSUME NEW c \in Store, NEW op, ActiveFor(c, op) # {}
  PROVE  \E i \in Ids : IsOldest(c, op, i)
  <1> DEFINE A == ActiveFor(c, op)
             Ages == {c[i].issuedAt : i \in A}
  <1>1. \A i \in A : i \in Ids /\ i \in Nat /\ c[i].issuedAt \in Nat
    <2>1. \A i \in A : i \in Ids
      BY DEF ActiveFor
    <2>2. \A i \in Ids : i \in Nat
      BY LimitsAssumption DEF Ids
    <2>3. \A i \in Ids : c[i].issuedAt \in Nat
      BY DEF Store, CredentialRecord
    <2> QED
      BY <2>1, <2>2, <2>3
  <1> HIDE DEF A
  <1>2. Ages \in SUBSET Nat /\ Ages # {}
    BY <1>1 DEF A
  <1>3. PICK m \in Ages : \A y \in Ages : m <= y
    BY <1>2, NatMinimum
  <1> DEFINE First == {i \in A : c[i].issuedAt = m}
  <1>4. First \in SUBSET Nat /\ First # {}
    BY <1>1, <1>3
  <1>5. PICK k \in First : \A y \in First : k <= y
    BY <1>4, NatMinimum
  <1>6. k \in A /\ k \in Ids /\ c[k].issuedAt = m
    BY <1>1, <1>5
  <1>7. \A j \in A : m <= c[j].issuedAt /\ (c[j].issuedAt = m => k <= j)
    BY <1>3, <1>5
  <1>8. \A j \in A : c[k].issuedAt < c[j].issuedAt
                       \/ (c[k].issuedAt = c[j].issuedAt /\ k <= j)
    <2> SUFFICES ASSUME NEW j \in A
                 PROVE  c[k].issuedAt < c[j].issuedAt
                          \/ (c[k].issuedAt = c[j].issuedAt /\ k <= j)
      OBVIOUS
    <2>1. m \in Nat /\ c[j].issuedAt \in Nat /\ m <= c[j].issuedAt
      BY <1>1, <1>6, <1>7
    <2>2. m < c[j].issuedAt \/ m = c[j].issuedAt
      BY <2>1
    <2>3. CASE m < c[j].issuedAt
      BY <1>6, <2>3
    <2>4. CASE m = c[j].issuedAt
      BY <1>6, <1>7, <2>4
    <2> QED
      BY <2>2, <2>3, <2>4
  <1>9. IsOldest(c, op, k)
    BY <1>6, <1>8 DEF IsOldest, A
  <1> QED
    BY <1>6, <1>9

\* After the eviction there is room for one more.
LEMMA EvictionMakesRoom ==
  ASSUME NEW c \in Store, NEW op, Cardinality(ActiveFor(c, op)) <= MaxConcurrent
  PROVE  Cardinality(ActiveFor(Revoked(c, Evicted(c, op)), op)) <= MaxConcurrent - 1
  <1> DEFINE A == ActiveFor(c, op)
             B == ActiveFor(Revoked(c, Evicted(c, op)), op)
  <1>1. MaxConcurrent \in Nat /\ MaxConcurrent > 0
    BY LimitsAssumption
  <1>2. /\ IsFiniteSet(A) /\ Cardinality(A) \in Nat
        /\ IsFiniteSet(B) /\ Cardinality(B) \in Nat
    BY ActiveFinite
  <1>3. B \subseteq A /\ \A i \in Evicted(c, op) : i \notin B
    BY ZenonT(30) DEF ActiveFor, Revoked, Store, CredentialRecord
  <1>4. CASE Cardinality(A) < MaxConcurrent
    <2>1. Cardinality(B) <= Cardinality(A)
      BY <1>2, <1>3, FS_Subset
    <2> QED
      BY <1>1, <1>2, <1>4, <2>1
  <1>5. CASE Cardinality(A) >= MaxConcurrent
    <2>1. A # {}
      BY <1>1, <1>5, FS_EmptySet
    <2>2. PICK k \in Ids : IsOldest(c, op, k)
      BY <2>1, OldestExists
    <2>3. k \in Evicted(c, op) /\ k \in A
      BY <1>5, <2>2 DEF Evicted, IsOldest
    <2>4. B \subseteq A \ {k}
      BY <1>3, <2>3
    <2>5. IsFiniteSet(A \ {k}) /\ Cardinality(A \ {k}) = Cardinality(A) - 1
      BY <1>2, <2>3, FS_RemoveElement
    <2>6. Cardinality(B) <= Cardinality(A \ {k})
      BY <2>4, <2>5, FS_Subset
    <2> QED
      BY <1>1, <1>2, <2>5, <2>6
  <1> QED
    BY <1>1, <1>2, <1>4, <1>5

\* Fewer active credentials keep the limit.
LEMMA LimitDownward ==
  ASSUME NEW c, NEW d, NEW op, ActiveFor(d, op) \subseteq ActiveFor(c, op),
         Cardinality(ActiveFor(c, op)) <= MaxConcurrent
  PROVE  Cardinality(ActiveFor(d, op)) <= MaxConcurrent
  <1>1. Cardinality(ActiveFor(d, op)) <= Cardinality(ActiveFor(c, op))
    BY ActiveFinite, FS_Subset
  <1> QED
    BY <1>1, ActiveFinite, LimitsAssumption

\* issueCredential keeps the limit, for the operator it issues to and for the
\* others.
LEMMA IssueLimit ==
  ASSUME TypeOK, NEW c \in Store, NEW rv, NEW st, NEW rk,
         NEW req \in IssueRequest, IssueCredential(c, rv, st, rk, req),
         \A op \in Operators : Cardinality(ActiveFor(c, op)) <= MaxConcurrent
  PROVE  \A op \in Operators : Cardinality(ActiveFor(cred', op)) <= MaxConcurrent
  <1> DEFINE c1 == Revoked(c, Evicted(c, req.operatorId))
  <1>1. c1 \in Store
    BY RevokedType
  <1>2. \A op : ActiveFor(c1, op) \subseteq ActiveFor(c, op)
    BY DEF ActiveFor, Revoked, Store, CredentialRecord
  <1>3. req.operatorId \in Operators
    BY DEF IssueRequest
  <1>4. Cardinality(ActiveFor(c1, req.operatorId)) <= MaxConcurrent - 1
    BY <1>3, EvictionMakesRoom
  <1>5. cred' = c1 \/ \E k \in Ids : \E r :
           r.operatorId = req.operatorId /\ cred' = [c1 EXCEPT ![k] = r]
    BY DEF IssueCredential, Absent
  <1> HIDE DEF c1
  <1>6. CASE cred' = c1
    BY <1>2, <1>6, LimitDownward
  <1>7. ASSUME NEW k \in Ids, NEW r, r.operatorId = req.operatorId,
               cred' = [c1 EXCEPT ![k] = r], NEW op \in Operators
        PROVE  Cardinality(ActiveFor(cred', op)) <= MaxConcurrent
    <2>1. \A i \in Ids : cred'[i] = IF i = k THEN r ELSE c1[i]
      BY <1>1, <1>7 DEF Store
    <2>2. CASE op # req.operatorId
      <3>1. ActiveFor(cred', op) \subseteq ActiveFor(c, op)
        BY <1>2, <1>7, <2>1, <2>2 DEF ActiveFor
      <3> QED
        BY <3>1, LimitDownward
    <2>3. CASE op = req.operatorId
      <3> DEFINE B == ActiveFor(c1, op)
      <3>1. ActiveFor(cred', op) \subseteq B \cup {k}
        BY <2>1 DEF ActiveFor
      <3>2. IsFiniteSet(B) /\ Cardinality(B) \in Nat /\ Cardinality(ActiveFor(cred', op)) \in Nat
        BY ActiveFinite
      <3> HIDE DEF B
      <3>6. /\ IsFiniteSet(B \cup {k})
            /\ Cardinality(B \cup {k}) = IF k \in B THEN Cardinality(B) ELSE Cardinality(B) + 1
        BY <3>2, FS_AddElement
      <3>3. /\ IsFiniteSet(B \cup {k})
            /\ Cardinality(B \cup {k}) \in Nat
            /\ Cardinality(B \cup {k}) <= Cardinality(B) + 1
        BY <3>2, <3>6
      <3>4. Cardinality(ActiveFor(cred', op)) <= Cardinality(B \cup {k})
        BY <3>1, <3>3, FS_Subset
      <3>5. Cardinality(B) <= MaxConcurrent - 1 /\ MaxConcurrent \in Nat
        BY <1>4, <2>3, LimitsAssumption DEF B
      <3> QED
        BY <3>2, <3>3, <3>4, <3>5
    <2> QED
      BY <2>2, <2>3
  <1> QED
    BY <1>5, <1>6, <1>7

\* Every operation keeps the number of active credentials of an operator within
\* maxConcurrentPerOperator.
LEMMA NextLimit ==
  ASSUME TypeOK, RecordsSound, ActiveWithinLimit, [Next]_vars
  PROVE  ActiveWithinLimit'
  <1>1. ASSUME NEW c, \A i \in Ids : RecordUpdate(cred[i], c[i]), NEW op
        PROVE  ActiveFor(c, op) \subseteq ActiveFor(cred, op)
    BY <1>1 DEF RecordUpdate, ActiveFor
  <1>2. ASSUME NEW req \in IssueRequest, Issue(req)
        PROVE  ActiveWithinLimit'
    <2>1. Swept \in Store /\ \A i \in Ids : RecordUpdate(cred[i], Swept[i])
      BY SweptType, SweptStep DEF TypeOK, Store
    <2>2. \A op \in Operators : Cardinality(ActiveFor(Swept, op)) <= MaxConcurrent
      BY <1>1, <2>1, LimitDownward DEF ActiveWithinLimit
    <2>3. \A op \in Operators : Cardinality(ActiveFor(cred', op)) <= MaxConcurrent
      BY <1>2, <2>1, <2>2, IssueLimit DEF Issue
    <2> QED
      BY <2>3 DEF ActiveWithinLimit, ActiveFor
  <1>3. ASSUME NEW req \in IssueRequest, PolicyResolved(req)
        PROVE  ActiveWithinLimit'
    <2>1. cred \in Store
      BY DEF TypeOK, Store
    <2>2. \A op \in Operators : Cardinality(ActiveFor(cred', op)) <= MaxConcurrent
      BY <1>3, <2>1, IssueLimit DEF PolicyResolved, ActiveWithinLimit
    <2> QED
      BY <2>2 DEF ActiveWithinLimit, ActiveFor
  <1>4. CASE ~ \E req \in IssueRequest : Issue(req) \/ PolicyResolved(req)
    <2>1. \A i \in Ids : RecordUpdate(cred[i], cred'[i])
      BY <1>4, OtherStep DEF RecordsSound
    <2>2. \A op \in Operators : Cardinality(ActiveFor(cred', op)) <= MaxConcurrent
      BY <1>1, <2>1, LimitDownward DEF ActiveWithinLimit
    <2> QED
      BY <2>2 DEF ActiveWithinLimit, ActiveFor
  <1> QED
    BY <1>2, <1>3, <1>4

\* maxConcurrentPerOperator holds for every limit and any number of operators.
THEOREM LimitHolds == Spec => []ActiveWithinLimit
  <1>1. Init => ActiveWithinLimit
    <2> SUFFICES ASSUME Init, NEW op \in Operators
                 PROVE  Cardinality(ActiveFor(cred, op)) <= MaxConcurrent
      BY DEF ActiveWithinLimit
    <2>1. ActiveFor(cred, op) = {}
      BY DEF Init, ActiveFor, Blank
    <2>2. Cardinality(ActiveFor(cred, op)) = 0
      BY <2>1, FS_EmptySet
    <2> QED
      BY <2>2, LimitsAssumption
  <1>2. TypeOK /\ RecordsSound /\ ActiveWithinLimit /\ [Next]_vars => ActiveWithinLimit'
    BY NextLimit
  <1> QED
    BY <1>1, <1>2, RecordsStaySound, PTL DEF Spec
=============================================================================
