--------------------------- MODULE DecisionProofs ---------------------------
(***************************************************************************)
(* What holds of the decisions of the signet for every instance: the       *)
(* deltas of policies, the admin tokens, the names of operators and        *)
(* policies, what a credential is shown, and the verifier.                 *)
(***************************************************************************)
EXTENDS PolicyDelta, AdminTokens, Directory, Projection, Verifier,
        FiniteSetTheorems, WellFoundedInduction, TLAPS

(***************************************************************************)
(* Deltas of policies, for every set of scopes.                            *)
(***************************************************************************)
\* checkMateriality's verdict is the comparison of effective sets that
\* CredentialManager uses.
THEOREM EscalationExact ==
  ASSUME NEW o \in Policy, NEW n \in Policy
  PROVE  RequiresReauthorization(CheckMateriality(o, n))
            <=> ~(Effective(n) \subseteq Effective(o))
  BY DEF Policy, RequiresReauthorization, CheckMateriality, Effective

\* An empty seal delta means the same two lists.
THEOREM DeltaComplete ==
  ASSUME NEW o \in Policy, NEW n \in Policy
  PROVE  ~IsMaterial(ComputePayloadDelta(o, n)) <=> o = n
  <1> DEFINE d == ComputePayloadDelta(o, n)
  <1>1. o = n => ~IsMaterial(d)
    BY DEF Policy, IsMaterial, ComputePayloadDelta
  <1>2. ASSUME ~IsMaterial(d)
        PROVE  o.allow = n.allow /\ o.deny = n.deny
    <2>1. n.allow \ o.allow = {}
      BY <1>2 DEF Policy, IsMaterial, ComputePayloadDelta
    <2>2. o.allow \ n.allow = {}
      BY <1>2 DEF Policy, IsMaterial, ComputePayloadDelta
    <2>3. n.deny \ o.deny = {}
      BY <1>2, <2>1, <2>2 DEF Policy, IsMaterial, ComputePayloadDelta
    <2>4. o.deny \ n.deny = {}
      BY <1>2, <2>1, <2>2 DEF Policy, IsMaterial, ComputePayloadDelta
    <2> QED
      BY <2>1, <2>2, <2>3, <2>4
  <1>3. o.allow = n.allow /\ o.deny = n.deny => o = n
    BY DEF Policy
  <1> QED
    BY <1>1, <1>2, <1>3

\* The policies stay policies.
LEMMA PolicyType == Spec => []TypeOK
  <1>1. TypeOK /\ [Next]_vars => TypeOK'
    BY DEF TypeOK, Next, Apply, vars
  <1>2. Init => TypeOK
    BY DEF Init, TypeOK
  <1> QED
    BY <1>1, <1>2, PTL DEF Spec

\* For every set of scopes, an update asks for reauthorization exactly when
\* it would allow something new.
THEOREM EscalationAlwaysExact == Spec => []EscalationIsExact
  <1>1. TypeOK => EscalationIsExact
    BY EscalationExact DEF TypeOK, EscalationIsExact
  <1> QED
    BY <1>1, PolicyType, PTL

\* For every set of scopes, no change of policy is lost in a seal's delta.
THEOREM DeltaAlwaysComplete == Spec => []DeltaIsComplete
  <1>1. TypeOK => DeltaIsComplete
    BY DeltaComplete DEF TypeOK, DeltaIsComplete
  <1> QED
    BY <1>1, PolicyType, PTL

\* For every set of scopes, the credential side and the seal side agree on
\* escalations, and no effective change is missing from a seal's delta.
THEOREM DeltasAlwaysAgree == Spec => []DeltasAgree
  <1>1. ASSUME NEW o \in Policy, NEW n \in Policy
        PROVE  RequiresReauthorization(CheckMateriality(o, n))
                 => RequiresReauthorization(ComputePayloadDelta(o, n))
    BY DEF Policy, RequiresReauthorization, CheckMateriality, ComputePayloadDelta, Effective
  <1>2. ASSUME NEW o \in Policy, NEW n \in Policy
        PROVE  IsMaterial(CheckMateriality(o, n)) => IsMaterial(ComputePayloadDelta(o, n))
    <2>1. o = n => ~IsMaterial(CheckMateriality(o, n))
      BY DEF Policy, IsMaterial, CheckMateriality, Effective
    <2> QED
      BY <2>1, DeltaComplete
  <1>3. TypeOK => DeltasAgree
    BY <1>1, <1>2 DEF TypeOK, DeltasAgree
  <1> QED
    BY <1>3, PolicyType, PTL

(***************************************************************************)
(* Admin tokens.  A token was signed with a key, and not after the moment  *)
(* the signing clock shows; without this a clock that is behind could find *)
(* a timely token to be issued in the future.                              *)
(***************************************************************************)
TokensType ==
  /\ second \in [Parties -> Int]
  /\ adminKey \in [Parties -> {NoKey, 1, 2}]
  /\ token \in [form : Forms \cup {"none"}, key : {NoKey, 1, 2}, iat : Int, exp : Int]

TokensSound ==
  token.form = "jwt" => token.key # NoKey /\ token.iat <= second["cli"]

TokenInv == TokensType /\ TokensSound /\ AnswersFitTheClocks

\* The tolerance accepts what it should, and nothing later, for all clocks,
\* drifts, lifetimes and tolerances.
THEOREM AnswersAlwaysFit == TokenSpec => []AnswersFitTheClocks
<1>1. TokenInit => TokenInv
  BY DEF TokenInit, TokenInv, TokensType, TokensSound, AnswersFitTheClocks, NoToken,
         Parties, NoKey
<1>2. TokenInv /\ [TokenNext]_tvars => TokenInv'
  <2> SUFFICES ASSUME TokenInv, [TokenNext]_tvars
               PROVE  TokenInv'
    OBVIOUS
  <2> USE TokenAssumption DEF TokenInv, TokensType, TokensSound, AnswersFitTheClocks,
          Parties, NoKey, Forms
  <2>1. ASSUME NEW p \in Parties, SecondPasses(p)
        PROVE  TokenInv'
    BY <2>1 DEF SecondPasses
  <2>2. ASSUME NEW ttl \in TokenTtls, WithDaemonClient(ttl)
        PROVE  TokenInv'
    BY <2>2 DEF WithDaemonClient, SignJwt, NoToken
  <2>3. ASSUME NEW form \in Forms, SendOther(form)
        PROVE  TokenInv'
    BY <2>3 DEF SendOther, NoToken
  <2>4. CASE VerifyJwt
    <3> DEFINE now == second["daemon"]
               key == adminKey["daemon"]
    <3>1. /\ second["cli"] \in Int /\ now \in Int
          /\ token.iat \in Int /\ token.exp \in Int
      OBVIOUS
    <3>2. /\ UNCHANGED <<second, adminKey, token>>
          /\ answer' = IF key = NoKey THEN "not initialized" ELSE Verify(token, key, now)
      BY <2>4 DEF VerifyJwt
    <3>3. answer' = "accepted" => /\ token.form = "jwt" /\ token.key = key
                                  /\ now < token.exp + ClockSkew
      BY <3>1, <3>2 DEF Verify
    <3>4. ASSUME token.form = "jwt", token.key = key,
                 second["cli"] - now \in -ClockSkew .. ClockSkew,
                 second["cli"] < token.exp
          PROVE  answer' = "accepted"
      <4>1. key # NoKey /\ token.iat <= now + ClockSkew /\ ~(token.exp <= now - ClockSkew)
        BY <3>1, <3>4
      <4> QED
        BY <3>2, <3>4, <4>1 DEF Verify
    <3>5. AnswersFitTheClocks'
      BY <3>2, <3>3, <3>4
    <3> QED
      BY <3>2, <3>5
  <2>5. CASE UNCHANGED tvars
    BY <2>5 DEF tvars
  <2> QED
    BY <2>1, <2>2, <2>3, <2>4, <2>5 DEF TokenNext
<1>3. TokenInv => AnswersFitTheClocks
  BY DEF TokenInv
<1> QED
  BY <1>1, <1>2, <1>3, PTL DEF TokenSpec

-----------------------------------------------------------------------------
(***************************************************************************)
(* Names.  What a request found when it resolved a label stays with it, so *)
(* the invariant speaks of the requests under way as well as of the        *)
(* changes made.  An operator that is being removed stays an operator, and *)
(* what was removed is marked so, whatever was written over it.            *)
(***************************************************************************)
Found(r) ==
  /\ r.id \in AllIds
  /\ r.query \in Labels => r.bearers = {r.id}
  /\ r.phase = "revoking" => KindOf(r.id) = "operator"

RequestsFound ==
  \A c \in Callers : request[c].phase \in {"resolved", "revoking"} => Found(request[c])

Records == [status : {"none", "active", "removed"}, label : Labels \cup {"none"}]

Actions == [phase : {"resolved", "revoking"}, verb : {"info", "update", "remove"},
            query : AllIds \cup Labels \cup {Malformed}, id : AllIds, held : Records,
            bearers : SUBSET (AllIds \cup Labels \cup {Malformed})]

NamesType ==
  /\ record \in [AllIds -> Records]
  /\ DOMAIN request = Callers
  /\ \A c \in Callers :
       /\ "phase" \in DOMAIN request[c]
       /\ request[c].phase \in {"resolved", "revoking"} => request[c] \in Actions

GoneIsMarked ==
  \A ch \in changed :
    /\ ch.by \in Labels => ch.bearers = {ch.id}
    /\ ch.verb = "remove" =>
         record[ch.id].status = IF KindOf(ch.id) = "operator" THEN "removed" ELSE "none"
    /\ ch.id \in AllIds

NamesInv == NamesType /\ RequestsFound /\ GoneIsMarked

\* A step that leaves the records and the changes alone.
LEMMA NamesOfRequests ==
    ASSUME NamesInv, NEW c \in Callers, NEW r,
           request' = [request EXCEPT ![c] = r],
           "phase" \in DOMAIN r,
           r.phase \in {"resolved", "revoking"} => r \in Actions /\ Found(r),
           UNCHANGED <<record, changed>>
    PROVE  NamesInv'
<1>1. NamesType'
  BY DEF NamesInv, NamesType
<1>2. RequestsFound'
  BY DEF NamesInv, NamesType, RequestsFound, Found, KindOf
<1>3. GoneIsMarked'
  BY DEF NamesInv, GoneIsMarked
<1> QED
  BY <1>1, <1>2, <1>3 DEF NamesInv

\* A step that changes one record, leaves what was removed as it was, and is
\* noted under the request that made it.
LEMMA NamesOfChanges ==
    ASSUME NamesInv, NEW c \in Callers, NEW x \in Records,
           request[c].phase \in {"resolved", "revoking"},
           record' = [record EXCEPT ![request[c].id] = x],
           request' = [request EXCEPT ![c] = Answer("ok")],
           Note(c),
           LET id == request[c].id
               gone == IF KindOf(id) = "operator" THEN "removed" ELSE "none"
           IN /\ x.status = record[id].status \/ x.status = gone
              /\ request[c].verb = "remove" => x.status = gone
    PROVE  NamesInv'
<1>1. request[c] \in Actions /\ Found(request[c]) /\ record \in [AllIds -> Records]
  BY DEF NamesInv, NamesType, RequestsFound
<1>2. request[c].id \in AllIds
  BY <1>1 DEF Found
<1>3. NamesType'
  BY <1>1, <1>2 DEF NamesInv, NamesType, Answer
<1>4. RequestsFound'
  BY DEF NamesInv, NamesType, RequestsFound, Found, KindOf, Answer
<1>5. \A id \in AllIds : record'[id] = IF id = request[c].id THEN x ELSE record[id]
  BY <1>1, <1>2
<1>6. GoneIsMarked'
  <2> SUFFICES ASSUME NEW ch \in changed'
               PROVE  /\ ch.by \in Labels => ch.bearers = {ch.id}
                      /\ ch.verb = "remove" =>
                           record'[ch.id].status =
                             IF KindOf(ch.id) = "operator" THEN "removed" ELSE "none"
                      /\ ch.id \in AllIds
    BY DEF GoneIsMarked, KindOf
  <2>1. CASE ch \in changed
    BY <1>5, <2>1 DEF NamesInv, GoneIsMarked
  <2>2. CASE ch = [id |-> request[c].id, verb |-> request[c].verb, by |-> request[c].query,
                   bearers |-> request[c].bearers]
    BY <1>1, <1>2, <1>5, <2>2 DEF Found
  <2> QED
    BY <2>1, <2>2 DEF Note
<1> QED
  BY <1>3, <1>4, <1>6 DEF NamesInv

\* A label that resolves has one bearer.
LEMMA ResolvedIsTheBearer ==
    ASSUME NEW kind \in Kinds, NEW query \in Labels, Resolve(kind, query) # {}
    PROVE  Bearers(kind, query) = {CHOOSE id \in Resolve(kind, query) : TRUE}
<1>1. query \notin AllIds
  BY DirectoryAssumption DEF AllIds
<1>2. Cardinality(Bearers(kind, query)) = 1 /\ Resolve(kind, query) = Bearers(kind, query)
  BY <1>1 DEF Resolve
<1>3. IsFiniteSet(AllIds)
  BY DirectoryAssumption, FS_Union DEF AllIds
<1>4. Bearers(kind, query) \subseteq AllIds
  BY DEF Bearers, Listed
<1>5. IsFiniteSet(Bearers(kind, query))
  BY <1>3, <1>4, FS_Subset
<1>6. PICK id : Bearers(kind, query) = {id}
  BY <1>2, <1>5, FS_Singleton
<1> QED
  BY <1>2, <1>6

\* What an action begins with.
LEMMA BeginFinds ==
    ASSUME NamesInv, NEW c \in Callers, NEW verb \in {"info", "update", "remove"},
           NEW kind \in Kinds, NEW query \in AllIds \cup Labels \cup {Malformed},
           BeginAction(c, verb, kind, query)
    PROVE  NamesInv'
<1> DEFINE found == IF query \in AllIds /\ KindOf(query) # kind THEN {}
                    ELSE Resolve(kind, query)
           bearers == IF query \in Labels THEN Bearers(kind, query) ELSE {query}
           id == CHOOSE x \in found : TRUE
           r == [phase |-> "resolved", verb |-> verb, query |-> query,
                 id |-> id, held |-> Absent, bearers |-> bearers]
<1>1. /\ UNCHANGED <<record, changed>>
      /\ request' = [request EXCEPT ![c] =
                       IF query = Malformed \/ found = {} THEN Answer("error") ELSE r]
  BY DEF BeginAction
<1>2. CASE query = Malformed \/ found = {}
  <2>1. /\ Answer("error").phase \notin {"resolved", "revoking"}
        /\ "phase" \in DOMAIN Answer("error")
    BY DEF Answer
  <2> QED
    BY <1>1, <1>2, <2>1, NamesOfRequests
<1>3. CASE query # Malformed /\ found # {}
  <2>1. found = Resolve(kind, query) /\ found \subseteq AllIds
    BY <1>3 DEF Resolve, Bearers, Listed
  <2>2. id \in AllIds
    BY <1>3, <2>1
  <2>3. query \in Labels => bearers = {id}
    BY <1>3, <2>1, ResolvedIsTheBearer
  <2>4. bearers \subseteq AllIds \cup Labels \cup {Malformed}
    BY DEF Bearers, Listed
  <2>5. Absent \in Records
    BY DEF Absent, Records
  <2> HIDE DEF id, bearers, found
  <2>6. r \in Actions /\ Found(r) /\ "phase" \in DOMAIN r
    BY <2>2, <2>3, <2>4, <2>5 DEF Actions, Found
  <2>7. request' = [request EXCEPT ![c] = r]
    BY <1>1, <1>3
  <2> HIDE DEF r
  <2> QED
    BY <1>1, <2>6, <2>7, NamesOfRequests
<1> QED
  BY <1>2, <1>3

\* The steps of the managers.
LEMMA ManagersKeepNames ==
    ASSUME NamesInv, NEW c \in Callers,
           \/ \E label \in Labels, role \in {"operator", "superadmin"} :
                UpdateRecord(c, label, role)
           \/ RemoveRecord(c)
           \/ \E revoked \in BOOLEAN : RemoveWrites(c, revoked)
    PROVE  NamesInv'
<1>1. record \in [AllIds -> Records] /\ "phase" \in DOMAIN request[c]
  BY DEF NamesInv, NamesType
<1>2. request[c].phase \in {"resolved", "revoking"} =>
         request[c] \in Actions /\ Found(request[c]) /\ request[c].id \in AllIds
  BY DEF NamesInv, NamesType, RequestsFound, Found
<1>3. ASSUME NEW what
      PROVE  /\ Answer(what).phase \notin {"resolved", "revoking"}
             /\ "phase" \in DOMAIN Answer(what)
  BY DEF Answer
<1>4. ASSUME NEW what, request' = [request EXCEPT ![c] = Answer(what)],
             UNCHANGED <<record, changed>>
      PROVE  NamesInv'
  BY <1>3, <1>4, NamesOfRequests
<1>5. ASSUME NEW label \in Labels, NEW role \in {"operator", "superadmin"},
             UpdateRecord(c, label, role)
      PROVE  NamesInv'
  <2> DEFINE id == request[c].id
             x == [record[id] EXCEPT !.label = label]
  <2>1. request[c].phase = "resolved" /\ request[c].verb = "update"
    BY <1>5 DEF UpdateRecord
  <2>2. x \in Records /\ x.status = record[id].status
    BY <1>1, <1>2, <2>1 DEF Records
  <2>3. CASE request' = [request EXCEPT ![c] = Answer("error")] /\ UNCHANGED <<record, changed>>
    BY <1>4, <2>3
  <2>4. CASE /\ record' = [record EXCEPT ![id] = x]
             /\ request' = [request EXCEPT ![c] = Answer("ok")] /\ Note(c)
    <3> HIDE DEF x
    <3> QED
      BY <2>1, <2>2, <2>4, NamesOfChanges
  <2> QED
    BY <1>5, <2>3, <2>4 DEF UpdateRecord
<1>6. CASE RemoveRecord(c)
  <2> DEFINE id == request[c].id
             r == [request[c] EXCEPT !.phase = "revoking", !.held = record[id]]
  <2>1. request[c].phase = "resolved" /\ request[c].verb = "remove"
    BY <1>6 DEF RemoveRecord
  <2>2. CASE request' = [request EXCEPT ![c] = Answer("error")] /\ UNCHANGED <<record, changed>>
    BY <1>4, <2>2
  <2>3. CASE /\ KindOf(id) = "policy"
             /\ record' = [record EXCEPT ![id] = Absent]
             /\ request' = [request EXCEPT ![c] = Answer("ok")] /\ Note(c)
    <3>1. Absent \in Records /\ Absent.status = "none"
      BY DEF Absent, Records
    <3> QED
      BY <2>1, <2>3, <3>1, NamesOfChanges
  <2>4. CASE /\ KindOf(id) # "policy"
             /\ request' = [request EXCEPT ![c] = r]
             /\ UNCHANGED <<record, changed>>
    <3>1. r \in Actions /\ r.id = id /\ r.query = request[c].query
          /\ r.bearers = request[c].bearers /\ "phase" \in DOMAIN r
      BY <1>1, <1>2, <2>1 DEF Actions
    <3>2. Found(r)
      BY <1>2, <2>1, <2>4, <3>1 DEF Found, KindOf
    <3> HIDE DEF r
    <3> QED
      BY <2>4, <3>1, <3>2, NamesOfRequests
  <2> QED
    BY <1>6, <2>2, <2>3, <2>4 DEF RemoveRecord
<1>7. ASSUME NEW revoked \in BOOLEAN, RemoveWrites(c, revoked)
      PROVE  NamesInv'
  <2> DEFINE id == request[c].id
             x == [request[c].held EXCEPT !.status = "removed"]
  <2>1. request[c].phase = "revoking" /\ KindOf(id) = "operator"
    BY <1>2, <1>7 DEF RemoveWrites, Found
  <2>2. x \in Records /\ x.status = "removed"
    <3>1. request[c].held \in Records
      BY <1>2, <2>1 DEF Actions
    <3> QED
      BY <3>1 DEF Records
  <2>3. CASE request' = [request EXCEPT ![c] = Answer("error")] /\ UNCHANGED <<record, changed>>
    BY <1>4, <2>3
  <2>4. CASE /\ record' = [record EXCEPT ![id] = x]
             /\ request' = [request EXCEPT ![c] = Answer("ok")] /\ Note(c)
    <3> HIDE DEF x
    <3> QED
      BY <2>1, <2>2, <2>4, NamesOfChanges
  <2> QED
    BY <1>7, <2>3, <2>4 DEF RemoveWrites
<1> QED
  BY <1>5, <1>6, <1>7

\* An action by label reaches the one record that bore it, and a removal that
\* was answered is final, for any number of records, labels and overlapping
\* actions.
THEOREM NamesAlwaysReach == DirectorySpec => []NamesReachTheirBearer
<1>1. DInit => NamesInv
  BY DEF DInit, NamesInv, NamesType, RequestsFound, GoneIsMarked, Records, Absent, Idle
<1>2. NamesInv /\ [DNext]_dvars => NamesInv'
  <2> SUFFICES ASSUME NamesInv, [DNext]_dvars
               PROVE  NamesInv'
    OBVIOUS
  <2>1. ASSUME NEW id \in AllIds, NEW label \in Labels, NEW role, Create(id, label, role)
        PROVE  NamesInv'
    <3> DEFINE x == [status |-> "active", label |-> label]
    <3>1. /\ UNCHANGED <<request, changed>>
          /\ \A ch \in changed : ch.id # id
          /\ record' = record \/ record' = [record EXCEPT ![id] = x]
      BY <2>1 DEF Create
    <3>2. record \in [AllIds -> Records] /\ x \in Records
      BY DEF NamesInv, NamesType, Records
    <3>3. /\ record' \in [AllIds -> Records]
          /\ \A j \in AllIds : j # id => record'[j] = record[j]
      BY <3>1, <3>2
    <3>4. NamesType' /\ RequestsFound'
      BY <3>1, <3>3 DEF NamesInv, NamesType, RequestsFound, Found, KindOf
    <3>5. GoneIsMarked'
      BY <3>1, <3>3 DEF NamesInv, GoneIsMarked, KindOf
    <3> QED
      BY <3>4, <3>5 DEF NamesInv
  <2>2. ASSUME NEW c \in Callers, ReadRecord(c)
        PROVE  NamesInv'
    <3>1. PICK what : request' = [request EXCEPT ![c] = Answer(what)]
      BY <2>2 DEF ReadRecord
    <3>2. Answer(what).phase \notin {"resolved", "revoking"} /\ "phase" \in DOMAIN Answer(what)
      BY DEF Answer
    <3> QED
      BY <2>2, <3>1, <3>2, NamesOfRequests DEF ReadRecord
  <2>3. ASSUME NEW c \in Callers, NEW query, BeginLookup(c, query)
        PROVE  NamesInv'
    <3> DEFINE r == [phase |-> "operator", query |-> query,
                     found |-> {m.local : m \in MappingsFor(query)}
                               \cup {i.id : i \in InboxesFor(query)}]
    <3>1. request' = [request EXCEPT ![c] = r] /\ UNCHANGED <<record, changed>>
      BY <2>3 DEF BeginLookup
    <3>2. r.phase \notin {"resolved", "revoking"} /\ "phase" \in DOMAIN r
      OBVIOUS
    <3> HIDE DEF r
    <3> QED
      BY <3>1, <3>2, NamesOfRequests
  <2>4. ASSUME NEW c \in Callers, LookupRecord(c)
        PROVE  NamesInv'
    <3> DEFINE next == IF request[c].phase = "operator" THEN "policy" ELSE "credential"
    <3>1. PICK first : request' = [request EXCEPT ![c] =
                          [request[c] EXCEPT !.phase = next, !.found = @ \cup first]]
      BY <2>4 DEF LookupRecord
    <3> DEFINE r == [request[c] EXCEPT !.phase = next, !.found = @ \cup first]
    <3>2. r.phase \notin {"resolved", "revoking"} /\ "phase" \in DOMAIN r
      BY DEF NamesInv, NamesType
    <3>3. request' = [request EXCEPT ![c] = r] /\ UNCHANGED <<record, changed>>
      BY <2>4, <3>1 DEF LookupRecord
    <3> HIDE DEF r
    <3> QED
      BY <3>2, <3>3, NamesOfRequests
  <2>5. ASSUME NEW c \in Callers, LookupCredential(c)
        PROVE  NamesInv'
    <3>1. PICK what : request' = [request EXCEPT ![c] = Answer(what)]
      BY <2>5 DEF LookupCredential
    <3>2. Answer(what).phase \notin {"resolved", "revoking"} /\ "phase" \in DOMAIN Answer(what)
      BY DEF Answer
    <3> QED
      BY <2>5, <3>1, <3>2, NamesOfRequests DEF LookupCredential
  <2>6. CASE UNCHANGED dvars
    BY <2>6 DEF dvars, NamesInv, NamesType, RequestsFound, Found, KindOf, GoneIsMarked
  <2> QED
    BY <2>1, <2>2, <2>3, <2>4, <2>5, <2>6, BeginFinds, ManagersKeepNames DEF DNext
<1>3. NamesInv => NamesReachTheirBearer
  BY DEF NamesInv, GoneIsMarked, NamesReachTheirBearer, Gone, Listed, KindOf
<1> QED
  BY <1>1, <1>2, <1>3, PTL DEF DirectorySpec

-----------------------------------------------------------------------------
(***************************************************************************)
(* What is shown.  The store and its snapshot only ever hold reveals that  *)
(* were recorded, and the expired ones a restored snapshot brings back are *)
(* passed over when a message is looked up.                                *)
(***************************************************************************)
OnlyRecorded ==
  /\ reveals \subseteq recorded /\ saved \subseteq recorded
  /\ \A entry \in recorded : entry.expires \in Nat

Allows(entry, m) ==
  /\ entry.expires = NoExpiry \/ clock < entry.expires
  /\ entry.group = m.group
  /\ \/ entry.scope = "time-window" /\ m.sentAt \in entry.target
     \/ entry.scope # "time-window" /\ m[entry.scope] \in entry.target

ShownInv == clock \in Nat /\ OnlyRecorded /\ ShownWasAllowed

\* A projected message is one of the chats of the credential, and readable or
\* revealed.
LEMMA ProjectedIsAllowed ==
    ASSUME NEW m, NEW historical, NEW revealed, NEW x,
           x = ProjectMessage(m, historical, revealed), x # NotShown
    PROVE  /\ x.message = m /\ m.group \in ScopedChats
           /\ ScopeGuard("read-messages") \/ revealed
  BY DEF ProjectMessage, ResolveVisibility

\* An entry that has not expired and covers a message allows it.
LEMMA LiveEntryAllows ==
    ASSUME NEW entry, NEW m, clock \in Nat, entry.expires \in Nat,
           ~Expired(entry), Covers(entry, m)
    PROVE  Allows(entry, m)
<1>1. entry.expires = NoExpiry \/ clock < entry.expires
  BY DEF Expired, NoExpiry
<1>2. /\ entry.group = m.group
      /\ \/ entry.scope = "time-window" /\ m.sentAt \in entry.target
         \/ entry.scope # "time-window" /\ m[entry.scope] \in entry.target
  BY DEF Covers
<1> QED
  BY <1>1, <1>2 DEF Allows

\* Nothing is shown that the credential could not read at that moment, for any
\* messages, policies, reveals, snapshots and clocks.
THEOREM ShownWasAlwaysAllowed == ProjectionSpec => []ShownWasAllowed
<1>1. PjInit => ShownInv
  BY DEF PjInit, ShownInv, OnlyRecorded, ShownWasAllowed
<1>2. ShownInv /\ [PjNext]_pvars => ShownInv'
  <2> SUFFICES ASSUME ShownInv, [PjNext]_pvars
               PROVE  ShownInv'
    OBVIOUS
  <2> USE DEF ShownInv
  <2>1. ASSUME NEW m \in ChatMessages, NEW historical \in BOOLEAN, ProjectEvent(m, historical)
        PROVE  ShownInv'
    <3>1. /\ shown' = ProjectMessage(m, historical, IsRevealed(m))
          /\ UNCHANGED <<clock, granted, reveals, saved, recorded>>
      BY <2>1 DEF ProjectEvent
    <3>2. IsRevealed(m) => \E entry \in recorded : Allows(entry, m)
      BY LiveEntryAllows DEF IsRevealed, OnlyRecorded
    <3>3. shown' # NotShown => /\ shown'.message = m /\ m.group \in ScopedChats
                               /\ ScopeGuard("read-messages") \/ IsRevealed(m)
      BY <3>1, ProjectedIsAllowed
    <3>4. ShownWasAllowed'
      BY <3>1, <3>2, <3>3 DEF ShownWasAllowed, Allows, ScopeGuard
    <3> QED
      BY <3>1, <3>4 DEF OnlyRecorded
  <2>2. ASSUME NEW m \in ChatMessages, NEW entry \in RevealsFor(m), RevealContent(entry)
        PROVE  ShownInv'
    <3>1. /\ reveals' = reveals \cup {entry} /\ recorded' = recorded \cup {entry}
          /\ UNCHANGED <<clock, granted, saved>>
      BY <2>2 DEF RevealContent
    <3>2. entry.expires \in Nat
      BY DEF RevealsFor, NoExpiry
    <3>3. OnlyRecorded'
      BY <3>1, <3>2 DEF OnlyRecorded
    <3>4. ASSUME shown' # NotShown
          PROVE  /\ shown'.message.group \in ScopedChats
                 /\ \E e \in recorded' : Allows(e, shown'.message)
      <4>1. PICK x \in ChatMessages :
               /\ \E e \in reveals' : ~Expired(e) /\ Covers(e, x)
               /\ shown' = ProjectMessage(x, TRUE, TRUE)
        BY <2>2, <3>4 DEF RevealContent
      <4>2. PICK e \in reveals' : ~Expired(e) /\ Covers(e, x)
        BY <4>1
      <4>3. e \in recorded' /\ Allows(e, x)
        BY <3>1, <3>3, <4>2, LiveEntryAllows DEF OnlyRecorded
      <4>4. shown'.message = x /\ x.group \in ScopedChats
        BY <3>4, <4>1 DEF ProjectMessage
      <4> QED
        BY <4>3, <4>4
    <3>5. ShownWasAllowed'
      BY <3>1, <3>4 DEF ShownWasAllowed, Allows
    <3> QED
      BY <3>1, <3>3, <3>5
  <2>3. CASE shown' = NotShown /\ UNCHANGED recorded
             /\ clock' \in Nat /\ reveals' \subseteq recorded /\ saved' \subseteq recorded
    BY <2>3 DEF OnlyRecorded, ShownWasAllowed
  <2>4. CASE ExpireStale
    BY <2>3, <2>4 DEF ExpireStale, OnlyRecorded
  <2>5. CASE Snapshot
    BY <2>3, <2>5 DEF Snapshot, OnlyRecorded
  <2>6. CASE Restore
    BY <2>3, <2>6 DEF Restore, OnlyRecorded
  <2>7. CASE ClockTicks
    BY <2>3, <2>7 DEF ClockTicks, OnlyRecorded
  <2>8. ASSUME NEW p \in Grants, ScopesChange(p)
        PROVE  ShownInv'
    BY <2>3, <2>8 DEF ScopesChange, OnlyRecorded
  <2>9. CASE UNCHANGED pvars
    BY <2>9 DEF pvars, OnlyRecorded, ShownWasAllowed, ScopeGuard
  <2> QED
    BY <2>1, <2>2, <2>4, <2>5, <2>6, <2>7, <2>8, <2>9 DEF PjNext
<1>3. ShownInv => ShownWasAllowed
  BY DEF ShownInv
<1> QED
  BY <1>1, <1>2, <1>3, PTL DEF ProjectionSpec

-----------------------------------------------------------------------------
(***************************************************************************)
(* The verifier.  The rate limiter forgets only requests that are out of   *)
(* the window for good: what it holds is the end of the list of admitted   *)
(* requests, and the k it has dropped are older than the window.           *)
(***************************************************************************)
HoldsTheRest(s, k) ==
  /\ k \in 0..Len(served[s])
  /\ Len(timestamps[s]) = Len(served[s]) - k
  /\ \A i \in 1..Len(timestamps[s]) : timestamps[s][i] = served[s][k + i]
  /\ \A i \in 1..k : served[s][i] < instant - Window

RateInv ==
  /\ instant \in Nat
  /\ timestamps \in [Requesters -> Seq(Nat)]
  /\ served \in [Requesters -> Seq(Nat)]
  /\ \A s \in Requesters : \E k \in Nat : HoldsTheRest(s, k)
  /\ WindowHolds

\* A set of natural numbers that is not empty has a least element.
LEMMA LeastNatural ==
    ASSUME NEW A \in SUBSET Nat, A # {}
    PROVE  \E x \in A : \A y \in A : x <= y
<1>1. \E x \in A : \A y \in A : ~(<<y, x>> \in OpToRel(<, Nat))
  BY WFMin, NatLessThanWellFounded
<1>2. PICK x \in A : \A y \in A : ~(<<y, x>> \in OpToRel(<, Nat))
  BY <1>1
<1>3. \A y \in A : ~(y < x)
  BY <1>2 DEF OpToRel
<1> QED
  BY <1>3

\* Eviction drops a prefix of entries that are all out of the window.
LEMMA EvictsAPrefix ==
    ASSUME NEW times \in Seq(Nat), NEW now \in Nat
    PROVE  \E d \in 0..Len(times) :
              /\ Valid(times, now) \in Seq(Nat)
              /\ Len(Valid(times, now)) = Len(times) - d
              /\ \A i \in 1..(Len(times) - d) : Valid(times, now)[i] = times[d + i]
              /\ \A i \in 1..d : times[i] < now - Window
<1> DEFINE In == {i \in 1..Len(times) : times[i] >= now - Window}
<1>1. Window \in Nat
  BY VerifierAssumption
<1>2. CASE In = {}
  <2>1. Valid(times, now) = <<>>
    BY <1>2 DEF Valid, SelectInSeq
  <2>2. \A i \in 1..Len(times) : times[i] < now - Window
    BY <1>1, <1>2
  <2> QED
    BY <2>1, <2>2
<1>3. CASE In # {}
  <2>1. In \in SUBSET Nat
    OBVIOUS
  <2>2. \E x \in In : \A y \in In : x <= y
    <3> HIDE DEF In
    <3> QED
      BY <1>3, <2>1, LeastNatural
  <2>3. PICK f : f = Min(In)
    OBVIOUS
  <2>4. f \in In /\ \A y \in In : f <= y
    <3> HIDE DEF In
    <3> QED
      BY <2>2, <2>3 DEF Min
  <2>5. f \in 1..Len(times)
    BY <2>4
  <2>6. f # 0
    BY <2>5
  <2>7. Valid(times, now) = SubSeq(times, f, Len(times))
    BY <1>3, <2>3, <2>6 DEF Valid, SelectInSeq
  <2>8. \A i \in 1..(f - 1) : times[i] < now - Window
    <3> SUFFICES ASSUME NEW i \in 1..(f - 1), ~(times[i] < now - Window)
                 PROVE  FALSE
      OBVIOUS
    <3>1. i \in In
      BY <1>1, <2>5
    <3> HIDE DEF In
    <3> QED
      BY <2>4, <2>5, <3>1
  <2>9. /\ SubSeq(times, f, Len(times)) \in Seq(Nat)
        /\ Len(SubSeq(times, f, Len(times))) = Len(times) - (f - 1)
        /\ \A i \in 1..(Len(times) - (f - 1)) :
              SubSeq(times, f, Len(times))[i] = times[(f - 1) + i]
    BY <2>5
  <2> HIDE DEF In
  <2>10. f - 1 \in 0..Len(times)
    BY <2>5
  <2> QED
    BY <2>7, <2>8, <2>9, <2>10
<1> QED
  BY <1>2, <1>3

\* After the eviction of a check, too, the limiter holds the end of the list.
LEMMA EvictedHoldsTheRest ==
    ASSUME RateInv, NEW s \in Requesters
    PROVE  \E k \in 0..Len(served[s]) :
              /\ Valid(timestamps[s], instant) \in Seq(Nat)
              /\ Len(Valid(timestamps[s], instant)) = Len(served[s]) - k
              /\ \A i \in 1..(Len(served[s]) - k) :
                    Valid(timestamps[s], instant)[i] = served[s][k + i]
              /\ \A i \in 1..k : served[s][i] < instant - Window
<1>1. PICK k \in Nat : HoldsTheRest(s, k)
  BY DEF RateInv
<1>2. timestamps[s] \in Seq(Nat) /\ served[s] \in Seq(Nat) /\ instant \in Nat
  BY DEF RateInv
<1>3. PICK d \in 0..Len(timestamps[s]) :
              /\ Valid(timestamps[s], instant) \in Seq(Nat)
              /\ Len(Valid(timestamps[s], instant)) = Len(timestamps[s]) - d
              /\ \A i \in 1..(Len(timestamps[s]) - d) :
                    Valid(timestamps[s], instant)[i] = timestamps[s][d + i]
              /\ \A i \in 1..d : timestamps[s][i] < instant - Window
  BY <1>2, EvictsAPrefix
<1>4. k + d \in 0..Len(served[s]) /\ k \in 0..Len(served[s])
      /\ Len(timestamps[s]) = Len(served[s]) - k
  BY <1>1, <1>2, <1>3 DEF HoldsTheRest
<1>5. Len(Valid(timestamps[s], instant)) = Len(served[s]) - (k + d)
  BY <1>2, <1>3, <1>4
<1>6. ASSUME NEW i \in 1..(Len(served[s]) - (k + d))
      PROVE  Valid(timestamps[s], instant)[i] = served[s][(k + d) + i]
  <2>0. Len(timestamps[s]) \in Nat /\ Len(served[s]) \in Nat /\ d \in Nat /\ k \in Nat
        /\ (Len(served[s]) - k) - d = Len(served[s]) - (k + d)
    BY <1>2, <1>3
  <2>1. i \in 1..(Len(timestamps[s]) - d) /\ d + i \in 1..Len(timestamps[s])
    BY <1>4, <2>0
  <2>2. timestamps[s][d + i] = served[s][k + (d + i)]
    BY <1>1, <2>1 DEF HoldsTheRest
  <2>3. k + (d + i) = (k + d) + i
    BY <1>4, <2>1
  <2> QED
    BY <1>3, <2>1, <2>2, <2>3
<1>7. ASSUME NEW i \in 1..(k + d)
      PROVE  served[s][i] < instant - Window
  <2>1. CASE i \in 1..k
    BY <1>1, <2>1 DEF HoldsTheRest
  <2>2. CASE i \notin 1..k
    <3>1. i - k \in 1..d /\ i - k \in 1..Len(timestamps[s]) /\ k + (i - k) = i
      BY <1>2, <1>3, <1>4, <2>2
    <3>2. timestamps[s][i - k] = served[s][k + (i - k)]
      BY <1>1, <3>1 DEF HoldsTheRest
    <3>3. timestamps[s][i - k] < instant - Window
      BY <1>3, <3>1
    <3> QED
      BY <3>1, <3>2, <3>3
  <2> QED
    BY <2>1, <2>2
<1>8. PICK m : m = k + d
  OBVIOUS
<1> QED
  BY <1>3, <1>4, <1>5, <1>6, <1>7, <1>8

\* An admission leaves no window with more than the limit: one that reaches
\* the new request begins after every request that was evicted.
LEMMA AdmissionFits ==
    ASSUME RateInv, NEW s \in Requesters, Admitted(s), NEW t \in 0..MaxTime,
           NEW all, all = Append(served[s], instant)
    PROVE  Cardinality({i \in DOMAIN all : all[i] \in t .. t + Window}) <= MaxRequests
<1> DEFINE n == Len(served[s])
           before == {i \in DOMAIN served[s] : served[s][i] \in t .. t + Window}
           after == {i \in DOMAIN all : all[i] \in t .. t + Window}
<1>1. Window \in Nat /\ MaxRequests \in Nat /\ t \in Nat /\ instant \in Nat
      /\ served[s] \in Seq(Nat)
  BY VerifierAssumption DEF RateInv
<1>2. n \in Nat /\ Len(all) = n + 1 /\ DOMAIN all = 1..(n + 1) /\ all[n + 1] = instant
      /\ \A i \in 1..n : all[i] = served[s][i]
  BY <1>1
<1>3. CASE n + 1 \notin after
  <2>1. after = before
    BY <1>1, <1>2, <1>3, SMTT(30)
  <2>2. Cardinality(before) <= MaxRequests
    BY DEF RateInv, WindowHolds
  <2> QED
    BY <2>1, <2>2
<1>4. CASE n + 1 \in after
  <2>1. PICK k \in 0..n :
              /\ Len(Valid(timestamps[s], instant)) = n - k
              /\ \A i \in 1..k : served[s][i] < instant - Window
    BY EvictedHoldsTheRest
  <2>2. instant <= t + Window
    BY <1>1, <1>2, <1>4
  <2>3. \A i \in 1..k : served[s][i] < t
    BY <1>1, <1>2, <2>1, <2>2, SMTT(30)
  <2>4. \A i \in 1..k : i \notin after
    BY <1>1, <1>2, <2>1, <2>3, SMTT(30)
  <2>5. after \subseteq (k + 1)..(n + 1)
    <3> SUFFICES ASSUME NEW i \in after
                 PROVE  i \in (k + 1)..(n + 1)
      OBVIOUS
    <3>1. i \in 1..(n + 1) /\ i \notin 1..k
      BY <1>2, <2>4
    <3> QED
      BY <1>2, <2>1, <3>1
  <2>6. n - k < MaxRequests
    BY <2>1 DEF Admitted
  <2> HIDE DEF after, n
  <2>7. /\ IsFiniteSet((k + 1)..(n + 1))
        /\ Cardinality((k + 1)..(n + 1)) = (n + 1) - (k + 1) + 1
    <3>1. k + 1 \in Int /\ n + 1 \in Int /\ ~(k + 1 > n + 1)
      BY <1>2, <2>1
    <3> QED
      BY <3>1, FS_Interval
  <2>8. IsFiniteSet(after) /\ Cardinality(after) <= Cardinality((k + 1)..(n + 1))
    BY <2>5, <2>7, FS_Subset
  <2>9. Cardinality(after) \in Nat
    BY <2>8, FS_CardinalityType
  <2>10. Cardinality(after) <= MaxRequests
    BY <1>1, <1>2, <2>1, <2>6, <2>7, <2>8, <2>9
  <2> QED
    BY <2>10 DEF after
<1> QED
  BY <1>3, <1>4

\* rateLimiter.check keeps the invariant, admitting or not.
LEMMA CheckKeepsRateInv ==
    ASSUME RateInv, NEW s \in Requesters, NEW r, HandleRequest(s, r)
    PROVE  RateInv'
<1> DEFINE valid == Valid(timestamps[s], instant)
<1>1. instant' = instant /\ instant \in Nat /\ served[s] \in Seq(Nat)
      /\ timestamps \in [Requesters -> Seq(Nat)] /\ served \in [Requesters -> Seq(Nat)]
  BY DEF HandleRequest, RateInv
<1>2. PICK k \in 0..Len(served[s]) :
              /\ valid \in Seq(Nat)
              /\ Len(valid) = Len(served[s]) - k
              /\ \A i \in 1..(Len(served[s]) - k) : valid[i] = served[s][k + i]
              /\ \A i \in 1..k : served[s][i] < instant - Window
  BY EvictedHoldsTheRest
<1>3. PICK v \in Seq(Nat) : v = valid
  BY <1>2
<1>4. CASE Admitted(s)
  <2>1. /\ timestamps' = [timestamps EXCEPT ![s] = Append(v, instant)]
        /\ served' = [served EXCEPT ![s] = Append(served[s], instant)]
    BY <1>1, <1>3, <1>4 DEF HandleRequest
  <2>2. timestamps' \in [Requesters -> Seq(Nat)] /\ served' \in [Requesters -> Seq(Nat)]
    BY <1>1, <1>3, <2>1
  <2>3. ASSUME NEW q \in Requesters
        PROVE  \E m \in Nat : HoldsTheRest(q, m)'
    <3>1. CASE q = s
      <4>1. timestamps'[q] = Append(v, instant) /\ served'[q] = Append(served[s], instant)
        BY <1>1, <2>1, <3>1
      <4>2. Len(v) = Len(served[s]) - k /\ Len(v) \in Nat /\ k \in Nat
            /\ Len(served[s]) \in Nat
        BY <1>1, <1>2, <1>3
      <4>3. \A i \in 1..Len(v) : v[i] = served[s][k + i] /\ k + i \in 1..Len(served[s])
        BY <1>2, <1>3, <4>2
      <4>4. \A i \in 1..Len(Append(v, instant)) :
               Append(v, instant)[i] = Append(served[s], instant)[k + i]
        <5> SUFFICES ASSUME NEW i \in 1..Len(Append(v, instant))
                     PROVE  Append(v, instant)[i] = Append(served[s], instant)[k + i]
          OBVIOUS
        <5>1. CASE i = Len(v) + 1
          <6>1. k + i = Len(served[s]) + 1
            BY <4>2, <5>1
          <6> QED
            BY <1>1, <1>3, <5>1, <6>1
        <5>2. CASE i \in 1..Len(v)
          <6>1. Append(v, instant)[i] = v[i]
            BY <1>1, <1>3, <5>2
          <6>2. k + i \in 1..Len(served[s]) /\ v[i] = served[s][k + i]
            BY <4>3, <5>2
          <6>3. PICK j : j = k + i
            OBVIOUS
          <6>4. Append(served[s], instant)[j] = served[s][j]
            BY <1>1, <6>2, <6>3
          <6> QED
            BY <6>1, <6>2, <6>3, <6>4
        <5>3. Len(Append(v, instant)) = Len(v) + 1
          BY <1>1, <1>3
        <5>4. i = Len(v) + 1 \/ i \in 1..Len(v)
          BY <4>2, <5>3
        <5> QED
          BY <5>1, <5>2, <5>4
      <4>5. \A i \in 1..k : Append(served[s], instant)[i] < instant - Window
        BY <1>1, <1>2
      <4>6. Len(Append(v, instant)) = Len(Append(served[s], instant)) - k
            /\ k \in 0..Len(Append(served[s], instant))
        BY <1>1, <1>3, <4>2
      <4>7. HoldsTheRest(q, k)'
        BY <1>1, <4>1, <4>4, <4>5, <4>6 DEF HoldsTheRest
      <4> QED
        BY <4>2, <4>7
    <3>2. CASE q # s
      <4>1. timestamps'[q] = timestamps[q] /\ served'[q] = served[q]
        BY <1>1, <2>1, <3>2
      <4> QED
        BY <1>1, <4>1, ZenonT(30) DEF RateInv, HoldsTheRest
    <3> QED
      BY <3>1, <3>2
  <2>4. WindowHolds'
    <3> SUFFICES ASSUME NEW q \in Requesters, NEW t \in 0..MaxTime
                 PROVE  Cardinality({i \in DOMAIN served'[q] :
                                       served'[q][i] \in t .. t + Window}) <= MaxRequests
      BY DEF WindowHolds
    <3>1. CASE q = s
      <4>1. served'[q] = Append(served[s], instant)
        BY <1>1, <2>1, <3>1
      <4> QED
        BY <1>4, <4>1, AdmissionFits
    <3>2. CASE q # s
      <4>1. served'[q] = served[q]
        BY <1>1, <2>1, <3>2
      <4> QED
        BY <4>1 DEF RateInv, WindowHolds
    <3> QED
      BY <3>1, <3>2
  <2> QED
    BY <1>1, <2>2, <2>3, <2>4 DEF RateInv
<1>5. CASE ~Admitted(s)
  <2>1. timestamps' = [timestamps EXCEPT ![s] = v] /\ served' = served
    BY <1>3, <1>5 DEF HandleRequest
  <2>2. timestamps' \in [Requesters -> Seq(Nat)] /\ served' \in [Requesters -> Seq(Nat)]
    BY <1>1, <1>3, <2>1
  <2>3. ASSUME NEW q \in Requesters
        PROVE  \E m \in Nat : HoldsTheRest(q, m)'
    <3>1. CASE q = s
      <4>1. timestamps'[q] = v
        BY <1>1, <2>1, <3>1
      <4>2. HoldsTheRest(q, k)'
        BY <1>1, <1>2, <1>3, <2>1, <3>1, <4>1 DEF HoldsTheRest
      <4> QED
        BY <1>1, <1>2, <4>2
    <3>2. CASE q # s
      <4>1. timestamps'[q] = timestamps[q]
        BY <1>1, <2>1, <3>2
      <4> QED
        BY <1>1, <2>1, <4>1, ZenonT(30) DEF RateInv, HoldsTheRest
    <3> QED
      BY <3>1, <3>2
  <2>4. WindowHolds'
    BY <2>1 DEF RateInv, WindowHolds
  <2> QED
    BY <1>1, <2>2, <2>3, <2>4 DEF RateInv
<1> QED
  BY <1>4, <1>5

(***************************************************************************)
(* The verifier's own seal: a signing that has not failed is the cached    *)
(* one, so there is never a second.                                        *)
(***************************************************************************)
SealInv ==
  /\ selfSeal = [cached |-> selfSeal.cached, signings |-> selfSeal.signings,
                 waits |-> selfSeal.waits]
  /\ selfSeal.signings \in Seq({"pending", "ok", "error"})
  /\ selfSeal.cached \in 0..Len(selfSeal.signings)
  /\ selfSeal.cached # 0 => selfSeal.signings[selfSeal.cached] # "error"
  /\ \A n \in 1..Len(selfSeal.signings) :
        selfSeal.signings[n] # "error" => n = selfSeal.cached

\* So the signings that have not failed are one at most.
LEMMA OneSigningCounts ==
    ASSUME SealInv
    PROVE  OneSelfSeal
<1> DEFINE live == {n \in DOMAIN selfSeal.signings : selfSeal.signings[n] # "error"}
<1>1. live \subseteq {selfSeal.cached}
  BY DEF SealInv
<1>2. IsFiniteSet({selfSeal.cached}) /\ Cardinality({selfSeal.cached}) = 1
  BY FS_Singleton
<1> HIDE DEF live
<1>3. IsFiniteSet(live) /\ Cardinality(live) <= 1
  BY <1>1, <1>2, FS_Subset
<1> QED
  BY <1>3 DEF OneSelfSeal, SealInv, live

\* selfSeal and the outcome of a signing keep it so.
LEMMA SelfSealSteps ==
    ASSUME SealInv, VfSelfSeal
    PROVE  SealInv'
<1>0. selfSeal.signings \in Seq({"pending", "ok", "error"})
      /\ Len(selfSeal.signings) \in Nat /\ selfSeal.cached \in Nat
      /\ DOMAIN selfSeal = {"cached", "signings", "waits"}
  BY DEF SealInv
<1>1. ASSUME NEW c \in SealCallers, SelfSeal(c)
      PROVE  SealInv'
  <2>1. CASE selfSeal.cached # 0
    <3>1. /\ selfSeal'.cached = selfSeal.cached /\ selfSeal'.signings = selfSeal.signings
          /\ selfSeal' = [cached |-> selfSeal'.cached, signings |-> selfSeal'.signings,
                          waits |-> selfSeal'.waits]
      BY <1>0, <1>1, <2>1 DEF SelfSeal, SealInv
    <3> QED
      BY <3>1 DEF SealInv
  <2>2. CASE selfSeal.cached = 0
    <3> DEFINE n == Len(selfSeal.signings) + 1
    <3>1. /\ selfSeal'.cached = n /\ selfSeal'.signings = Append(selfSeal.signings, "pending")
          /\ selfSeal' = [cached |-> selfSeal'.cached, signings |-> selfSeal'.signings,
                          waits |-> selfSeal'.waits]
      BY <1>0, <1>1, <2>2 DEF SelfSeal, SealInv
    <3>2. \A m \in 1..Len(selfSeal.signings) : selfSeal.signings[m] = "error"
      BY <1>0, <2>2 DEF SealInv
    <3>3. \A m \in 1..Len(selfSeal'.signings) :
             selfSeal'.signings[m] = IF m = n THEN "pending" ELSE "error"
      BY <1>0, <3>1, <3>2
    <3>4. selfSeal'.signings \in Seq({"pending", "ok", "error"})
          /\ n \in 1..Len(selfSeal'.signings)
      BY <1>0, <3>1
    <3> HIDE DEF n
    <3> QED
      BY <3>1, <3>3, <3>4 DEF SealInv
  <2> QED
    BY <2>1, <2>2
<1>2. ASSUME NEW c \in SealCallers, SelfSealAnswered(c)
      PROVE  SealInv'
  <2>1. /\ selfSeal'.cached = selfSeal.cached /\ selfSeal'.signings = selfSeal.signings
        /\ selfSeal' = [cached |-> selfSeal'.cached, signings |-> selfSeal'.signings,
                        waits |-> selfSeal'.waits]
    BY <1>0, <1>2 DEF SelfSealAnswered, SealInv
  <2> QED
    BY <2>1 DEF SealInv
<1>3. ASSUME NEW n \in 1..MaxSignings, NEW outcome \in {"ok", "error"},
             SelfSealSigned(n, outcome)
      PROVE  SealInv'
  <2>1. n \in 1..Len(selfSeal.signings) /\ n = selfSeal.cached
    BY <1>0, <1>3 DEF SelfSealSigned, SealInv
  <2>2. /\ selfSeal'.cached = IF outcome = "error" THEN 0 ELSE selfSeal.cached
        /\ selfSeal'.signings = [selfSeal.signings EXCEPT ![n] = outcome]
        /\ selfSeal' = [cached |-> selfSeal'.cached, signings |-> selfSeal'.signings,
                        waits |-> selfSeal'.waits]
    BY <1>0, <1>3 DEF SelfSealSigned, SealInv
  <2>3. /\ selfSeal'.signings \in Seq({"pending", "ok", "error"})
        /\ Len(selfSeal'.signings) = Len(selfSeal.signings)
        /\ \A m \in 1..Len(selfSeal.signings) :
             selfSeal'.signings[m] = IF m = n THEN outcome ELSE selfSeal.signings[m]
    BY <1>0, <2>1, <2>2
  <2> QED
    BY <1>0, <2>1, <2>2, <2>3 DEF SealInv
<1> QED
  BY <1>1, <1>2, <1>3 DEF VfSelfSeal

\* However requests and self seals overlap, whatever is presented and replied:
\* no window holds more than maxRequests admissions of a requester, and one
\* signing at most of the verifier's seal stands (rateLimiter.check,
\* service.selfSeal).
THEOREM OverlapsAreAlwaysSafe ==
    ASSUME NEW presented, NEW sources, NEW releases, NEW configs
    PROVE  VerifierSpec(presented, sources, releases, configs) => []OverlapsAreSafe
<1>1. VfInit => RateInv /\ SealInv
  <2> SUFFICES ASSUME VfInit PROVE RateInv /\ SealInv
    OBVIOUS
  <2>1. /\ instant = 0
        /\ timestamps = [s \in Requesters |-> <<>>] /\ served = [s \in Requesters |-> <<>>]
        /\ selfSeal = [cached |-> 0, signings |-> <<>>,
                       waits |-> [c \in SealCallers |-> 0]]
    BY DEF VfInit
  <2>2. SealInv
    BY <2>1 DEF SealInv
  <2>3. /\ instant \in Nat /\ timestamps \in [Requesters -> Seq(Nat)]
        /\ served \in [Requesters -> Seq(Nat)]
    BY <2>1
  <2>4. \A s \in Requesters : HoldsTheRest(s, 0)
    BY <2>1 DEF HoldsTheRest
  <2>5. WindowHolds
    <3> SUFFICES ASSUME NEW s \in Requesters, NEW t \in 0..MaxTime
                 PROVE  Cardinality({i \in DOMAIN served[s] :
                                       served[s][i] \in t .. t + Window}) <= MaxRequests
      BY DEF WindowHolds
    <3>1. {i \in DOMAIN served[s] : served[s][i] \in t .. t + Window} = {}
      BY <2>1
    <3>2. Cardinality({}) = 0
      BY FS_EmptySet
    <3>3. 0 <= MaxRequests
      BY VerifierAssumption
    <3> QED
      BY <3>1, <3>2, <3>3
  <2> QED
    BY <2>2, <2>3, <2>4, <2>5 DEF RateInv
<1>2. ASSUME RateInv, SealInv,
             [VerifierNext(presented, sources, releases, configs)]_vfvars
      PROVE  RateInv' /\ SealInv'
  <2>1. CASE UNCHANGED vfvars
    BY <1>2, <2>1 DEF vfvars, RateInv, SealInv, HoldsTheRest, WindowHolds
  <2>2. CASE InstantPasses
    <3>1. instant' = instant + 1 /\ UNCHANGED <<timestamps, served, selfSeal>>
      BY <2>2 DEF InstantPasses
    <3>2. instant \in Nat /\ instant' \in Nat /\ Window \in Nat
          /\ served \in [Requesters -> Seq(Nat)]
      BY <1>2, <3>1, VerifierAssumption DEF RateInv
    <3>3. ASSUME NEW s \in Requesters, NEW k \in Nat, HoldsTheRest(s, k)
          PROVE  HoldsTheRest(s, k)'
      <4>1. \A i \in 1..k : served[s][i] \in Nat /\ served[s][i] < instant - Window
        BY <3>2, <3>3 DEF HoldsTheRest
      <4>2. \A i \in 1..k : served[s][i] < instant' - Window
        BY <3>1, <3>2, <4>1
      <4> QED
        BY <3>1, <3>3, <4>2 DEF HoldsTheRest
    <3>4. WindowHolds' /\ SealInv'
      BY <1>2, <3>1 DEF RateInv, WindowHolds, SealInv
    <3> QED
      BY <1>2, <3>1, <3>2, <3>3, <3>4 DEF RateInv
  <2>3. CASE VfSelfSeal
    <3>1. UNCHANGED <<instant, timestamps, served>>
      BY <2>3 DEF VfSelfSeal, SelfSeal, SelfSealSigned, SelfSealAnswered
    <3>2. RateInv'
      BY <1>2, <3>1 DEF RateInv, HoldsTheRest, WindowHolds
    <3> QED
      BY <1>2, <2>3, <3>2, SelfSealSteps
  <2>4. CASE VfServe(presented, sources, releases, configs)
    <3>1. UNCHANGED selfSeal
      BY <2>4 DEF VfServe, HandleRequest, ChecksDone, SignStatement
    <3>2. SealInv'
      BY <1>2, <3>1 DEF SealInv
    <3>3. CASE \E s \in Requesters, r \in presented : HandleRequest(s, r)
      BY <1>2, <3>2, <3>3, CheckKeepsRateInv
    <3>4. CASE ~\E s \in Requesters, r \in presented : HandleRequest(s, r)
      <4>1. UNCHANGED <<instant, timestamps, served>>
        BY <2>4, <3>4 DEF VfServe, ChecksDone, SignStatement
      <4> QED
        BY <1>2, <3>2, <4>1 DEF RateInv, HoldsTheRest, WindowHolds
    <3> QED
      BY <3>3, <3>4
  <2> QED
    BY <1>2, <2>1, <2>2, <2>3, <2>4 DEF VerifierNext
<1>3. RateInv /\ SealInv => OverlapsAreSafe
  BY OneSigningCounts DEF RateInv, OverlapsAreSafe
<1> QED
  BY <1>1, <1>2, <1>3, PTL DEF VerifierSpec

(***************************************************************************)
(* The verdict, from the checks to the statement that is signed.           *)
(***************************************************************************)
VerdictFits ==
  LET r == job.request IN
  /\ Contradicted(r) => job.verdict \in {"rejected", "error"}
  /\ (r.envelope # Nothing /\ r.envelope.current = r.seal
         /\ SealVerify(r.envelope, r.key) = "rejected")
     => job.verdict \in {"rejected", "error"}
  /\ job.tier # Unverified => job.verdict = "verified"

JobInv(presented) ==
  /\ DOMAIN job = {"pc", "request", "verdict", "tier"}
  /\ job.pc \in {"idle", "checks", "sign", "answered"}
  /\ job.pc = "checks" => job.request \in presented /\ job.tier = Unverified
  /\ job.pc \in {"sign", "answered"} => VerdictFits

\* A request that contradicts itself fails one of the checks.
LEMMA ContradictionFails ==
    ASSUME NEW r, r.key \in Int, NEW config, Contradicted(r)
    PROVE  "fail" \in {BuildProvenance(r, config), SealSignature(r), SealChainCheck(r)}
<1>1. CASE r.bundle # Nothing /\ r.digest \notin r.bundle.payload.subjects
  BY <1>1 DEF BuildProvenance, FindMatchingSubject
<1>2. CASE r.seal # Nothing /\ r.envelope # Nothing /\ r.envelope.current # r.seal
  BY <1>2 DEF SealChainCheck, EnvelopeMatches
<1>3. CASE r.seal # Nothing /\ r.envelope # Nothing
           /\ (~ValidateSealChain(r.envelope) \/ ~VerifyChainDelta(r.envelope))
  BY <1>3 DEF SealChainCheck
<1>4. CASE /\ r.seal # Nothing /\ r.envelope # Nothing
           /\ r.key > 0 /\ r.envelope.signature # [key |-> r.key, body |-> r.seal]
  <2>1. r.key # 0 /\ ~(r.key < 0)
    BY <1>4
  <2>2. CASE EnvelopeMatches(r)
    <3>1. r.envelope.current = r.seal
      BY <2>2 DEF EnvelopeMatches
    <3>2. r.envelope.signature # [key |-> r.key, body |-> r.envelope.current]
      BY <1>4, <3>1
    <3> QED
      BY <1>4, <2>1, <2>2, <3>2 DEF SealSignature
  <2>3. CASE ~EnvelopeMatches(r)
    BY <1>4, <2>1, <2>3 DEF SealSignature
  <2> QED
    BY <2>2, <2>3
<1> QED
  BY <1>1, <1>2, <1>3, <1>4 DEF Contradicted

\* What seal.verify rejects fails the same check of the service.
LEMMA RejectedByActionFails ==
    ASSUME NEW r, r.envelope.current = r.seal, SealVerify(r.envelope, r.key) = "rejected"
    PROVE  "fail" \in {SealSignature(r), SealChainCheck(r), SchemaCompliance(r)}
<1> DEFINE q == [seal |-> r.envelope.current, envelope |-> r.envelope, key |-> r.key]
<1>1. q.seal = r.seal /\ q.envelope = r.envelope /\ q.key = r.key
  OBVIOUS
<1>2. SealVerify(r.envelope, r.key) =
        IF "error" \in {SealSignature(q), SealChainCheck(q), SchemaCompliance(q)} THEN "error"
        ELSE DetermineVerdict({SealSignature(q), SealChainCheck(q), SchemaCompliance(q)})
  BY DEF SealVerify
<1> HIDE DEF q
<1>3. EnvelopeMatches(q) = EnvelopeMatches(r)
  BY <1>1 DEF EnvelopeMatches
<1>4. SealSignature(q) = SealSignature(r)
  BY <1>1, <1>3 DEF SealSignature
<1>5. SealChainCheck(q) = SealChainCheck(r)
  BY <1>1, <1>3 DEF SealChainCheck
<1>6. SchemaCompliance(q) = SchemaCompliance(r)
  BY <1>1 DEF SchemaCompliance
<1> QED
  BY <1>2, <1>4, <1>5, <1>6 DEF DetermineVerdict

\* Whatever a request holds and whatever is met outside, no check that is
\* skipped covers for one that fails, and a tier is attested only when every
\* check passed (service.handleRequest, determineVerdict).
THEOREM ContradictionsAreAlwaysRejected ==
    ASSUME NEW presented, \A r \in presented : r.key \in Int,
           NEW sources, NEW releases, NEW configs
    PROVE  VerifierSpec(presented, sources, releases, configs)
              => []ContradictionsAreRejected
<1>1. VfInit => JobInv(presented)
  BY DEF VfInit, JobInv, NoJob
<1>2. ASSUME JobInv(presented),
             [VerifierNext(presented, sources, releases, configs)]_vfvars
      PROVE  JobInv(presented)'
  <2>1. CASE UNCHANGED job
    BY <1>2, <2>1 DEF JobInv, VerdictFits
  <2>2. ASSUME NEW s \in Requesters, NEW r \in presented, HandleRequest(s, r)
        PROVE  JobInv(presented)'
    <3>1. \/ job' = [pc |-> "checks", request |-> r, verdict |-> "none", tier |-> Unverified]
          \/ job' = [pc |-> "sign", request |-> r, verdict |-> "rejected",
                     tier |-> Unverified]
      BY <2>2 DEF HandleRequest, NoJob
    <3> QED
      BY <3>1 DEF JobInv, VerdictFits
  <2>3. ASSUME NEW source \in sources, NEW release \in releases, NEW config \in configs,
               ChecksDone(source, release, config)
        PROVE  JobInv(presented)'
    <3>1. PICK r : r = job.request
      OBVIOUS
    <3>2. r \in presented /\ r.key \in Int /\ job.tier = Unverified
      BY <1>2, <2>3, <3>1 DEF JobInv, ChecksDone
    <3>3. PICK results :
            results = {SourceAvailable(source), BuildProvenance(r, config),
                       ReleaseSigning(r, release), SealSignature(r),
                       SealChainCheck(r), SchemaCompliance(r)}
      OBVIOUS
    <3>4. job' = IF "error" \in results
                 THEN [job EXCEPT !.pc = "answered", !.verdict = "error"]
                 ELSE [job EXCEPT !.pc = "sign",
                          !.verdict = DetermineVerdict(results),
                          !.tier = DetermineVerifiedTier(DetermineVerdict(results), r.tier)]
      BY <2>3, <3>1, <3>3 DEF ChecksDone
    <3>5. DOMAIN job = {"pc", "request", "verdict", "tier"}
      BY <1>2 DEF JobInv
    <3>6. CASE "error" \in results
      <4>1. DOMAIN job' = {"pc", "request", "verdict", "tier"} /\ job'.pc = "answered"
            /\ job'.verdict = "error" /\ job'.tier = Unverified
        BY <3>2, <3>4, <3>5, <3>6
      <4> QED
        BY <4>1 DEF JobInv, VerdictFits
    <3>7. CASE "error" \notin results
      <4>1. DOMAIN job' = {"pc", "request", "verdict", "tier"} /\ job'.pc = "sign"
            /\ job'.request = r /\ job'.verdict = DetermineVerdict(results)
            /\ job'.tier = DetermineVerifiedTier(DetermineVerdict(results), r.tier)
        BY <3>1, <3>4, <3>5, <3>7
      <4>2. job'.tier # Unverified => job'.verdict = "verified"
        BY <4>1 DEF DetermineVerifiedTier
      <4>3. "fail" \in results => job'.verdict = "rejected"
        BY <4>1 DEF DetermineVerdict
      <4>4. Contradicted(r) => "fail" \in results
        <5> SUFFICES ASSUME Contradicted(r) PROVE "fail" \in results
          OBVIOUS
        <5>1. "fail" \in {BuildProvenance(r, config), SealSignature(r), SealChainCheck(r)}
          BY <3>2, ContradictionFails
        <5> QED
          BY <3>3, <5>1
      <4>5. (r.envelope.current = r.seal /\ SealVerify(r.envelope, r.key) = "rejected")
               => "fail" \in results
        <5> SUFFICES ASSUME r.envelope.current = r.seal,
                            SealVerify(r.envelope, r.key) = "rejected"
                     PROVE  "fail" \in results
          OBVIOUS
        <5>1. "fail" \in {SealSignature(r), SealChainCheck(r), SchemaCompliance(r)}
          BY RejectedByActionFails
        <5> QED
          BY <3>3, <5>1
      <4>6. VerdictFits'
        BY <4>1, <4>2, <4>3, <4>4, <4>5 DEF VerdictFits
      <4> QED
        BY <4>1, <4>6 DEF JobInv
    <3> QED
      BY <3>6, <3>7
  <2>4. CASE SignStatement
    <3>1. DOMAIN job = {"pc", "request", "verdict", "tier"} /\ VerdictFits
      BY <1>2, <2>4 DEF JobInv, SignStatement
    <3>2. DOMAIN job' = {"pc", "request", "verdict", "tier"} /\ job'.pc = "answered"
          /\ job'.request = job.request
          /\ \/ job'.verdict = job.verdict /\ job'.tier = job.tier
             \/ job'.verdict = "error" /\ job'.tier = Unverified
      BY <2>4, <3>1 DEF SignStatement
    <3>3. VerdictFits'
      BY <3>1, <3>2 DEF VerdictFits
    <3> QED
      BY <3>2, <3>3 DEF JobInv
  <2> QED
    BY <1>2, <2>1, <2>2, <2>3, <2>4
       DEF VerifierNext, VfServe, VfSelfSeal, InstantPasses, SelfSeal, SelfSealSigned,
           SelfSealAnswered, vfvars
<1>3. JobInv(presented) => ContradictionsAreRejected
  BY DEF JobInv, VerdictFits, ContradictionsAreRejected, DeriveProvenanceMap
<1> QED
  BY <1>1, <1>2, <1>3, PTL DEF VerifierSpec
=============================================================================
