------------------------------ MODULE Verifier ------------------------------
(***************************************************************************)
(* The verifier (packages/verifier/src): a request is admitted by a        *)
(* sliding window per requester, runs six checks and is answered with a    *)
(* signed statement; the verifier's own seal is signed once and cached.    *)
(* seal.verify (packages/cli/src/actions/seal-actions.ts) runs three of    *)
(* the checks on a seal of the signet itself.                              *)
(*                                                                         *)
(* Bytes are taken at their meaning: a signature is the key and the body   *)
(* it was made with, a certificate the elements its walk looks at, a       *)
(* canonical form the value it encodes.  A field of a seal that is missing *)
(* is 0.                                                                   *)
(***************************************************************************)
EXTENDS Integers, Sequences, FiniteSets, SequencesExt

CONSTANTS
    Requesters,     \* inbox ids of requesters
    MaxRequests,    \* maxRequestsPerRequesterPerHour
    Window,         \* the hour
    MaxTime,        \* bound: the last instant
    SealCallers,    \* callers of selfSeal
    MaxSignings     \* bound: self seals begun

ASSUME VerifierAssumption ==
  /\ MaxRequests \in Nat \ {0} /\ Window \in Nat \ {0}
  /\ MaxTime \in Nat /\ MaxSignings \in Nat

VARIABLES
    instant,      \* the clock
    timestamps,   \* the rate limiter: requester -> its times, oldest first
    served,       \* history: requester -> the times it was admitted
    job,          \* the request under way or the last one
    selfSeal      \* cachedSelfSeal, what became of each signing, who waits

vfvars == <<instant, timestamps, served, job, selfSeal>>

Nothing == [none |-> TRUE]
Unverified == "unverified"
NoJob == [pc |-> "idle", request |-> Nothing, verdict |-> "none",
          tier |-> Unverified]

-----------------------------------------------------------------------------
(* The seal checks.                                                        *)

\* validateSealChain: the same operator, credential and chat, no step back.
ValidateSealChain(e) ==
  e.previous # Nothing =>
    /\ \A f \in {"operatorId", "credentialId", "chatId"} :
          e.current[f] = e.previous[f]
    /\ e.current.issuedAt >= e.previous.issuedAt

\* verifyChainDelta, on scopes that are allowed or not (PolicyDelta has the
\* delta of the two lists).
VerifyChainDelta(e) ==
  LET before == IF e.previous = Nothing THEN e.current.allow ELSE e.previous.allow
  IN e.delta = [added |-> e.current.allow \ before,
                removed |-> before \ e.current.allow]

\* Both checks compare the id, then the canonical bytes.
EnvelopeMatches(r) ==
  /\ r.envelope.current.sealId = r.seal.sealId
  /\ r.envelope.current = r.seal

\* createSealSignatureCheck: an unusable key is an internal error.
SealSignature(r) ==
  CASE r.seal = Nothing -> "skip"
    [] r.seal # Nothing ->
       IF r.seal.operatorId = 0 \/ r.seal.issuedAt <= 0 \/ r.seal.scopeMode = 0
       THEN "fail"
       ELSE IF r.envelope = Nothing \/ r.key = 0 THEN "skip"
       ELSE IF ~EnvelopeMatches(r) THEN "fail"
       ELSE IF r.key < 0 THEN "error"
       ELSE IF r.envelope.signature = [key |-> r.key, body |-> r.envelope.current]
            THEN "pass" ELSE "fail"

\* createSealChainCheck
SealChainCheck(r) ==
  CASE r.seal = Nothing -> "skip"
    [] r.seal # Nothing ->
       IF \E f \in {"sealId", "chatId", "operatorId", "credentialId"} : r.seal[f] = 0
       THEN "fail"
       ELSE IF r.envelope = Nothing THEN "skip"
       ELSE IF EnvelopeMatches(r) /\ ValidateSealChain(r.envelope)
                                  /\ VerifyChainDelta(r.envelope)
            THEN "pass" ELSE "fail"

\* createSchemaComplianceCheck: SealPayload wants every field.
SchemaCompliance(r) ==
  CASE r.seal = Nothing -> "skip"
    [] r.seal # Nothing ->
       IF \A f \in {"sealId", "chatId", "operatorId", "credentialId", "scopeMode"} :
             r.seal[f] # 0
          /\ r.seal.issuedAt > 0
       THEN "pass" ELSE "fail"

-----------------------------------------------------------------------------
(* The checks that look outside.                                           *)

\* createSourceAvailableCheck: an answer that is not ok, a timeout and an
\* unreachable host all fail.
SourceAvailable(reply) == IF reply = "ok" THEN "pass" ELSE "fail"

\* isSigningAssetForDigest
SigningAssetFor(asset, digest) == asset.signing /\ asset.digest = digest

\* parseGitHubRepo and createReleaseSigningCheck.  The reply of the API: an
\* HTTP status that is not ok, no reply, or a release.
ReleaseSigning(r, reply) ==
  CASE ~r.tagged \/ ~r.github -> "skip"
    [] r.tagged /\ r.github ->
       CASE reply.kind \in {"status", "unreachable"} -> "skip"
         [] reply.kind = "absent" -> "fail"
         [] reply.kind = "release" ->
              IF ~reply.draft /\ \E a \in reply.assets : SigningAssetFor(a, r.digest)
              THEN "pass" ELSE "fail"

\* parseTlv and findSpki: the first element of the certificate that is a
\* sequence whose first element names the EC algorithm.
FindSpki(cert) ==
  SelectInSeq(cert.elements,
              LAMBDA x : x.tag = "sequence" /\ x.algorithm = "ec")

\* extractP256PublicKey: the key, or 0.
ExtractKey(cert) ==
  LET i == FindSpki(cert) IN
  IF cert.broken \/ i = 0 THEN 0
  ELSE LET spki == cert.elements[i] IN
       IF /\ spki.curve = "P-256" /\ spki.bits = "bit string"
          /\ spki.unused = 0 /\ spki.length = 65 /\ spki.point = "uncompressed"
       THEN spki.key ELSE 0

\* derSigToCompact: 64 bytes are taken for the compact form as they are, a
\* DER signature is unpacked, anything else is an error.
DerSigToCompact(sig) ==
  CASE sig.length = 64 -> IF sig.form = "compact" THEN sig.by ELSE Nothing
    [] sig.length # 64 -> IF sig.form = "der" THEN sig.by ELSE Nothing

\* computePae and verifyDsseSignature: the first signature that is not empty,
\* over the payload and its type.
VerifyDsseSignature(b, key) ==
  LET i == SelectInSeq(b.signatures, LAMBDA s : s.length > 0)
  IN i > 0 /\ DerSigToCompact(b.signatures[i]) = [key |-> key, body |-> b.payload]

\* findMatchingSubject
FindMatchingSubject(b, digest) == digest \in b.payload.subjects

\* createBuildProvenanceCheck with parseSigstoreBundle: the issuer and the
\* identity are looked at when they are configured (config.ts).
BuildProvenance(r, config) ==
  CASE r.bundle = Nothing -> "skip"
    [] r.bundle # Nothing ->
       LET b == r.bundle IN
       IF /\ ~b.broken
          /\ \E i \in DOMAIN b.signatures : b.signatures[i].length > 0
          /\ FindMatchingSubject(b, r.digest)
          /\ config.issuer # 0 => b.payload.issuer = config.issuer
          /\ config.identity # 0 => b.payload.identity = config.identity
          /\ ExtractKey(b.certificate) # 0
          /\ VerifyDsseSignature(b, ExtractKey(b.certificate))
       THEN "skip"   \* the certificate chain and the log are not verified yet
       ELSE "fail"

-----------------------------------------------------------------------------
(* The verdict.                                                            *)

\* Mutant: a skipped check decides before a failed one.
DetermineVerdictSkipFirst(results) ==
  IF "skip" \in results THEN "partial"
  ELSE IF "fail" \in results THEN "rejected" ELSE "verified"

\* determineVerdict
DetermineVerdict(results) ==
  IF "fail" \in results THEN "rejected"
  ELSE IF "skip" \in results THEN "partial" ELSE "verified"

\* determineVerifiedTier: source-verified is the most this verifier gives.
DetermineVerifiedTier(verdict, requested) ==
  IF verdict = "verified" /\ requested # Unverified THEN "source-verified"
  ELSE Unverified

\* deriveProvenanceMap: no check backs a field of its own.
DeriveProvenanceMap(tier) == IF tier = Unverified THEN {} ELSE {"trustTier"}

\* seal.verify: the three seal checks on the envelope the manager has and the
\* key resolveSealPublicKey found, one after the other.
SealVerify(envelope, key) ==
  LET r == [seal |-> envelope.current, envelope |-> envelope, key |-> key]
      results == {SealSignature(r), SealChainCheck(r), SchemaCompliance(r)}
  IN IF "error" \in results THEN "error" ELSE DetermineVerdict(results)

-----------------------------------------------------------------------------
VfInit ==
  /\ instant = 0
  /\ timestamps = [s \in Requesters |-> <<>>]
  /\ served = [s \in Requesters |-> <<>>]
  /\ job = NoJob
  /\ selfSeal = [cached |-> 0, signings |-> <<>>,
                 waits |-> [c \in SealCallers |-> 0]]

\* Mutant: an entry leaves the window one instant too early.
ValidOneTooEarly(times, now) ==
  LET first == SelectInSeq(times, LAMBDA t : t > now - Window)
  IN IF first = 0 THEN <<>> ELSE SubSeq(times, first, Len(times))

\* The entries of a requester from the first one on that is still in the window.
Valid(times, now) ==
  LET first == SelectInSeq(times, LAMBDA t : t >= now - Window)
  IN IF first = 0 THEN <<>> ELSE SubSeq(times, first, Len(times))

\* rateLimiter.check: evict, refuse at the limit, else record.
Admitted(s) == Len(Valid(timestamps[s], instant)) < MaxRequests

\* handleRequest, up to its first await.
HandleRequest(s, r) ==
  LET valid == Valid(timestamps[s], instant) IN
  /\ job.pc \in {"idle", "answered"}
  /\ IF Admitted(s)
     THEN /\ timestamps' = [timestamps EXCEPT ![s] = Append(valid, instant)]
          /\ served' = [served EXCEPT ![s] = Append(@, instant)]
          /\ job' = [NoJob EXCEPT !.pc = "checks", !.request = r]
     ELSE /\ timestamps' = [timestamps EXCEPT ![s] = valid]
          /\ job' = [NoJob EXCEPT !.pc = "sign", !.request = r,
                                  !.verdict = "rejected"]
          /\ UNCHANGED served
  /\ UNCHANGED <<instant, selfSeal>>

\* The six checks are done; one that erred fails the request.
ChecksDone(source, release, config) ==
  /\ job.pc = "checks"
  /\ LET r == job.request
         results == {SourceAvailable(source), BuildProvenance(r, config),
                     ReleaseSigning(r, release), SealSignature(r),
                     SealChainCheck(r), SchemaCompliance(r)}
     IN job' = IF "error" \in results
               THEN [job EXCEPT !.pc = "answered", !.verdict = "error"]
               ELSE [job EXCEPT !.pc = "sign",
                        !.verdict = DetermineVerdict(results),
                        !.tier = DetermineVerifiedTier(DetermineVerdict(results),
                                                       r.tier)]
  /\ UNCHANGED <<instant, timestamps, served, selfSeal>>

\* buildAndSignStatement: sign may throw.
SignStatement ==
  /\ job.pc = "sign"
  /\ \/ job' = [job EXCEPT !.pc = "answered"]
     \/ job' = [job EXCEPT !.pc = "answered", !.verdict = "error", !.tier = Unverified]
  /\ UNCHANGED <<instant, timestamps, served, selfSeal>>

InstantPasses ==
  /\ instant < MaxTime /\ instant' = instant + 1
  /\ UNCHANGED <<timestamps, served, job, selfSeal>>

\* selfSeal: the cached promise, or a new signing that is cached at once.
SelfSeal(c) ==
  /\ selfSeal.waits[c] = 0
  /\ IF selfSeal.cached # 0
     THEN selfSeal' = [selfSeal EXCEPT !.waits[c] = selfSeal.cached]
     ELSE /\ Len(selfSeal.signings) < MaxSignings
          /\ LET n == Len(selfSeal.signings) + 1 IN
             selfSeal' = [selfSeal EXCEPT !.signings = Append(@, "pending"),
                                          !.cached = n, !.waits[c] = n]
  /\ UNCHANGED <<instant, timestamps, served, job>>

\* buildAndSignSelfSeal settles; an error empties the cache.
SelfSealSigned(n, outcome) ==
  /\ n \in DOMAIN selfSeal.signings /\ selfSeal.signings[n] = "pending"
  /\ selfSeal' = [selfSeal EXCEPT !.signings[n] = outcome,
                                  !.cached = IF outcome = "error" THEN 0 ELSE @]
  /\ UNCHANGED <<instant, timestamps, served, job>>

\* The caller has its answer.
SelfSealAnswered(c) ==
  /\ selfSeal.waits[c] # 0
  /\ selfSeal.signings[selfSeal.waits[c]] # "pending"
  /\ selfSeal' = [selfSeal EXCEPT !.waits[c] = 0]
  /\ UNCHANGED <<instant, timestamps, served, job>>

\* The parts of the service, over the requests and replies it may meet.
VfServe(presented, sources, releases, configs) ==
  \/ \E s \in Requesters, r \in presented : HandleRequest(s, r)
  \/ \E source \in sources, release \in releases, config \in configs :
        ChecksDone(source, release, config)
  \/ SignStatement

VfSelfSeal ==
  \/ \E c \in SealCallers : SelfSeal(c) \/ SelfSealAnswered(c)
  \/ \E n \in 1..MaxSignings, outcome \in {"ok", "error"} : SelfSealSigned(n, outcome)

VerifierNext(presented, sources, releases, configs) ==
  InstantPasses \/ VfSelfSeal \/ VfServe(presented, sources, releases, configs)

VerifierSpec(presented, sources, releases, configs) ==
  VfInit /\ [][VerifierNext(presented, sources, releases, configs)]_vfvars

-----------------------------------------------------------------------------
\* However the requests of a requester are spread, no period as long as the
\* window, wherever it begins, has more than maxRequests of them admitted
\* (rateLimiter.check).
WindowHolds ==
  \A s \in Requesters : \A t \in 0..MaxTime :
     Cardinality({i \in DOMAIN served[s] : served[s][i] \in t .. t + Window})
        <= MaxRequests

\* What the request itself gives away: an envelope that is not the seal's,
\* whose chain or delta does not hold or that another key signed, or a bundle
\* about another artifact.
Contradicted(r) ==
  \/ /\ r.seal # Nothing /\ r.envelope # Nothing
     /\ \/ r.envelope.current # r.seal
        \/ ~ValidateSealChain(r.envelope) \/ ~VerifyChainDelta(r.envelope)
        \/ r.key > 0 /\ r.envelope.signature # [key |-> r.key, body |-> r.seal]
  \/ r.bundle # Nothing /\ r.digest \notin r.bundle.payload.subjects

\* No check that is skipped, whichever others run and whatever they meet
\* outside, covers for one that fails: a request that contradicts itself is
\* rejected or errs, what seal.verify rejects the verifier rejects too, and a
\* tier is attested only for a request whose every check passed
\* (service.handleRequest, determineVerdict).
ContradictionsAreRejected ==
  job.pc = "answered" =>
    LET r == job.request IN
    /\ Contradicted(r) => job.verdict \in {"rejected", "error"}
    /\ (r.envelope # Nothing /\ r.envelope.current = r.seal
           /\ SealVerify(r.envelope, r.key) = "rejected")
       => job.verdict \in {"rejected", "error"}
    /\ DeriveProvenanceMap(job.tier) # {} => job.verdict = "verified"

\* Callers that overlap share one signing, one success is the seal from then
\* on, and an error is never what a later caller finds (service.selfSeal).
OneSelfSeal ==
  /\ Cardinality({n \in DOMAIN selfSeal.signings :
                     selfSeal.signings[n] # "error"}) <= 1
  /\ selfSeal.cached # 0 => selfSeal.signings[selfSeal.cached] # "error"

\* Requests that overlap are limited, and share the seal of the verifier.
OverlapsAreSafe == WindowHolds /\ OneSelfSeal
=============================================================================
