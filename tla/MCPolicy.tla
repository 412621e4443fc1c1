------------------------------ MODULE MCPolicy ------------------------------
(***************************************************************************)
(* The decisions of the signet, one part at a time: a behaviour runs the   *)
(* part focus names and leaves the others where they begin.                *)
(***************************************************************************)
EXTENDS PolicyDelta, Projection, Verifier, AdminTokens, Directory

VARIABLE focus

policyVars == <<vars, pvars, vfvars, tvars, dvars, focus>>

-----------------------------------------------------------------------------
\* Requests of the verifier: a good one, and each claim varied.
GoodSeal == [sealId |-> 2, chatId |-> 1, operatorId |-> 1, credentialId |-> 1,
             issuedAt |-> 2, scopeMode |-> 1, allow |-> {"send"}]
OlderSeal == [GoodSeal EXCEPT !.sealId = 1, !.issuedAt = 1, !.allow = {"react"}]

Seals == {Nothing, GoodSeal, [GoodSeal EXCEPT !.sealId = 0],
          [GoodSeal EXCEPT !.issuedAt = -1], [GoodSeal EXCEPT !.allow = {}]}

Envelopes ==
  {Nothing} \cup
  {[current |-> GoodSeal, previous |-> previous, delta |-> delta,
    signature |-> [key |-> key, body |-> GoodSeal]] :
     previous \in {Nothing, OlderSeal, [OlderSeal EXCEPT !.chatId = 2],
                   [OlderSeal EXCEPT !.issuedAt = 3]},
     delta \in {[added |-> {}, removed |-> {}],
                [added |-> {"send"}, removed |-> {"react"}]},
     key \in {1, 2}}

GoodCertificate ==
  [broken |-> FALSE,
   elements |-> <<[tag |-> "integer"],
                  [tag |-> "sequence", algorithm |-> "ec", curve |-> "P-256",
                   bits |-> "bit string", unused |-> 0, length |-> 65,
                   point |-> "uncompressed", key |-> 1]>>]
Statement == [subjects |-> {"d1"}, issuer |-> 1, identity |-> 1]
Signature == [length |-> 70, form |-> "der", by |-> [key |-> 1, body |-> Statement]]

Bundles ==
  LET bundle(certificate, signatures) ==
        [broken |-> FALSE, payload |-> Statement, certificate |-> certificate,
         signatures |-> signatures]
      other == [GoodCertificate.elements[2] EXCEPT !.curve = "P-384"]
  IN {Nothing,
      bundle(GoodCertificate, <<Signature>>),
      bundle([GoodCertificate EXCEPT !.elements[2] = other], <<Signature>>),
      bundle(GoodCertificate, <<[Signature EXCEPT !.length = 0], Signature>>),
      bundle(GoodCertificate, <<[Signature EXCEPT !.length = 64]>>),
      [bundle(GoodCertificate, <<Signature>>) EXCEPT !.broken = TRUE]}

Presented ==
  {[seal |-> seal, envelope |-> envelope, key |-> key, bundle |-> bundle,
    digest |-> digest, tagged |-> tagged, github |-> TRUE, tier |-> "source-verified"] :
     seal \in Seals, envelope \in Envelopes, key \in {0, 1, -1},
     bundle \in Bundles, digest \in {"d1", "d2"}, tagged \in BOOLEAN}

Plain == CHOOSE r \in Presented : r.seal = Nothing /\ r.bundle = Nothing /\ ~r.tagged

Releases ==
  {[kind |-> kind, draft |-> FALSE, assets |-> {}] :
     kind \in {"status", "unreachable", "absent"}}
  \cup {[kind |-> "release", draft |-> draft, assets |-> {asset}] :
          draft \in BOOLEAN,
          asset \in {[signing |-> TRUE, digest |-> "d1"],
                     [signing |-> FALSE, digest |-> "d1"]}}

Configs == {[issuer |-> i, identity |-> d] : i \in {0, 2}, d \in {0, 1}}

Messages ==
  {[id |-> "m1", group |-> "g1", thread |-> "t1", sender |-> "b1", type |-> "text",
    sentAt |-> 1],
   [id |-> "m2", group |-> "g2", thread |-> "t1", sender |-> "b1", type |-> "text",
    sentAt |-> 1]}

ReadGrants ==
  {[allow |-> {}, deny |-> {}],
   [allow |-> {"read-history"}, deny |-> {}],
   [allow |-> {"read-messages", "read-history"}, deny |-> {"read-messages"}],
   [allow |-> {"read-messages", "read-history"}, deny |-> {}]}

CallerSymmetry == Permutations(Callers)

KnownInboxes == {[id |-> "i1", label |-> "alpha", network |-> "n1"]}
KnownMappings == {[network |-> "n1", local |-> "i1"]}

-----------------------------------------------------------------------------
PolicyInit ==
  /\ focus \in {"delta", "show", "rate", "checks", "self", "tokens", "names"}
  /\ Init /\ (focus # "delta" => old = new /\ old.allow = {} /\ old.deny = {})
  /\ PjInit /\ (focus # "show" => granted.allow = {})
  /\ VfInit
  /\ TokenInit /\ (focus # "tokens" => \A p \in Parties : adminKey[p] = 1)
  /\ DInit

PolicyNext ==
  \/ /\ focus = "delta" /\ Next
     /\ UNCHANGED <<pvars, vfvars, tvars, dvars, focus>>
  \/ /\ focus = "show" /\ PjNext
     /\ UNCHANGED <<vars, vfvars, tvars, dvars, focus>>
  \/ /\ focus = "rate"
     /\ \/ InstantPasses
        \/ VfServe({Plain}, {"ok"}, {CHOOSE x \in Releases : TRUE},
                   {CHOOSE x \in Configs : TRUE})
     /\ UNCHANGED <<vars, pvars, tvars, dvars, focus>>
  \/ /\ focus = "checks" /\ job.pc # "answered"
     /\ VfServe(Presented, {"ok", "unreachable"}, Releases, Configs)
     /\ UNCHANGED <<vars, pvars, tvars, dvars, focus>>
  \/ /\ focus = "self" /\ VfSelfSeal
     /\ UNCHANGED <<vars, pvars, tvars, dvars, focus>>
  \/ /\ focus = "tokens" /\ TokenNext
     /\ UNCHANGED <<vars, pvars, vfvars, dvars, focus>>
  \/ /\ focus = "names" /\ DNext
     /\ UNCHANGED <<vars, pvars, vfvars, tvars, focus>>

PolicySpec == PolicyInit /\ [][PolicyNext]_policyVars
=============================================================================
