---------------------------- MODULE PolicyDelta ----------------------------
(***************************************************************************)
(* The three pure functions that decide what a change of scopes means:     *)
(* checkMateriality (packages/sessions/src/materiality.ts) for a           *)
(* credential update, computePayloadDelta (packages/seals/src/             *)
(* compute-delta.ts) for the delta a seal carries, and the two             *)
(* classifications of such a delta (packages/policy/src/materiality.ts).   *)
(* CredentialManager and SealManager use their results in the reduced form *)
(* that the theorems of DecisionProofs justify.                            *)
(***************************************************************************)
EXTENDS FiniteSets

CONSTANT Scopes

VARIABLES
    old,   \* the policy in force: an allow list and a deny list
    new    \* the policy asked for

vars == <<old, new>>

Policy == [allow : SUBSET Scopes, deny : SUBSET Scopes]

\* resolveScopeSet: deny wins.
Effective(p) == p.allow \ p.deny

Delta == [added : SUBSET Scopes, removed : SUBSET Scopes,
          toAllow : SUBSET Scopes, toDeny : SUBSET Scopes]

-----------------------------------------------------------------------------
\* checkMateriality: compare the effective sets, scope by scope; a gained
\* scope that either old list mentions is a change from deny to allow.
CheckMateriality(o, n) ==
    LET gained == Effective(n) \ Effective(o)
        lost   == Effective(o) \ Effective(n)
    IN [added   |-> gained \ (o.allow \cup o.deny),
        removed |-> lost \ n.deny,
        toAllow |-> gained \cap (o.allow \cup o.deny),
        toDeny  |-> lost \cap n.deny]

\* Variant: the deny toggles of a scope that stays allowed are left out.
ComputePayloadDeltaWithoutToggles(o, n) ==
    [added   |-> (n.allow \ (o.allow \cup o.deny)) \cup (o.deny \ (n.deny \cup n.allow)),
     removed |-> (o.allow \ (n.allow \cup n.deny)) \cup (n.deny \ (o.deny \cup o.allow)),
     toAllow |-> (n.allow \ o.allow) \cap o.deny,
     toDeny  |-> (o.allow \ n.allow) \cap n.deny]

\* computePayloadDelta: its six loops, on the lists themselves.
ComputePayloadDelta(o, n) ==
    LET kept == o.allow \cap n.allow IN
    [added   |-> (n.allow \ (o.allow \cup o.deny)) \cup (o.deny \ (n.deny \cup n.allow)),
     removed |-> (o.allow \ (n.allow \cup n.deny)) \cup (n.deny \ (o.deny \cup o.allow)),
     toAllow |-> ((n.allow \ o.allow) \cap o.deny) \cup (kept \cap (o.deny \ n.deny)),
     toDeny  |-> ((o.allow \ n.allow) \cap n.deny) \cup (kept \cap (n.deny \ o.deny))]

\* isMaterialChange (and checkMateriality's isMaterial).
IsMaterial(d) == d.added # {} \/ d.removed # {} \/ d.toAllow # {} \/ d.toDeny # {}

\* Variant: only new scopes count as an escalation.
RequiresReauthorizationForAdded(d) == d.added # {}

\* requiresReauthorization: privileges grow.
RequiresReauthorization(d) == d.added # {} \/ d.toAllow # {}

-----------------------------------------------------------------------------
Init == old \in Policy /\ new \in Policy

\* The policy asked for is put in force and another one is asked for.
Apply(p) == old' = new /\ new' = p

Next == \E p \in Policy : Apply(p)

Spec == Init /\ [][Next]_vars

-----------------------------------------------------------------------------
\* Both are policies.
TypeOK == old \in Policy /\ new \in Policy

\* An update of a credential asks for reauthorization exactly when it would
\* allow something that was not allowed, through whichever combination of
\* the two lists.
EscalationIsExact ==
    RequiresReauthorization(CheckMateriality(old, new))
        <=> ~(Effective(new) \subseteq Effective(old))

\* The delta of a seal is empty exactly when both lists are the same: issue
\* never skips a seal because a change cancelled out in the delta.
DeltaIsComplete ==
    ~IsMaterial(ComputePayloadDelta(old, new)) <=> old = new

\* The two notions of a delta agree where it matters: what the credential
\* side treats as an escalation is one in the seal's delta too, and what
\* changes permissions is never invisible in the chat.
DeltasAgree ==
    LET check == CheckMateriality(old, new)
        seal  == ComputePayloadDelta(old, new)
    IN /\ RequiresReauthorization(check) => RequiresReauthorization(seal)
       /\ IsMaterial(check) => IsMaterial(seal)

=============================================================================
