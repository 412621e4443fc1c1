------------------------ MODULE MCCredentialManager ------------------------
(***************************************************************************)
(* Instances of CredentialManager for TLC.                                 *)
(***************************************************************************)
EXTENDS CredentialManager

CONSTANTS s1, s2

\* "wide" allows both scopes, "narrow" denies one of them: wide -> narrow is a
\* reduction, narrow -> wide an escalation by the removal of a deny.
Wide   == [allow |-> {s1, s2}, deny |-> {}]
Narrow == [allow |-> {s1, s2}, deny |-> {s2}]

MCScopes == {s1, s2}
MCScopeSets == {Wide, Narrow}
=============================================================================
