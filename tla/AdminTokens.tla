----------------------------- MODULE AdminTokens -----------------------------
(***************************************************************************)
(* The admin JWT (packages/keys/src/jwt.ts and the admin half of           *)
(* key-manager-compat.ts): the CLI signs one for each command, the daemon  *)
(* verifies it.  They are two processes, each with the key it read from    *)
(* its data directory and a clock of its own.                              *)
(***************************************************************************)
EXTENDS Integers

CONSTANTS
    ClockSkew,    \* the tolerance of verifyJwt, in seconds
    TokenTtls,    \* the lifetimes a command may ask for
    MaxDrift,     \* bound: how far the clocks may be apart
    MaxSeconds    \* bound: the last second of either clock

ASSUME TokenAssumption == ClockSkew \in Nat /\ TokenTtls \subseteq Nat /\ MaxDrift \in Nat

VARIABLES
    second,      \* the clock of each process, in whole seconds
    adminKey,    \* the admin key of each process
    token,       \* the token last sent
    answer       \* what the daemon said of it

tvars == <<second, adminKey, token, answer>>

Parties == {"cli", "daemon"}
NoKey == 0
NoToken == [form |-> "none", key |-> 0, iat |-> 0, exp |-> 0]

\* decodeJwt, the header and AdminJwtPayloadSchema: what a token may be wrong in.
Forms == {"jwt", "parts", "encoding", "algorithm", "claims"}

-----------------------------------------------------------------------------
TokenInit ==
  /\ second = [p \in Parties |-> 1]
  /\ adminKey \in [Parties -> {NoKey, 1, 2}]
  /\ token = NoToken /\ answer = "none"

SecondPasses(p) ==
  /\ second[p] < MaxSeconds
  /\ second' = [second EXCEPT ![p] = @ + 1]
  /\ second'["cli"] - second'["daemon"] \in -MaxDrift .. MaxDrift
  /\ UNCHANGED <<adminKey, token>> /\ answer' = "none"

\* admin.signJwt: header, claims and signature.
SignJwt(ttl) ==
  [form |-> "jwt", key |-> adminKey["cli"],
   iat |-> second["cli"], exp |-> second["cli"] + ttl]

\* createWithDaemonClient: the configuration and the key manager are loaded,
\* a token is signed if there is an admin key, and the socket is connected; a
\* step that fails ends the command with nothing sent.
WithDaemonClient(ttl) ==
  /\ \/ adminKey["cli"] # NoKey /\ token' = SignJwt(ttl)
     \/ token' = NoToken
  /\ answer' = "none"
  /\ UNCHANGED <<second, adminKey>>

\* A client of another kind sends something else.
SendOther(form) ==
  /\ form # "jwt"
  /\ token' = [NoToken EXCEPT !.form = form]
  /\ answer' = "none"
  /\ UNCHANGED <<second, adminKey>>

\* Mutant: the issue time is compared without the tolerance.
VerifyWithoutSkew(t, key, now) ==
  IF t.form # "jwt" THEN "malformed"
  ELSE IF t.key # key THEN "signature"
  ELSE IF t.exp <= now - ClockSkew THEN "expired"
  ELSE IF t.iat > now THEN "future" ELSE "accepted"

\* verifyJwt: form and claims, then the signature, then the two times.
Verify(t, key, now) ==
  IF t.form # "jwt" THEN "malformed"
  ELSE IF t.key # key THEN "signature"
  ELSE IF t.exp <= now - ClockSkew THEN "expired"
  ELSE IF t.iat > now + ClockSkew THEN "future" ELSE "accepted"

\* admin.verifyJwt in the daemon.
VerifyJwt ==
  /\ token # NoToken
  /\ answer' = IF adminKey["daemon"] = NoKey THEN "not initialized"
               ELSE Verify(token, adminKey["daemon"], second["daemon"])
  /\ UNCHANGED <<second, adminKey, token>>

TokenNext ==
  \/ \E p \in Parties : SecondPasses(p)
  \/ \E ttl \in TokenTtls : WithDaemonClient(ttl)
  \/ \E form \in Forms : SendOther(form)
  \/ VerifyJwt

TokenSpec == TokenInit /\ [][TokenNext]_tvars

-----------------------------------------------------------------------------
\* The tolerance does what it is for: a token of the same key that has not
\* expired by the clock it was signed with is accepted whenever the clocks
\* are within the tolerance of each other, and no token is accepted once it
\* has expired by the tolerance on the clock that verifies it
\* (verifyJwt, jwt.ts:310).
AnswersFitTheClocks ==
  LET timely == /\ answer # "none" /\ token.form = "jwt"
                /\ token.key = adminKey["daemon"]
                /\ second["cli"] - second["daemon"] \in -ClockSkew .. ClockSkew
                /\ second["cli"] < token.exp
  IN /\ timely => answer = "accepted"
     /\ answer = "accepted" => /\ token.key = adminKey["daemon"]
                               /\ second["daemon"] < token.exp + ClockSkew
=============================================================================
