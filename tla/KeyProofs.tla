------------------------------ MODULE KeyProofs ------------------------------
(***************************************************************************)
(* Theorems about the two halves of the key manager: what it keeps on disk *)
(* (KeyStore) and the keys it works with (KeyRing).                        *)
(***************************************************************************)
EXTENDS KeyStore, KeyRing, FiniteSetTheorems, TLAPS

(***************************************************************************)
(* The key store.  Nothing is encrypted before the secret is on disk, and  *)
(* what is on disk then resolves to that secret at every later start,      *)
(* whatever the platform and the signer are: the software files come       *)
(* first, and the enclave's artifacts count only where there are none.     *)
(***************************************************************************)
Value == Nat \cup {Torn}
AdminNames == {"admin-key", "admin-key-pub"}

CallType ==
  [op : {"none", "initialize", "create", "getOrCreate", "set", "get", "delete"},
   pc : {"idle", "get", "migrate", "write", "gate", "unlink"}, name : Names, val : Nat]

SignetType ==
  [phase : {"down", "secret", "write", "opened", "init", "up"},
   provider : {"none", "software", "secure-enclave"}, file : SecretFiles \cup {"none"},
   cached : Nat, adminPub : Nat, adminPriv : Nat]

KeyType ==
  /\ files \in [SecretFiles -> Value] /\ vault \in [Names -> [val : Value, key : Nat]]
  /\ legacy \in [Names -> Nat] /\ signet \in SignetType /\ calls \in [Calls -> CallType]
  /\ gen \in Nat /\ promised \in [Names -> Nat] /\ disputed \subseteq Names /\ handed \subseteq Nat

\* A call k in a process in phase P.
CallOK(k, P) ==
  /\ k.op = "none" => k.pc = "idle"
  /\ k.op = "initialize" => P = "init" /\ k.pc \in {"get", "migrate"} /\ k.name \in AdminNames
  /\ k.op = "create" => P = "up" /\ k.name \in AdminNames /\ k.pc \in {"gate", "write"}
  /\ k.op = "getOrCreate" => P = "up" /\ k.name = "db-key" /\ k.pc \in {"get", "migrate", "write"}
  /\ k.op = "set" => P = "up" /\ k.name = "user" /\ k.pc = "write"
  /\ k.op = "get" => P = "up" /\ k.name = "user" /\ k.pc \in {"get", "migrate"}
  /\ k.op = "delete" => P = "up" /\ k.name = "user" /\ k.pc = "unlink"
  /\ k.pc \in {"migrate", "write"} /\ k.op # "create" => k.val > 0
  /\ k.op = "create" /\ k.pc = "gate" => k.name = "admin-key"

\* The files F give the next process the secret k, on every platform that starts.
Resolves(F, k) ==
  /\ k > 0
  /\ \/ F["vault.key"] = k
     \/ F["vault.key"] = Absent /\ F["vault-passphrase"] = k
     \/ /\ F["vault.key"] = Absent /\ F["vault-passphrase"] = Absent
        /\ F["se-vault-keyref"] # Absent /\ F["vault-sealed-box"] = k

\* What a process p that opens the store knows of the files F.
SecretOK(p, F) ==
  /\ p.phase \in {"secret", "write"} /\ p.provider = "secure-enclave" =>
       F["vault.key"] = Absent /\ F["vault-passphrase"] = Absent
  /\ p.phase = "secret" /\ p.provider = "software" =>
       \/ F["vault.key"] # Absent \/ F["vault-passphrase"] # Absent
       \/ F["se-vault-keyref"] = Absent
  /\ p.phase = "write" =>
       /\ F["vault.key"] = Absent /\ F["vault-passphrase"] = Absent /\ p.cached > 0
       /\ p.file \in {"vault-passphrase", "se-vault-keyref", "se-vault-pubkey", "vault-sealed-box"}
       /\ p.file \in {"se-vault-pubkey", "vault-sealed-box"} => F["se-vault-keyref"] # Absent
  /\ p.phase \in {"opened", "init", "up"} => Resolves(F, p.cached)

EntriesOK(V, F) == \A n \in Names : V[n].val > 0 => Resolves(F, V[n].key)

OneInitialize ==
  \A c, d \in Calls : calls[c].op = "initialize" /\ calls[d].op = "initialize" => c = d

KeyInv ==
  /\ KeyType /\ \A c \in Calls : CallOK(calls[c], signet.phase)
  /\ OneInitialize /\ SecretOK(signet, files) /\ EntriesOK(vault, files)
  /\ signet.phase = "write" => \A n \in Names : vault[n].val <= 0

\* The next start can only find one secret.
LEMMA ResolvesToOne ==
    ASSUME KeyType, NEW j \in Nat, NEW k \in Nat, Resolves(files, j), Resolves(files, k)
    PROVE  j = k
BY DEF Resolves, Absent

\* The invariant says that what is stored can be read.
LEMMA KeyInvIsReadable ==
    ASSUME KeyInv
    PROVE  VaultIsReadable
<1> SUFFICES ASSUME signet.phase \in {"opened", "init", "up"}, NEW n \in Names, vault[n].val > 0
             PROVE  vault[n].key = signet.cached
  BY DEF VaultIsReadable
<1>1. Resolves(files, signet.cached) /\ Resolves(files, vault[n].key)
  BY DEF KeyInv, SecretOK, EntriesOK
<1>2. KeyType /\ signet.cached \in Nat /\ vault[n].key \in Nat
  BY DEF KeyInv, KeyType, SignetType
<1> QED
  BY <1>1, <1>2, ResolvesToOne

\* Outside init and up no call is under way.
LEMMA NoCallsBefore ==
    ASSUME KeyInv, signet.phase \notin {"init", "up"}, NEW c \in Calls
    PROVE  calls[c].op = "none" /\ calls[c].pc = "idle"
<1>1. CallOK(calls[c], signet.phase) /\ calls[c] \in CallType
  BY DEF KeyInv, KeyType
<1> QED
  BY <1>1 DEF CallOK, CallType

\* A step that opens the store.
LEMMA OpeningKeepsInv ==
    ASSUME KeyInv, Opening
    PROVE  KeyInv'
<1>0. KeyType /\ signet \in SignetType /\ files \in [SecretFiles -> Value] /\ gen \in Nat
  BY DEF KeyInv, KeyType
<1>1. UNCHANGED <<vault, legacy, calls, crashes, promised, disputed, handed>>
  BY DEF Opening, OpenVault, ReadSecret, GenerateSecret, DecryptSecret, CreateEnclaveKey, WriteSecretFile
<1>2. signet.phase \in {"down", "secret", "write"}
  BY DEF Opening, OpenVault, ReadSecret, GenerateSecret, DecryptSecret, CreateEnclaveKey, WriteSecretFile
<1>3. \A c \in Calls : calls[c].op = "none" /\ calls[c].pc = "idle"
  BY <1>2, NoCallsBefore
<1>4. ASSUME files' \in [SecretFiles -> Value], signet' \in SignetType, gen' \in Nat,
             SecretOK(signet', files'), EntriesOK(vault, files'),
             signet'.phase = "write" => \A n \in Names : vault[n].val <= 0
      PROVE  KeyInv'
  <2>1. KeyType'
    BY <1>0, <1>1, <1>4 DEF KeyType
  <2>2. \A c \in Calls : CallOK(calls'[c], signet'.phase)
    BY <1>1, <1>3 DEF CallOK
  <2>3. OneInitialize'
    BY <1>1, <1>3 DEF OneInitialize
  <2>4. SecretOK(signet', files') /\ EntriesOK(vault', files')
        /\ (signet'.phase = "write" => \A n \in Names : vault'[n].val <= 0)
    BY <1>1, <1>4
  <2> QED
    BY <2>1, <2>2, <2>3, <2>4 DEF KeyInv
<1>5. SecretOK(signet, files) /\ EntriesOK(vault, files) /\ vault \in [Names -> [val : Value, key : Nat]]
      /\ (signet.phase = "write" => \A n \in Names : vault[n].val <= 0)
  BY DEF KeyInv, KeyType
<1>6. Down \in SignetType /\ Down.phase = "down" /\ SecretOK(Down, files')
  BY DEF Down, SignetType, SecretOK, Absent
<1>7. \A n \in Names : vault[n].val \in Int /\ vault[n].key \in Nat
  BY <1>5 DEF Value, Torn
<1>8. \A f \in SecretFiles : files[f] \in Int /\ files[f] >= -1
  BY <1>0 DEF Value, Torn
<1>9. ASSUME NEW platform \in Platforms, NEW found \in SignerFound, OpenVault(platform, found)
      PROVE  KeyInv'
  <2>1. PICK p : p = Provider(platform, found)
    OBVIOUS
  <2>2. p # "error" /\ signet' = [Down EXCEPT !.phase = "secret", !.provider = p]
        /\ files' = files /\ gen' = gen
    BY <1>9, <2>1 DEF OpenVault
  <2>3. /\ p \in {"software", "secure-enclave"}
        /\ p = "secure-enclave" => files["vault.key"] = Absent /\ files["vault-passphrase"] = Absent
        /\ p = "software" => \/ files["vault.key"] # Absent \/ files["vault-passphrase"] # Absent
                             \/ files["se-vault-keyref"] = Absent
    <3>1. ArtifactState \in {"existing", "fresh", "incomplete"}
      BY DEF ArtifactState
    <3>2. ArtifactState = "fresh" => files["se-vault-keyref"] = Absent
      BY DEF ArtifactState, Exists
    <3> QED
      BY <2>1, <2>2, <3>1, <3>2 DEF Provider, Exists
  <2>4. signet' \in SignetType /\ signet'.phase = "secret" /\ signet'.provider = p
    BY <2>2, <2>3 DEF SignetType, Down, Absent
  <2>5. SecretOK(signet', files')
    BY <2>2, <2>3, <2>4 DEF SecretOK
  <2> QED
    BY <1>0, <1>4, <1>5, <2>2, <2>4, <2>5
<1>10. CASE ReadSecret
  <2>1. PICK v : v = files[SecretFile]
    OBVIOUS
  <2>2. /\ signet.phase = "secret" /\ v # Absent /\ v >= -1 /\ v \in Int
        /\ v = IF files["vault.key"] # Absent THEN files["vault.key"] ELSE files["vault-passphrase"]
        /\ signet' = Down \/ (v # Torn /\ signet' = [signet EXCEPT !.phase = "opened", !.cached = v])
        /\ files' = files /\ gen' = gen
    BY <1>8, <1>10, <2>1 DEF ReadSecret, SecretFile, Exists, SecretFiles
  <2>3. CASE signet' = Down
    BY <1>0, <1>4, <1>5, <1>6, <2>2, <2>3
  <2>4. CASE v # Torn /\ signet' = [signet EXCEPT !.phase = "opened", !.cached = v]
    <3>1. v \in Nat /\ v > 0
      BY <2>2, <2>4 DEF Torn, Absent
    <3>2. signet' \in SignetType /\ signet'.phase = "opened" /\ signet'.cached = v
      BY <1>0, <2>4, <3>1 DEF SignetType
    <3>3. Resolves(files, v)
      BY <2>2, <3>1 DEF Resolves
    <3>4. SecretOK(signet', files')
      BY <2>2, <3>2, <3>3 DEF SecretOK
    <3> QED
      BY <1>0, <1>4, <1>5, <2>2, <3>2, <3>4
  <2> QED
    BY <2>2, <2>3, <2>4
<1>11. CASE GenerateSecret
  <2>1. /\ signet.phase = "secret" /\ signet.provider = "software"
        /\ files["vault.key"] = Absent /\ files["vault-passphrase"] = Absent
        /\ gen' = gen + 1 /\ files' = files
        /\ signet' = [signet EXCEPT !.phase = "write", !.file = "vault-passphrase", !.cached = gen + 1]
    BY <1>11 DEF GenerateSecret, SecretFile, Exists
  <2>2. files["se-vault-keyref"] = Absent
    BY <1>5, <2>1 DEF SecretOK
  <2>3. \A n \in Names : vault[n].val <= 0
    <3>1. \A k \in Nat : ~Resolves(files, k)
      BY <2>1, <2>2 DEF Resolves, Absent
    <3> QED
      BY <1>5, <1>7, <3>1 DEF EntriesOK
  <2>6. PICK v \in Nat : v = gen + 1 /\ v > 0
    BY <1>0
  <2>4. signet' \in SignetType /\ signet'.phase = "write" /\ signet'.file = "vault-passphrase"
        /\ signet'.cached > 0
    BY <1>0, <2>1, <2>6 DEF SignetType, SecretFiles
  <2>5. SecretOK(signet', files')
    BY <2>1, <2>4 DEF SecretOK
  <2> QED
    BY <1>0, <1>4, <1>5, <2>1, <2>3, <2>4, <2>5
<1>12. CASE DecryptSecret
  <2>1. signet.phase = "secret" /\ signet.provider = "secure-enclave" /\ files' = files /\ gen' = gen
        /\ files["se-vault-keyref"] # Absent /\ files["vault-sealed-box"] # Absent
    BY <1>12 DEF DecryptSecret, ArtifactState, Exists
  <2>2. files["vault.key"] = Absent /\ files["vault-passphrase"] = Absent
    BY <1>5, <2>1 DEF SecretOK
  <2>3. CASE signet' = Down
    BY <1>0, <1>4, <1>5, <1>6, <2>1, <2>3
  <2>4. CASE signet' # Down
    <3>1. PICK v : v = files["vault-sealed-box"]
      OBVIOUS
    <3>2. v # Torn /\ signet' = [signet EXCEPT !.phase = "opened", !.cached = v]
      BY <1>12, <2>4, <3>1 DEF DecryptSecret, SignerAnswers
    <3>3. v \in Nat /\ v > 0
      BY <1>8, <2>1, <3>1, <3>2 DEF SecretFiles, Absent, Torn
    <3>4. signet' \in SignetType /\ signet'.phase = "opened" /\ signet'.cached = v
      BY <1>0, <3>2, <3>3 DEF SignetType
    <3>5. Resolves(files, v)
      BY <2>1, <2>2, <3>1, <3>3 DEF Resolves
    <3>6. SecretOK(signet', files')
      BY <2>1, <3>4, <3>5 DEF SecretOK
    <3> QED
      BY <1>0, <1>4, <1>5, <2>1, <3>4, <3>6
  <2> QED
    BY <2>3, <2>4
<1>13. CASE CreateEnclaveKey
  <2>1. signet.phase = "secret" /\ signet.provider = "secure-enclave" /\ files' = files
        /\ files["se-vault-keyref"] = Absent
    BY <1>13 DEF CreateEnclaveKey, ArtifactState, Exists
  <2>2. files["vault.key"] = Absent /\ files["vault-passphrase"] = Absent
    BY <1>5, <2>1 DEF SecretOK
  <2>3. CASE signet' = Down /\ gen' = gen
    BY <1>0, <1>4, <1>5, <1>6, <2>1, <2>3
  <2>4. CASE ~(signet' = Down /\ gen' = gen)
    <3>1. gen' = gen + 1 /\ signet' = [signet EXCEPT !.phase = "write", !.file = "se-vault-keyref",
                                         !.cached = gen + 1]
      BY <1>13, <2>4 DEF CreateEnclaveKey, SignerAnswers
    <3>2. \A n \in Names : vault[n].val <= 0
      <4>1. \A k \in Nat : ~Resolves(files, k)
        BY <2>1, <2>2 DEF Resolves, Absent
      <4> QED
        BY <1>5, <1>7, <4>1 DEF EntriesOK
    <3>5. PICK v \in Nat : v = gen + 1 /\ v > 0
      BY <1>0
    <3>3. signet' \in SignetType /\ signet'.phase = "write" /\ signet'.file = "se-vault-keyref"
          /\ signet'.cached > 0
      BY <1>0, <3>1, <3>5 DEF SignetType, SecretFiles
    <3>4. SecretOK(signet', files')
      BY <2>1, <2>2, <3>3 DEF SecretOK
    <3> QED
      BY <1>0, <1>4, <1>5, <2>1, <3>1, <3>2, <3>3, <3>4
  <2> QED
    BY <2>3, <2>4
<1>14. CASE WriteSecretFile
  <2>1. /\ signet.phase = "write" /\ gen' = gen /\ signet.cached > 0 /\ signet.cached \in Nat
        /\ files["vault.key"] = Absent /\ files["vault-passphrase"] = Absent
        /\ signet.file \in {"vault-passphrase", "se-vault-keyref", "se-vault-pubkey", "vault-sealed-box"}
        /\ signet.file \in {"se-vault-pubkey", "vault-sealed-box"} => files["se-vault-keyref"] # Absent
        /\ \A n \in Names : vault[n].val <= 0
    BY <1>0, <1>5, <1>14 DEF WriteSecretFile, SecretOK, SignetType
  <2>2. ASSUME NEW F PROVE EntriesOK(vault, F)
    BY <1>7, <2>1 DEF EntriesOK
  <2>3. ASSUME NEW left \in {Absent, Torn}, files' = [files EXCEPT ![signet.file] = left], signet' = Down
        PROVE  KeyInv'
    <3>2. left \in Value
      BY <2>3 DEF Value, Absent
    <3>1. files' \in [SecretFiles -> Value]
      BY <1>0, <2>3, <3>2
    <3> QED
      BY <1>0, <1>4, <1>6, <2>1, <2>2, <2>3, <3>1
  <2>4. ASSUME files' = [files EXCEPT ![signet.file] = signet.cached],
               signet' = [signet EXCEPT !.file = NextFile(signet.file),
                            !.phase = IF NextFile(signet.file) = "none" THEN "opened" ELSE "write"]
        PROVE  KeyInv'
    <3>1. files' \in [SecretFiles -> Value]
      BY <1>0, <2>1, <2>4 DEF Value
    <3>2. PICK f : f = signet.file
      OBVIOUS
    <3>3. /\ files'[f] = signet.cached /\ \A g \in SecretFiles : g # f => files'[g] = files[g]
          /\ f \in SecretFiles
      BY <1>0, <2>1, <2>4, <3>2 DEF SecretFiles
    <3>4. PICK g : g = NextFile(f)
      OBVIOUS
    <3>5. /\ f = "se-vault-keyref" => g = "se-vault-pubkey"
          /\ f = "se-vault-pubkey" => g = "vault-sealed-box"
          /\ f \in {"vault-passphrase", "vault-sealed-box"} => g = "none"
      BY <3>4 DEF NextFile
    <3>6. g \in SecretFiles \cup {"none"}
      BY <2>1, <3>2, <3>5 DEF SecretFiles
    <3>7. /\ signet' \in SignetType /\ signet'.file = g /\ signet'.cached = signet.cached
          /\ signet'.provider = signet.provider
          /\ signet'.phase = IF g = "none" THEN "opened" ELSE "write"
      BY <1>0, <2>4, <3>2, <3>4, <3>6 DEF SignetType
    <3>8. CASE f = "vault-passphrase"
      <4>1. Resolves(files', signet.cached)
        BY <2>1, <3>3, <3>8 DEF Resolves, SecretFiles
      <4>2. SecretOK(signet', files')
        BY <3>5, <3>7, <3>8, <4>1 DEF SecretOK
      <4> QED
        BY <1>0, <1>4, <2>1, <2>2, <3>1, <3>5, <3>7, <3>8, <4>2
    <3>9. CASE f = "vault-sealed-box"
      <4>1. Resolves(files', signet.cached)
        BY <2>1, <3>2, <3>3, <3>9 DEF Resolves, SecretFiles
      <4>2. SecretOK(signet', files')
        BY <3>5, <3>7, <3>9, <4>1 DEF SecretOK
      <4> QED
        BY <1>0, <1>4, <2>1, <2>2, <3>1, <3>5, <3>7, <3>9, <4>2
    <3>10. CASE f \in {"se-vault-keyref", "se-vault-pubkey"}
      <4>1. files'["vault.key"] = Absent /\ files'["vault-passphrase"] = Absent
            /\ files'["se-vault-keyref"] # Absent
        BY <2>1, <3>2, <3>3, <3>10 DEF SecretFiles, Absent
      <4>2. SecretOK(signet', files')
        BY <2>1, <3>5, <3>7, <3>10, <4>1 DEF SecretOK
      <4> QED
        BY <1>0, <1>4, <2>1, <2>2, <3>1, <3>5, <3>7, <3>10, <4>2
    <3> QED
      BY <2>1, <3>2, <3>8, <3>9, <3>10
  <2> QED
    BY <1>14, <2>3, <2>4 DEF WriteSecretFile
<1> QED
  BY <1>9, <1>10, <1>11, <1>12, <1>13, <1>14 DEF Opening

\* What vault.get answers.
LEMMA ReadingsAreValues ==
    ASSUME KeyType, NEW n \in Names, NEW r \in Readings(n)
    PROVE  /\ r \in Value
           /\ r \notin {Absent, Torn} => r = vault[n].val
           /\ r = Absent => vault[n].val = Absent
<1>1. vault[n].val \in Value
  BY DEF KeyType
<1>2. PICK w : w = CASE vault[n].val = Absent -> Absent
                     [] Decrypts(n) -> vault[n].val
                     [] OTHER -> Torn
  OBVIOUS
<1>3. r = w \/ r = Torn
  BY <1>2 DEF Readings
<1>4. w \in {Absent, Torn, vault[n].val} /\ (w = Absent => vault[n].val = Absent)
  BY <1>1, <1>2 DEF Absent, Torn
<1>5. Torn # Absent /\ Absent \in Value /\ Torn \in Value
  BY DEF Torn, Absent, Value
<1> QED
  BY <1>1, <1>3, <1>4, <1>5

\* A call goes on with the answer of kv.get.
LEMMA AnswerMoves ==
    ASSUME KeyType, NEW c \in Calls, CallOK(calls[c], signet.phase),
           calls[c].pc \in {"get", "migrate"}, NEW r \in Value, Answer(c, r)
    PROVE  /\ \E k \in CallType : /\ calls' = [calls EXCEPT ![c] = k] /\ CallOK(k, signet'.phase)
                                  /\ k.op \in {"none", calls[c].op}
           /\ signet' \in SignetType /\ signet'.cached = signet.cached
           /\ \/ signet'.phase = signet.phase
              \/ signet.phase = "init" /\ signet'.phase = "up" /\ calls[c].op = "initialize"
           /\ gen' \in Nat /\ promised' = promised /\ handed' \subseteq Nat
<1>0. /\ calls \in [Calls -> CallType] /\ calls[c] \in CallType /\ signet \in SignetType
      /\ gen \in Nat /\ handed \subseteq Nat
  BY DEF KeyType
<1>1. NoCall \in CallType /\ NoCall.op = "none" /\ \A P : CallOK(NoCall, P)
  <2>1. NoCall \in CallType /\ NoCall.op = "none" /\ NoCall.pc = "idle"
    BY DEF NoCall, CallType, Names, Absent
  <2> QED
    BY <2>1 DEF CallOK
<1>2. r \in {Absent, Torn} \/ r \in Nat
  BY DEF Value
<1>3. calls[c].op \in {"initialize", "getOrCreate", "get"}
  BY <1>0 DEF CallOK, CallType
<1>4. CASE calls[c].op = "initialize" /\ calls[c].name = "admin-key-pub"
  <2>1. /\ signet' = IF r \in {Absent, Torn} THEN signet ELSE [signet EXCEPT !.adminPub = r]
        /\ calls' = [calls EXCEPT ![c].name = "admin-key", ![c].pc = "get"]
        /\ gen' = gen /\ promised' = promised /\ handed' = handed
    BY <1>4 DEF Answer
  <2>2. PICK k : k = [calls[c] EXCEPT !.name = "admin-key", !.pc = "get"]
    OBVIOUS
  <2>3. k \in CallType /\ k.op = "initialize" /\ k.pc = "get" /\ k.name = "admin-key"
    BY <1>0, <1>4, <2>2 DEF CallType, Names
  <2>4. calls' = [calls EXCEPT ![c] = k]
    BY <1>0, <2>1, <2>2
  <2>5. signet' \in SignetType /\ signet'.cached = signet.cached /\ signet'.phase = signet.phase
    BY <1>0, <1>2, <2>1 DEF SignetType
  <2>6. CallOK(k, signet'.phase)
    BY <1>4, <2>3, <2>5 DEF CallOK, AdminNames
  <2> QED
    BY <1>0, <1>4, <2>1, <2>3, <2>4, <2>5, <2>6
<1>5. CASE calls[c].op = "initialize" /\ calls[c].name # "admin-key-pub"
  <2>0. calls[c].name = "admin-key" /\ signet.phase = "init"
    BY <1>5 DEF CallOK, AdminNames
  <2>1. /\ signet' = [signet EXCEPT !.phase = "up",
                          !.adminPriv = IF r \in {Absent, Torn} THEN signet.adminPriv ELSE r]
        /\ calls' = [calls EXCEPT ![c] = NoCall]
        /\ gen' = gen /\ promised' = promised /\ handed' = handed
    BY <1>5, <2>0 DEF Answer
  <2>2. PICK v : v = IF r \in {Absent, Torn} THEN signet.adminPriv ELSE r
    OBVIOUS
  <2>3. v \in Nat
    BY <1>0, <1>2, <2>2 DEF SignetType
  <2>4. signet' = [signet EXCEPT !.phase = "up", !.adminPriv = v]
    BY <2>1, <2>2
  <2>5. signet' \in SignetType /\ signet'.cached = signet.cached /\ signet'.phase = "up"
    BY <1>0, <2>3, <2>4 DEF SignetType
  <2> QED
    BY <1>0, <1>1, <1>5, <2>0, <2>1, <2>5
<1>6. CASE calls[c].op = "getOrCreate" /\ r = Absent
  <2>1. /\ gen' = gen + 1 /\ calls' = [calls EXCEPT ![c].pc = "write", ![c].val = gen + 1]
        /\ signet' = signet /\ promised' = promised /\ handed' = handed
    BY <1>6 DEF Answer
  <2>2. PICK v \in Nat : v = gen + 1 /\ v > 0
    BY <1>0
  <2>3. PICK k : k = [calls[c] EXCEPT !.pc = "write", !.val = v]
    OBVIOUS
  <2>4. k \in CallType /\ k.op = "getOrCreate" /\ k.pc = "write" /\ k.name = calls[c].name /\ k.val = v
    BY <1>0, <1>6, <2>3 DEF CallType
  <2>5. calls' = [calls EXCEPT ![c] = k]
    BY <1>0, <2>1, <2>2, <2>3
  <2>6. CallOK(k, signet'.phase)
    BY <1>6, <2>1, <2>2, <2>4 DEF CallOK
  <2> QED
    BY <1>0, <1>6, <2>1, <2>2, <2>4, <2>5, <2>6
<1>7. CASE calls[c].op = "getOrCreate" /\ r # Absent
  <2>1. /\ handed' = IF r = Torn THEN handed ELSE handed \cup {r}
        /\ calls' = [calls EXCEPT ![c] = NoCall]
        /\ gen' = gen /\ signet' = signet /\ promised' = promised
    BY <1>7 DEF Answer
  <2> QED
    BY <1>0, <1>1, <1>2, <1>7, <2>1
<1>8. CASE calls[c].op = "get"
  <2>1. calls' = [calls EXCEPT ![c] = NoCall] /\ UNCHANGED <<gen, signet, promised, handed>>
    BY <1>8 DEF Answer
  <2> QED
    BY <1>0, <1>1, <2>1
<1> QED
  BY <1>3, <1>4, <1>5, <1>6, <1>7, <1>8

\* One call steps; what it writes is encrypted under the secret in use.
LEMMA CallStepKeepsInv ==
    ASSUME KeyInv, NEW c \in Calls, NEW k \in CallType, calls' = [calls EXCEPT ![c] = k],
           signet' \in SignetType, signet'.cached = signet.cached, CallOK(k, signet'.phase),
           \/ signet'.phase = signet.phase /\ signet.phase \in {"init", "up"}
           \/ signet.phase = "init" /\ signet'.phase = "up" /\ calls[c].op = "initialize"
           \/ signet.phase = "opened" /\ signet'.phase = "init",
           k.op = "initialize" => calls[c].op = "initialize" \/ signet.phase = "opened",
           files' = files, vault' \in [Names -> [val : Value, key : Nat]],
           \A n \in Names : vault'[n] = vault[n] \/ vault'[n].val <= 0 \/ vault'[n].key = signet.cached,
           legacy' \in [Names -> Nat], gen' \in Nat, promised' \in [Names -> Nat],
           disputed' \subseteq Names, handed' \subseteq Nat
    PROVE  KeyInv'
<1>0. KeyType /\ calls \in [Calls -> CallType] /\ files \in [SecretFiles -> Value]
  BY DEF KeyInv, KeyType
<1>1. KeyType'
  BY <1>0 DEF KeyType
<1>2. calls'[c] = k /\ \A d \in Calls : d # c => calls'[d] = calls[d]
  BY <1>0
<1>3. \A d \in Calls : CallOK(calls[d], signet.phase) /\ calls[d] \in CallType
  BY DEF KeyInv, KeyType
<1>4. ASSUME NEW d \in Calls, d # c
      PROVE  CallOK(calls[d], signet'.phase)
  <2>1. CASE signet'.phase = signet.phase
    BY <1>3, <2>1
  <2>2. CASE signet.phase = "init" /\ calls[c].op = "initialize"
    <3>1. calls[d].op # "initialize"
      BY <1>4, <2>2 DEF KeyInv, OneInitialize
    <3>2. calls[d].op = "none"
      BY <1>3, <2>2, <3>1 DEF CallOK, CallType
    <3> QED
      BY <1>3, <3>2 DEF CallOK
  <2>3. CASE signet.phase = "opened"
    <3>1. calls[d].op = "none"
      BY <1>3, <2>3 DEF CallOK, CallType
    <3> QED
      BY <1>3, <3>1 DEF CallOK
  <2> QED
    BY <2>1, <2>2, <2>3
<1>5. \A d \in Calls : CallOK(calls'[d], signet'.phase)
  BY <1>2, <1>4
<1>6. OneInitialize'
  <2>1. k.op = "initialize" => \A d \in Calls : d # c => calls[d].op # "initialize"
    BY <1>3 DEF KeyInv, OneInitialize, CallOK
  <2> QED
    BY <1>2, <2>1 DEF KeyInv, OneInitialize
<1>7. Resolves(files, signet.cached) /\ signet'.phase \in {"opened", "init", "up"}
  BY DEF KeyInv, SecretOK
<1>8. SecretOK(signet', files')
  BY <1>7 DEF SecretOK
<1>9. EntriesOK(vault', files')
  <2>1. \A n \in Names : vault'[n].val \in Int
    BY DEF Value, Torn
  <2> QED
    BY <1>7, <2>1 DEF KeyInv, EntriesOK
<1> QED
  BY <1>1, <1>5, <1>6, <1>7, <1>8, <1>9 DEF KeyInv

\* The steps of a call.
LEMMA CallsKeepKeyInv ==
    ASSUME KeyInv, NEW c \in Calls,
           \/ Initialize(c) \/ GetOrCreate(c) \/ VaultGet(c) \/ VaultSet(c) \/ VaultDelete(c)
           \/ VaultDeleteEnds(c) \/ AdminCreate(c) \/ AdminGenerate(c)
           \/ KvGet(c) \/ KvWritten(c) \/ KvWriteFails(c)
    PROVE  KeyInv'
<1>0. /\ KeyType /\ calls \in [Calls -> CallType] /\ calls[c] \in CallType /\ signet \in SignetType
      /\ vault \in [Names -> [val : Value, key : Nat]] /\ legacy \in [Names -> Nat] /\ gen \in Nat
      /\ promised \in [Names -> Nat] /\ disputed \subseteq Names /\ handed \subseteq Nat
      /\ CallOK(calls[c], signet.phase)
  BY DEF KeyInv, KeyType
<1>1. NoCall \in CallType /\ NoCall.op = "none" /\ \A P : CallOK(NoCall, P)
  <2>1. NoCall \in CallType /\ NoCall.op = "none" /\ NoCall.pc = "idle"
    BY DEF NoCall, CallType, Names, Absent
  <2> QED
    BY <2>1 DEF CallOK
<1>2. ASSUME NEW k, Begin(c, k), NEW o \in {"initialize", "create", "getOrCreate", "set", "get", "delete"},
             NEW l \in {"get", "gate", "write", "unlink"}, NEW n \in Names, NEW v \in Nat,
             k = [op |-> o, pc |-> l, name |-> n, val |-> v]
      PROVE  /\ k \in CallType /\ k.op = o /\ k.pc = l /\ k.name = n /\ k.val = v
             /\ calls' = [calls EXCEPT ![c] = k] /\ disputed' \subseteq Names
  <2>1. k \in CallType /\ k.op = o /\ k.pc = l /\ k.name = n /\ k.val = v
    BY <1>2 DEF CallType
  <2>2. NamesOf(k.op) \subseteq Names
    BY <2>1 DEF NamesOf, Names
  <2> QED
    BY <1>0, <1>2, <2>1, <2>2 DEF Begin
<1>3. "admin-key" \in Names /\ "admin-key-pub" \in Names /\ "db-key" \in Names /\ "user" \in Names
      /\ Absent \in Nat
  BY DEF Names, Absent
<1>4. CASE Initialize(c)
  <2>1. PICK k : k = [op |-> "initialize", pc |-> "get", name |-> "admin-key-pub", val |-> Absent]
    OBVIOUS
  <2>2. /\ signet.phase = "opened" /\ Begin(c, k) /\ signet' = [signet EXCEPT !.phase = "init"]
        /\ UNCHANGED <<files, vault, legacy, gen, promised, handed>>
    BY <1>4, <2>1 DEF Initialize
  <2>3. /\ k \in CallType /\ k.op = "initialize" /\ k.pc = "get" /\ k.name = "admin-key-pub"
        /\ calls' = [calls EXCEPT ![c] = k] /\ disputed' \subseteq Names
    BY <1>2, <1>3, <2>1, <2>2
  <2>4. signet' \in SignetType /\ signet'.cached = signet.cached /\ signet'.phase = "init"
    BY <1>0, <2>2 DEF SignetType
  <2>5. CallOK(k, signet'.phase)
    BY <2>3, <2>4 DEF CallOK, AdminNames
  <2> QED
    BY <1>0, <2>2, <2>3, <2>4, <2>5, CallStepKeepsInv
<1>5. CASE GetOrCreate(c) \/ VaultGet(c) \/ AdminCreate(c)
  <2>1. /\ signet.phase = "up" /\ UNCHANGED <<files, vault, legacy, signet, gen, promised, handed>>
    BY <1>5 DEF GetOrCreate, VaultGet, AdminCreate
  <2>2. PICK k \in CallType : /\ CallOK(k, "up") /\ k.op # "initialize"
                              /\ calls' = [calls EXCEPT ![c] = k] /\ disputed' \subseteq Names
    <3>1. CASE GetOrCreate(c)
      <4>1. PICK k : k = [op |-> "getOrCreate", pc |-> "get", name |-> "db-key", val |-> Absent]
        OBVIOUS
      <4>2. Begin(c, k)
        BY <3>1, <4>1 DEF GetOrCreate
      <4>3. /\ k \in CallType /\ k.op = "getOrCreate" /\ k.pc = "get" /\ k.name = "db-key"
            /\ calls' = [calls EXCEPT ![c] = k] /\ disputed' \subseteq Names
        BY <1>2, <1>3, <4>1, <4>2
      <4> QED
        BY <4>3 DEF CallOK
    <3>2. CASE VaultGet(c)
      <4>1. PICK k : k = [op |-> "get", pc |-> "get", name |-> "user", val |-> Absent]
        OBVIOUS
      <4>2. Begin(c, k)
        BY <3>2, <4>1 DEF VaultGet
      <4>3. /\ k \in CallType /\ k.op = "get" /\ k.pc = "get" /\ k.name = "user"
            /\ calls' = [calls EXCEPT ![c] = k] /\ disputed' \subseteq Names
        BY <1>2, <1>3, <4>1, <4>2
      <4> QED
        BY <4>3 DEF CallOK
    <3>3. CASE AdminCreate(c)
      <4>1. PICK k : k = [op |-> "create", pc |-> "gate", name |-> "admin-key", val |-> Absent]
        OBVIOUS
      <4>2. Begin(c, k)
        BY <3>3, <4>1 DEF AdminCreate
      <4>3. /\ k \in CallType /\ k.op = "create" /\ k.pc = "gate" /\ k.name = "admin-key"
            /\ calls' = [calls EXCEPT ![c] = k] /\ disputed' \subseteq Names
        BY <1>2, <1>3, <4>1, <4>2
      <4> QED
        BY <4>3 DEF CallOK, AdminNames
    <3> QED
      BY <1>5, <3>1, <3>2, <3>3
  <2> QED
    BY <1>0, <2>1, <2>2, CallStepKeepsInv
<1>6. CASE VaultSet(c)
  <2>0. PICK v \in Nat : v = gen + 1 /\ v > 0
    BY <1>0
  <2>1. PICK k : k = [op |-> "set", pc |-> "write", name |-> "user", val |-> v]
    OBVIOUS
  <2>2. /\ signet.phase = "up" /\ Begin(c, k) /\ gen' = v
        /\ promised' = [promised EXCEPT !["user"] = Absent]
        /\ UNCHANGED <<files, vault, legacy, signet, handed>>
    BY <1>6, <2>0, <2>1 DEF VaultSet
  <2>3. /\ k \in CallType /\ k.op = "set" /\ k.pc = "write" /\ k.name = "user" /\ k.val = v
        /\ calls' = [calls EXCEPT ![c] = k] /\ disputed' \subseteq Names
    BY <1>2, <1>3, <2>1, <2>2
  <2>4. CallOK(k, signet'.phase) /\ promised' \in [Names -> Nat]
    BY <1>0, <1>3, <2>0, <2>2, <2>3 DEF CallOK
  <2> QED
    BY <1>0, <2>0, <2>2, <2>3, <2>4, CallStepKeepsInv
<1>7. CASE VaultDelete(c)
  <2>1. PICK k : k = [op |-> "delete", pc |-> "unlink", name |-> "user", val |-> Absent]
    OBVIOUS
  <2>2. /\ signet.phase = "up" /\ Begin(c, k) /\ vault' = [vault EXCEPT !["user"] = NoEntry]
        /\ promised' = [promised EXCEPT !["user"] = Absent]
        /\ UNCHANGED <<files, legacy, signet, gen, handed>>
    BY <1>7, <2>1 DEF VaultDelete
  <2>3. /\ k \in CallType /\ k.op = "delete" /\ k.pc = "unlink" /\ k.name = "user"
        /\ calls' = [calls EXCEPT ![c] = k] /\ disputed' \subseteq Names
    BY <1>2, <1>3, <2>1, <2>2
  <2>4. NoEntry \in [val : Value, key : Nat] /\ NoEntry.val <= 0
    BY DEF NoEntry, Value, Absent
  <2>5. CallOK(k, signet'.phase) /\ promised' \in [Names -> Nat]
    BY <1>0, <1>3, <2>2, <2>3 DEF CallOK
  <2>6. /\ vault' \in [Names -> [val : Value, key : Nat]]
        /\ \A n \in Names : vault'[n] = vault[n] \/ vault'[n].val <= 0
    BY <1>0, <2>2, <2>4
  <2> QED
    BY <1>0, <2>2, <2>3, <2>5, <2>6, CallStepKeepsInv
<1>8. CASE VaultDeleteEnds(c)
  <2>1. /\ calls[c].pc = "unlink" /\ legacy' = [legacy EXCEPT !["user"] = Absent]
        /\ calls' = [calls EXCEPT ![c] = NoCall]
        /\ UNCHANGED <<files, vault, signet, gen, promised, disputed, handed>>
    BY <1>8 DEF VaultDeleteEnds
  <2>2. signet.phase = "up" /\ legacy' \in [Names -> Nat]
    BY <1>0, <1>3, <2>1 DEF CallOK, CallType
  <2> QED
    BY <1>0, <1>1, <2>1, <2>2, CallStepKeepsInv
<1>9. CASE AdminGenerate(c)
  <2>0. calls[c].pc = "gate" /\ calls[c].op = "create" /\ signet.phase = "up"
        /\ UNCHANGED <<files, vault, legacy, promised, handed>>
    BY <1>0, <1>9 DEF AdminGenerate, CallOK, CallType
  <2>1. CASE calls' = [calls EXCEPT ![c] = NoCall] /\ UNCHANGED <<signet, gen, disputed>>
    BY <1>0, <1>1, <2>0, <2>1, CallStepKeepsInv
  <2>2. CASE ~(calls' = [calls EXCEPT ![c] = NoCall] /\ UNCHANGED <<signet, gen, disputed>>)
    <3>1. PICK v \in Nat : v = gen + 1
      BY <1>0
    <3>2. /\ gen' = v /\ disputed' \subseteq disputed \cup NamesOf("create")
          /\ signet' = [signet EXCEPT !.adminPub = v, !.adminPriv = v]
          /\ calls' = [calls EXCEPT ![c].pc = "write", ![c].val = v]
      BY <1>9, <2>2, <3>1 DEF AdminGenerate
    <3>3. PICK k : k = [calls[c] EXCEPT !.pc = "write", !.val = v]
      OBVIOUS
    <3>4. k \in CallType /\ k.op = "create" /\ k.pc = "write" /\ k.name = calls[c].name
      BY <1>0, <2>0, <3>3 DEF CallType
    <3>5. calls' = [calls EXCEPT ![c] = k]
      BY <1>0, <3>2, <3>3
    <3>6. /\ signet' \in SignetType /\ signet'.cached = signet.cached /\ signet'.phase = signet.phase
          /\ disputed' \subseteq Names
      BY <1>0, <3>2 DEF SignetType, NamesOf, Names
    <3>7. CallOK(k, signet'.phase)
      BY <1>0, <2>0, <3>4, <3>6 DEF CallOK
    <3> QED
      BY <1>0, <2>0, <3>2, <3>4, <3>5, <3>6, <3>7, CallStepKeepsInv
  <2> QED
    BY <2>1, <2>2
<1>10. ASSUME calls[c].pc \in {"get", "migrate"}, NEW r \in Value, Answer(c, r), files' = files,
              disputed' = disputed, vault' \in [Names -> [val : Value, key : Nat]],
              legacy' \in [Names -> Nat],
              \A n \in Names : vault'[n] = vault[n] \/ vault'[n].val <= 0 \/ vault'[n].key = signet.cached
       PROVE  KeyInv'
  <2>1. PICK k \in CallType : /\ calls' = [calls EXCEPT ![c] = k] /\ CallOK(k, signet'.phase)
                              /\ k.op \in {"none", calls[c].op}
    BY <1>0, <1>10, AnswerMoves
  <2>2. /\ signet' \in SignetType /\ signet'.cached = signet.cached
        /\ \/ signet'.phase = signet.phase
           \/ signet.phase = "init" /\ signet'.phase = "up" /\ calls[c].op = "initialize"
        /\ gen' \in Nat /\ promised' = promised /\ handed' \subseteq Nat
    BY <1>0, <1>10, AnswerMoves
  <2>3. signet.phase \in {"init", "up"}
    BY <1>0, <1>10 DEF CallOK, CallType
  <2> QED
    BY <1>0, <1>10, <2>1, <2>2, <2>3, CallStepKeepsInv
<1>11. CASE KvGet(c)
  <2>1. PICK n \in Names : n = calls[c].name
    BY <1>0 DEF CallType
  <2>2. calls[c].pc = "get" /\ UNCHANGED <<files, vault, legacy, disputed>>
    BY <1>11 DEF KvGet
  <2>3. PICK r \in Readings(n) :
          IF r = Absent /\ legacy[n] # Absent
          THEN /\ calls' = [calls EXCEPT ![c].pc = "migrate", ![c].val = legacy[n]]
               /\ UNCHANGED <<gen, signet, promised, handed>>
          ELSE Answer(c, r)
    BY <1>11, <2>1 DEF KvGet
  <2>4. r \in Value
    BY <1>0, ReadingsAreValues
  <2>5. CASE r = Absent /\ legacy[n] # Absent
    <3>1. PICK v \in Nat : v = legacy[n] /\ v > 0
      BY <1>0, <2>5 DEF Absent
    <3>2. PICK k : k = [calls[c] EXCEPT !.pc = "migrate", !.val = v]
      OBVIOUS
    <3>3. /\ k \in CallType /\ k.op = calls[c].op /\ k.name = calls[c].name /\ k.pc = "migrate"
          /\ k.val > 0
      BY <1>0, <3>1, <3>2 DEF CallType
    <3>4. calls' = [calls EXCEPT ![c] = k] /\ UNCHANGED <<gen, signet, promised, handed>>
      BY <1>0, <2>3, <2>5, <3>1, <3>2
    <3>5. CallOK(k, signet'.phase) /\ signet.phase \in {"init", "up"}
      BY <1>0, <2>2, <3>3, <3>4 DEF CallOK, CallType
    <3> QED
      BY <1>0, <2>2, <3>3, <3>4, <3>5, CallStepKeepsInv
  <2>6. CASE ~(r = Absent /\ legacy[n] # Absent)
    BY <1>0, <1>10, <2>2, <2>3, <2>4, <2>6
  <2> QED
    BY <2>5, <2>6
<1>12. CASE KvWritten(c)
  <2>1. PICK n \in Names : n = calls[c].name
    BY <1>0 DEF CallType
  <2>2. PICK e : e = [val |-> calls[c].val, key |-> signet.cached]
    OBVIOUS
  <2>3. /\ calls[c].pc \in {"migrate", "write"} /\ vault' = [vault EXCEPT ![n] = e]
        /\ legacy' = [legacy EXCEPT ![n] = Absent] /\ UNCHANGED <<files, disputed>>
    BY <1>12, <2>1, <2>2 DEF KvWritten
  <2>4. e \in [val : Value, key : Nat] /\ e.key = signet.cached
    BY <1>0, <2>2 DEF CallType, SignetType, Value
  <2>5. /\ vault' \in [Names -> [val : Value, key : Nat]] /\ legacy' \in [Names -> Nat]
        /\ \A m \in Names : vault'[m] = vault[m] \/ vault'[m].key = signet.cached
    BY <1>0, <1>3, <2>3, <2>4
  <2>6. CASE calls[c].pc = "migrate"
    <3>1. Answer(c, calls[c].val) /\ calls[c].val \in Value
      BY <1>0, <1>12, <2>6 DEF KvWritten, CallType, Value
    <3> QED
      BY <1>10, <2>3, <2>5, <2>6, <3>1
  <2>7. CASE calls[c].pc = "write"
    <3>1. Written(c) /\ gen' = gen /\ signet' = signet
      BY <1>12, <2>7 DEF KvWritten
    <3>2. calls[c].op \in {"create", "getOrCreate", "set"} /\ signet.phase = "up"
      BY <1>0, <2>7 DEF CallOK, CallType
    <3>3. CASE calls[c].op = "create" /\ n = "admin-key"
      <4>1. calls' = [calls EXCEPT ![c].name = "admin-key-pub", ![c].val = signet.adminPub]
            /\ UNCHANGED <<promised, handed>>
        BY <2>1, <3>1, <3>3 DEF Written
      <4>2. PICK k : k = [calls[c] EXCEPT !.name = "admin-key-pub", !.val = signet.adminPub]
        OBVIOUS
      <4>3. k \in CallType /\ k.op = "create" /\ k.name = "admin-key-pub" /\ k.pc = "write"
        BY <1>0, <1>3, <2>7, <3>3, <4>2 DEF CallType, SignetType
      <4>4. calls' = [calls EXCEPT ![c] = k]
        BY <1>0, <4>1, <4>2
      <4>5. CallOK(k, signet'.phase)
        BY <3>1, <3>2, <4>3 DEF CallOK, AdminNames
      <4> QED
        BY <1>0, <2>3, <2>5, <3>1, <3>2, <4>1, <4>3, <4>4, <4>5, CallStepKeepsInv
    <3>4. CASE ~(calls[c].op = "create" /\ n = "admin-key")
      <4>1. calls' = [calls EXCEPT ![c] = NoCall]
        BY <1>0, <2>1, <3>1, <3>2, <3>4 DEF Written, CallOK, AdminNames
      <4>2. calls[c].val \in Nat
        BY <1>0 DEF CallType
      <4>3. promised' \in [Names -> Nat] /\ handed' \subseteq Nat
        <5>1. CASE calls[c].op = "create"
          <6>1. n = "admin-key-pub"
            BY <1>0, <2>1, <3>4, <5>1 DEF CallOK, AdminNames
          <6>2. handed' = handed /\ promised' = [promised EXCEPT !["admin-key"] = calls[c].val,
                                                                 !["admin-key-pub"] = calls[c].val]
            BY <2>1, <3>1, <5>1, <6>1 DEF Written
          <6> QED
            BY <1>0, <4>2, <6>2
        <5>2. CASE calls[c].op \in {"getOrCreate", "set"}
          <6>1. /\ promised' = [promised EXCEPT ![calls[c].name] = calls[c].val]
                /\ handed' = IF calls[c].op = "set" THEN handed ELSE handed \cup {calls[c].val}
            BY <3>1, <5>2 DEF Written
          <6> QED
            BY <1>0, <4>2, <6>1
        <5> QED
          BY <3>2, <5>1, <5>2
      <4> QED
        BY <1>0, <1>1, <2>3, <2>5, <3>1, <3>2, <4>1, <4>3, CallStepKeepsInv
    <3> QED
      BY <3>3, <3>4
  <2> QED
    BY <2>3, <2>6, <2>7
<1>13. CASE KvWriteFails(c)
  <2>1. PICK n \in Names : n = calls[c].name
    BY <1>0 DEF CallType
  <2>2. calls[c].pc \in {"migrate", "write"} /\ UNCHANGED <<files, legacy, disputed>>
    BY <1>13 DEF KvWriteFails
  <2>3. PICK left \in {vault[n], TornEntry} : vault' = [vault EXCEPT ![n] = left]
    BY <1>13, <2>1 DEF KvWriteFails
  <2>4. TornEntry \in [val : Value, key : Nat] /\ TornEntry.val <= 0
    BY DEF TornEntry, Value, Absent, Torn
  <2>5. /\ vault' \in [Names -> [val : Value, key : Nat]]
        /\ \A m \in Names : vault'[m] = vault[m] \/ vault'[m].val <= 0
    BY <1>0, <2>3, <2>4
  <2>6. CASE calls[c].pc = "migrate"
    <3>1. Answer(c, Torn) /\ Torn \in Value
      BY <1>13, <2>6 DEF KvWriteFails, Value
    <3> QED
      BY <1>0, <1>10, <2>2, <2>5, <2>6, <3>1
  <2>7. CASE calls[c].pc = "write"
    <3>1. calls' = [calls EXCEPT ![c] = NoCall] /\ UNCHANGED <<gen, signet, promised, handed>>
      BY <1>13, <2>7 DEF KvWriteFails
    <3>2. signet.phase = "up"
      BY <1>0, <2>7 DEF CallOK, CallType
    <3> QED
      BY <1>0, <1>1, <2>2, <2>5, <3>1, <3>2, CallStepKeepsInv
  <2> QED
    BY <2>2, <2>6, <2>7
<1> QED
  BY <1>4, <1>5, <1>6, <1>7, <1>8, <1>9, <1>11, <1>12, <1>13

\* What a crash leaves of an entry.
LEMMA CrashLeaves ==
    ASSUME KeyInv, CrashKeys
    PROVE  /\ vault' \in [Names -> [val : Value, key : Nat]]
           /\ \A n \in Names :
                \/ vault'[n] = vault[n]
                \/ Writing(n) # {} /\ vault'[n] = TornEntry
                \/ \E d \in Writing(n) : vault'[n] = [val |-> calls[d].val, key |-> signet.cached]
<1>0. /\ calls \in [Calls -> CallType] /\ signet \in SignetType
      /\ vault \in [Names -> [val : Value, key : Nat]]
  BY DEF KeyInv, KeyType
<1>1. PICK busy : busy = {n \in Names : Writing(n) # {}}
  OBVIOUS
<1>2. PICK left \in [busy -> UNION {Leftovers(n) : n \in busy}] :
        /\ \A n \in busy : left[n] \in Leftovers(n)
        /\ vault' = [n \in Names |-> IF n \in busy THEN left[n] ELSE vault[n]]
  BY <1>1 DEF CrashKeys
<1>3. ASSUME NEW n \in Names
      PROVE  /\ vault'[n] \in [val : Value, key : Nat]
             /\ \/ vault'[n] = vault[n]
                \/ Writing(n) # {} /\ vault'[n] = TornEntry
                \/ \E d \in Writing(n) : vault'[n] = [val |-> calls[d].val, key |-> signet.cached]
  <2>1. CASE n \notin busy
    BY <1>0, <1>2, <2>1
  <2>2. CASE n \in busy
    <3>1. PICK e : e = left[n]
      OBVIOUS
    <3>2. e \in Leftovers(n) /\ vault'[n] = e /\ Writing(n) # {}
      BY <1>1, <1>2, <2>2, <3>1
    <3>3. TornEntry \in [val : Value, key : Nat]
      BY DEF TornEntry, Value, Absent, Torn
    <3>4. ASSUME NEW d \in Writing(n)
          PROVE  [val |-> calls[d].val, key |-> signet.cached] \in [val : Value, key : Nat]
      <4>1. d \in Calls
        BY DEF Writing
      <4> QED
        BY <1>0, <4>1 DEF CallType, SignetType, Value
    <3>5. e = vault[n] \/ e = TornEntry
          \/ \E d \in Writing(n) : e = [val |-> calls[d].val, key |-> signet.cached]
      BY <3>2 DEF Leftovers
    <3> QED
      BY <1>0, <3>2, <3>3, <3>4, <3>5
  <2> QED
    BY <2>1, <2>2
<1>4. vault' \in [Names -> [val : Value, key : Nat]]
  <2>1. DOMAIN vault' = Names /\ vault' = [n \in Names |-> vault'[n]]
    BY <1>2
  <2> QED
    BY <1>3, <2>1
<1> QED
  BY <1>3, <1>4

\* The process ends, in order or not.
LEMMA EndsKeepKeyInv ==
    ASSUME KeyInv, CrashKeys \/ Close
    PROVE  KeyInv'
<1>0. /\ KeyType /\ signet \in SignetType /\ files \in [SecretFiles -> Value]
      /\ vault \in [Names -> [val : Value, key : Nat]] /\ EntriesOK(vault, files)
      /\ SecretOK(signet, files) /\ \A n \in Names : vault[n].val \in Int
  BY DEF KeyInv, KeyType, Value, Torn
<1>1. NoCall \in CallType /\ NoCall.op = "none" /\ \A P : CallOK(NoCall, P)
  <2>1. NoCall \in CallType /\ NoCall.op = "none" /\ NoCall.pc = "idle"
    BY DEF NoCall, CallType, Names, Absent
  <2> QED
    BY <2>1 DEF CallOK
<1>2. ASSUME NEW F PROVE Down \in SignetType /\ Down.phase = "down" /\ SecretOK(Down, F)
  BY DEF Down, SignetType, SecretOK, Absent
<1>3. signet' = Down /\ UNCHANGED <<legacy, gen, promised, disputed, handed>>
  BY DEF CrashKeys, Close
<1>4. ASSUME NEW F, files' = F, F \in [SecretFiles -> Value], EntriesOK(vault', F),
             vault' \in [Names -> [val : Value, key : Nat]],
             calls' = [c \in Calls |-> NoCall]
      PROVE  KeyInv'
  <2>1. KeyType'
    BY <1>0, <1>1, <1>2, <1>3, <1>4 DEF KeyType
  <2>2. \A c \in Calls : calls'[c] = NoCall
    BY <1>4
  <2>3. \A c \in Calls : CallOK(calls'[c], signet'.phase)
    BY <1>1, <2>2
  <2>4. OneInitialize'
    BY <1>1, <2>2 DEF OneInitialize
  <2>5. SecretOK(signet', files') /\ signet'.phase # "write"
    BY <1>2, <1>3
  <2> QED
    BY <1>4, <2>1, <2>3, <2>4, <2>5 DEF KeyInv
<1>5. CASE Close
  <2>1. files' = files /\ vault' = vault /\ calls' = calls /\ \A c \in Calls : calls[c] = NoCall
    BY <1>5 DEF Close
  <2>2. calls' = [c \in Calls |-> NoCall]
    BY <1>0, <2>1 DEF KeyType
  <2> QED
    BY <1>0, <1>4, <2>1, <2>2
<1>6. CASE CrashKeys
  <2>1. calls' = [c \in Calls |-> NoCall]
    BY <1>6 DEF CrashKeys
  <2>2. PICK v \in {Absent, Torn, signet.cached} :
          files' = IF signet.phase = "write" THEN [files EXCEPT ![signet.file] = v] ELSE files
    BY <1>6 DEF CrashKeys
  <2>3. v \in Value
    BY <1>0, <2>2 DEF SignetType, Value, Absent
  <2>4. files' \in [SecretFiles -> Value]
    BY <1>0, <2>2, <2>3
  <2>5. signet.phase \notin {"init", "up"} => \A n \in Names : Writing(n) = {}
    BY NoCallsBefore DEF Writing
  <2>6. CASE signet.phase = "write"
    <3>1. \A n \in Names : vault'[n] = vault[n] /\ vault[n].val <= 0
      BY <1>6, <2>5, <2>6, CrashLeaves DEF KeyInv
    <3>2. EntriesOK(vault', files')
      BY <1>0, <3>1 DEF EntriesOK
    <3> QED
      BY <1>4, <1>6, <2>1, <2>4, <3>2, CrashLeaves
  <2>7. CASE signet.phase # "write"
    <3>1. files' = files
      BY <2>2, <2>7
    <3>2. ASSUME NEW n \in Names, vault'[n].val > 0
          PROVE  Resolves(files, vault'[n].key)
      <4>1. CASE vault'[n] = vault[n]
        BY <1>0, <3>2, <4>1 DEF EntriesOK
      <4>2. CASE vault'[n] = TornEntry
        BY <3>2, <4>2 DEF TornEntry, Torn
      <4>3. ASSUME NEW d \in Writing(n), vault'[n] = [val |-> calls[d].val, key |-> signet.cached]
            PROVE  Resolves(files, vault'[n].key)
        <5>1. signet.phase \in {"init", "up"}
          BY <2>5, <4>3
        <5> QED
          BY <1>0, <4>3, <5>1 DEF SecretOK
      <4> QED
        BY <1>6, <4>1, <4>2, <4>3, CrashLeaves
    <3>3. EntriesOK(vault', files')
      BY <3>1, <3>2 DEF EntriesOK
    <3> QED
      BY <1>4, <1>6, <2>1, <2>4, <3>3, CrashLeaves
  <2> QED
    BY <2>6, <2>7
<1> QED
  BY <1>5, <1>6

\* The data directory of an earlier release, or a fresh one.
LEMMA KInitInv ==
    ASSUME KInit
    PROVE  KeyInv
<1>1. PICK old \in {Absent, 1}, kept \in SUBSET {"db-key", "user", "admin-key"} :
        /\ files = [f \in SecretFiles |-> IF f = "vault.key" THEN old ELSE Absent]
        /\ legacy = [n \in Names |-> IF n \in kept THEN 2
                       ELSE IF n = "admin-key-pub" /\ "admin-key" \in kept THEN 2 ELSE Absent]
        /\ gen = IF old = Absent THEN 0 ELSE 2
  BY DEF KInit
<1>2. /\ vault = [n \in Names |-> NoEntry] /\ signet = Down /\ calls = [c \in Calls |-> NoCall]
      /\ promised = legacy /\ disputed = {} /\ handed = {legacy["db-key"]} \ {Absent}
  BY DEF KInit
<1>3. files \in [SecretFiles -> Value] /\ gen \in Nat
  BY <1>1 DEF Value, Absent
<1>4. legacy \in [Names -> Nat]
  BY <1>1 DEF Absent
<1>5. handed \subseteq Nat /\ promised \in [Names -> Nat] /\ disputed \subseteq Names
  BY <1>2, <1>4 DEF Names
<1>6. NoEntry \in [val : Value, key : Nat] /\ NoEntry.val = 0
  BY DEF NoEntry, Value, Absent
<1>7. NoCall \in CallType /\ NoCall.op = "none" /\ NoCall.pc = "idle"
  BY DEF NoCall, CallType, Names, Absent
<1>8. Down \in SignetType /\ Down.phase = "down" /\ SecretOK(Down, files)
  BY DEF Down, SignetType, SecretOK, Absent
<1>9. KeyType
  BY <1>2, <1>3, <1>4, <1>5, <1>6, <1>7, <1>8 DEF KeyType
<1>10. \A c \in Calls : calls[c] = NoCall
  BY <1>2
<1>11. (\A c \in Calls : CallOK(calls[c], signet.phase)) /\ OneInitialize
  BY <1>7, <1>10 DEF CallOK, OneInitialize
<1>12. EntriesOK(vault, files)
  BY <1>2, <1>6 DEF EntriesOK
<1> QED
  BY <1>2, <1>8, <1>9, <1>11, <1>12 DEF KeyInv

\* The invariant of the key store.
LEMMA KeyStoreKeepsInv == KSpec => []KeyInv
<1>1. KInit => KeyInv
  BY KInitInv
<1>2. ASSUME KeyInv, KNext PROVE KeyInv'
  BY <1>2, OpeningKeepsInv, CallsKeepKeyInv, EndsKeepKeyInv DEF KNext
<1>3. ASSUME KeyInv, UNCHANGED kvars PROVE KeyInv'
  BY <1>3 DEF KeyInv, KeyType, OneInitialize, kvars
<1> QED
  BY <1>1, <1>2, <1>3, PTL DEF KSpec

(***************************************************************************)
(* Whatever was stored can be read, for any number of calls, secrets and   *)
(* crashes: no start, torn first secret, changed platform or missing       *)
(* signer gives the vault a secret its entries are not encrypted under     *)
(* (resolveVaultSecretProvider, createVault).                              *)
(***************************************************************************)
THEOREM VaultIsAlwaysReadable == KSpec => []VaultIsReadable
BY KeyStoreKeepsInv, KeyInvIsReadable, PTL

(***************************************************************************)
(* Entries are kept.  The names fall into three groups that no call        *)
(* crosses; while the calls on a group do not overlap, what was promised   *)
(* of its names is in the vault or in the legacy file, and a call that is  *)
(* about to write one replaces nothing.                                    *)
(***************************************************************************)
UserOps == {"get", "set", "delete"}
AdminOps == {"initialize", "create"}

SharesOK ==
  /\ \A c, d \in Calls : c # d => NamesOf(calls[c].op) \cap NamesOf(calls[d].op) \subseteq disputed
  /\ "admin-key" \in disputed <=> "admin-key-pub" \in disputed

PromisedIsHeld(n) == promised[n] # Absent => Held(n, promised[n])

\* A call that migrates n still holds what it read.
MigrationOK(d, n) ==
  calls[d].pc = "migrate" => calls[d].val = legacy[n] /\ vault[n].val = Absent

UserOK ==
  "user" \notin disputed =>
    /\ PromisedIsHeld("user")
    /\ \A d \in Calls : calls[d].op \in UserOps =>
         /\ MigrationOK(d, "user")
         /\ calls[d].pc \in {"write", "unlink"} => promised["user"] = Absent

\* The vault and the legacy file do not contradict each other.
OneValue(n) ==
  vault[n].val \notin {Absent, Torn} /\ legacy[n] # Absent => vault[n].val = legacy[n]

DbOK ==
  "db-key" \notin disputed =>
    /\ PromisedIsHeld("db-key") /\ OneValue("db-key")
    /\ \A h \in handed : h # Absent /\ Held("db-key", h)
    /\ \A d \in Calls : calls[d].op = "getOrCreate" =>
         /\ MigrationOK(d, "db-key")
         /\ calls[d].pc = "write" => /\ promised["db-key"] = Absent /\ handed = {}
                                     /\ legacy["db-key"] = Absent

\* The admin call k, with the process's pair.
AdminCallOK(d) ==
  /\ MigrationOK(d, calls[d].name)
  /\ calls[d].op = "initialize" =>
       /\ signet.adminPriv = Absent
       /\ calls[d].name = "admin-key-pub" => signet.adminPub = Absent
       /\ calls[d].name = "admin-key" /\ signet.adminPub # Absent =>
            vault["admin-key-pub"].val = signet.adminPub
  /\ calls[d].op = "create" /\ calls[d].pc = "write" =>
       /\ calls[d].val = signet.adminPub /\ signet.adminPub # Absent
       /\ vault["admin-key-pub"] = NoEntry
       /\ legacy["admin-key-pub"] = Absent /\ legacy["admin-key"] = Absent
       /\ calls[d].name = "admin-key-pub" => vault["admin-key"].val = signet.adminPub

\* The pair on disk: a public key has its private half behind it.
AdminDiskOK ==
  /\ PromisedIsHeld("admin-key") /\ PromisedIsHeld("admin-key-pub") /\ OneValue("admin-key")
  /\ legacy["admin-key-pub"] # Absent => Held("admin-key", legacy["admin-key-pub"])
  /\ vault["admin-key-pub"].val \notin {Absent, Torn} =>
       Held("admin-key", vault["admin-key-pub"].val)
  /\ legacy["admin-key"] # Absent =>
       legacy["admin-key-pub"] # Absent \/ vault["admin-key-pub"] # NoEntry

AdminMemoryOK ==
  signet.adminPub # Absent /\ signet.adminPriv # Absent => signet.adminPub = signet.adminPriv

AdminOK ==
  /\ promised["admin-key"] = promised["admin-key-pub"]
  /\ signet.phase \notin {"init", "up"} => signet.adminPub = Absent /\ signet.adminPriv = Absent
  /\ "admin-key" \notin disputed =>
       /\ AdminDiskOK /\ AdminMemoryOK
       /\ \A d \in Calls : calls[d].op \in AdminOps => AdminCallOK(d)

EntriesInv == SharesOK /\ UserOK /\ DbOK /\ AdminOK

\* The invariant says that what was promised is kept.
LEMMA EntriesInvIsKept ==
    ASSUME KeyInv, EntriesInv
    PROVE  EntriesAreKept
<1>0. KeyType
  BY DEF KeyInv
<1>1. StoredIsKept
  BY DEF EntriesInv, SharesOK, UserOK, DbOK, AdminOK, AdminDiskOK, PromisedIsHeld, StoredIsKept, Names
<1>2. OneFirstUseKey
  <2> SUFFICES ASSUME "db-key" \notin disputed PROVE Cardinality(handed) <= 1
    BY DEF OneFirstUseKey
  <2>1. ASSUME NEW g \in handed, NEW h \in handed
        PROVE  g = h
    <3>1. g # Absent /\ h # Absent /\ Held("db-key", g) /\ Held("db-key", h) /\ OneValue("db-key")
      BY DEF EntriesInv, DbOK
    <3>2. g # Torn /\ h # Torn
      BY <1>0 DEF KeyType, Torn
    <3> QED
      BY <3>1, <3>2 DEF Held, OneValue
  <2>2. CASE handed = {}
    BY <2>2, FS_EmptySet
  <2>3. CASE handed # {}
    <3>1. PICK g \in handed : TRUE
      BY <2>3
    <3>2. handed = {g}
      BY <2>1, <3>1
    <3> QED
      BY <3>2, FS_Singleton, SMTT(30)
  <2> QED
    BY <2>2, <2>3
<1>3. AdminPairMatches
  <2>1. vault["admin-key-pub"].val > 0 => vault["admin-key-pub"].val \notin {Absent, Torn}
    BY DEF Absent, Torn
  <2> QED
    BY <2>1 DEF EntriesInv, AdminOK, AdminDiskOK, AdminMemoryOK, AdminPairMatches
<1> QED
  BY <1>1, <1>2, <1>3 DEF EntriesAreKept

\* What two calls of one group have in common is disputed.
LEMMA SoleCall ==
    ASSUME SharesOK, NEW n, n \notin disputed, NEW c \in Calls, NEW d \in Calls,
           n \in NamesOf(calls[c].op), n \in NamesOf(calls[d].op)
    PROVE  c = d
BY DEF SharesOK

\* A group that a step does not touch.
LEMMA UserFrame ==
    ASSUME UserOK, disputed \subseteq disputed', vault'["user"] = vault["user"],
           legacy'["user"] = legacy["user"], promised'["user"] = promised["user"],
           \A d \in Calls : calls'[d].op \in UserOps => calls'[d] = calls[d]
    PROVE  UserOK'
BY DEF UserOK, PromisedIsHeld, Held, MigrationOK

\* The same for the key created on first use.
LEMMA DbFrame ==
    ASSUME DbOK, disputed \subseteq disputed', vault'["db-key"] = vault["db-key"], handed' = handed,
           legacy'["db-key"] = legacy["db-key"], promised'["db-key"] = promised["db-key"],
           \A d \in Calls : calls'[d].op = "getOrCreate" => calls'[d] = calls[d]
    PROVE  DbOK'
BY DEF DbOK, PromisedIsHeld, Held, MigrationOK, OneValue

\* And for the admin pair.
LEMMA AdminFrame ==
    ASSUME AdminOK, disputed \subseteq disputed',
           \A n \in AdminNames : /\ vault'[n] = vault[n] /\ legacy'[n] = legacy[n]
                                 /\ promised'[n] = promised[n],
           signet'.adminPub = signet.adminPub, signet'.adminPriv = signet.adminPriv,
           signet'.phase \in {"init", "up"} \/ signet.phase \notin {"init", "up"},
           \A d \in Calls : calls'[d].op \in AdminOps => calls'[d] = calls[d] /\ calls[d].name \in AdminNames
    PROVE  AdminOK'
BY DEF AdminOK, AdminDiskOK, AdminMemoryOK, PromisedIsHeld, Held, MigrationOK, OneValue, AdminCallOK,
       AdminNames

\* A call c of the operation o that begins or goes on, whatever it does to the names
\* of o.
Touches(c, o) ==
  /\ \E k \in CallType : calls' = [calls EXCEPT ![c] = k] /\ k.op \in {"none", o}
  /\ \A n \in Names : n \notin NamesOf(o) =>
       vault'[n] = vault[n] /\ legacy'[n] = legacy[n] /\ promised'[n] = promised[n]
  /\ disputed \subseteq disputed' /\ (o # "getOrCreate" => handed' = handed)
  /\ o \notin AdminOps => signet' = signet

\* The admin names are only ever disputed together.
LEMMA BeginShares ==
    ASSUME KeyType, SharesOK, NEW c \in Calls, NEW k \in CallType, Begin(c, k)
    PROVE  SharesOK' /\ disputed \subseteq disputed'
<1>0. calls \in [Calls -> CallType] /\ calls[c] = NoCall /\ calls' = [calls EXCEPT ![c] = k]
      /\ disputed' = disputed \cup UNION {NamesOf(k.op) \cap NamesOf(calls[d].op) : d \in Calls}
  BY DEF KeyType, Begin
<1>1. calls'[c] = k /\ \A d \in Calls : d # c => calls'[d] = calls[d]
  BY <1>0
<1>2. ASSUME NEW a \in Calls, NEW b \in Calls, a # b
      PROVE  NamesOf(calls'[a].op) \cap NamesOf(calls'[b].op) \subseteq disputed'
  <2>1. CASE a # c /\ b # c
    BY <1>0, <1>1, <1>2, <2>1 DEF SharesOK
  <2>2. CASE a = c \/ b = c
    BY <1>0, <1>1, <1>2, <2>2
  <2> QED
    BY <2>1, <2>2
<1>3. \A o \in {"initialize", "create", "getOrCreate", "set", "get", "delete", "none"} :
        "admin-key" \in NamesOf(o) <=> "admin-key-pub" \in NamesOf(o)
  BY DEF NamesOf
<1>5. \A d \in Calls : "admin-key" \in NamesOf(calls[d].op) <=> "admin-key-pub" \in NamesOf(calls[d].op)
  BY <1>0, <1>3 DEF CallType
<1>6. "admin-key" \in NamesOf(k.op) <=> "admin-key-pub" \in NamesOf(k.op)
  BY <1>3 DEF CallType
<1>4. "admin-key" \in disputed' <=> "admin-key-pub" \in disputed'
  BY <1>0, <1>5, <1>6 DEF SharesOK
<1> QED
  BY <1>0, <1>2, <1>4 DEF SharesOK

\* A call that goes on shares no more than before.
LEMMA GoingOnShares ==
    ASSUME KeyType, SharesOK, NEW c \in Calls, NEW k \in CallType, calls' = [calls EXCEPT ![c] = k],
           k.op \in {"none", calls[c].op}, disputed \subseteq disputed',
           "admin-key" \in disputed' <=> "admin-key-pub" \in disputed'
    PROVE  SharesOK'
<1>0. calls \in [Calls -> CallType]
  BY DEF KeyType
<1>1. calls'[c] = k /\ \A d \in Calls : d # c => calls'[d] = calls[d]
  BY <1>0
<1>2. NamesOf("none") = {}
  BY DEF NamesOf
<1>3. NamesOf(k.op) \subseteq NamesOf(calls[c].op)
  BY <1>2
<1>4. \A d \in Calls : NamesOf(calls'[d].op) \subseteq NamesOf(calls[d].op)
  BY <1>1, <1>3
<1> QED
  BY <1>4 DEF SharesOK

\* What kv.get's answer does, by the call that asked.
LEMMA AnswerCases ==
    ASSUME KeyType, NEW c \in Calls, CallOK(calls[c], signet.phase),
           calls[c].pc \in {"get", "migrate"}, NEW r \in Value, Answer(c, r)
    PROVE  /\ calls[c].op \in {"initialize", "getOrCreate", "get"} /\ promised' = promised
           /\ calls[c].op = "initialize" /\ calls[c].name = "admin-key-pub" =>
                /\ handed' = handed
                /\ signet' = IF r \in {Absent, Torn} THEN signet ELSE [signet EXCEPT !.adminPub = r]
                /\ calls' = [calls EXCEPT ![c] = [calls[c] EXCEPT !.name = "admin-key", !.pc = "get"]]
           /\ calls[c].op = "initialize" /\ calls[c].name = "admin-key" =>
                /\ handed' = handed /\ calls' = [calls EXCEPT ![c] = NoCall]
                /\ signet' = [signet EXCEPT !.phase = "up",
                                !.adminPriv = IF r \in {Absent, Torn} THEN signet.adminPriv ELSE r]
           /\ calls[c].op = "getOrCreate" /\ r = Absent =>
                /\ handed' = handed /\ signet' = signet /\ gen' = gen + 1
                /\ calls' = [calls EXCEPT ![c] = [calls[c] EXCEPT !.pc = "write", !.val = gen + 1]]
           /\ calls[c].op = "getOrCreate" /\ r # Absent =>
                /\ handed' = IF r = Torn THEN handed ELSE handed \cup {r}
                /\ signet' = signet /\ calls' = [calls EXCEPT ![c] = NoCall]
           /\ calls[c].op = "get" =>
                handed' = handed /\ signet' = signet /\ calls' = [calls EXCEPT ![c] = NoCall]
<1>0. calls \in [Calls -> CallType] /\ calls[c] \in CallType
  BY DEF KeyType
<1>1. calls[c].op \in {"initialize", "getOrCreate", "get"}
  BY <1>0 DEF CallOK, CallType
<1>2. calls[c].op = "initialize" => calls[c].name \in {"admin-key", "admin-key-pub"}
  BY DEF CallOK, AdminNames
<1>3. CASE calls[c].op = "initialize" /\ calls[c].name = "admin-key-pub"
  BY <1>0, <1>3 DEF Answer
<1>4. CASE calls[c].op = "initialize" /\ calls[c].name = "admin-key"
  BY <1>0, <1>4 DEF Answer
<1>5. CASE calls[c].op = "getOrCreate" /\ r = Absent
  BY <1>0, <1>5 DEF Answer
<1>6. CASE calls[c].op = "getOrCreate" /\ r # Absent
  BY <1>0, <1>6 DEF Answer
<1>7. CASE calls[c].op = "get"
  BY <1>0, <1>7 DEF Answer
<1> QED
  BY <1>1, <1>2, <1>3, <1>4, <1>5, <1>6, <1>7

\* The names a call works on, by group.
LEMMA GroupNames ==
    /\ \A o \in UserOps : NamesOf(o) = {"user"}
    /\ NamesOf("getOrCreate") = {"db-key"} /\ NamesOf("none") = {}
    /\ \A o \in AdminOps : NamesOf(o) = AdminNames
BY DEF NamesOf, UserOps, AdminOps, AdminNames

\* The groups that a call of the operation o leaves alone.
LEMMA OtherGroups ==
    ASSUME KeyInv, EntriesInv, NEW c \in Calls, 
           NEW o \in UserOps \cup AdminOps \cup {"getOrCreate"}, Touches(c, o)
    PROVE  /\ o \notin UserOps => UserOK'
           /\ o # "getOrCreate" => DbOK'
           /\ o \notin AdminOps => AdminOK'
<1>0. calls \in [Calls -> CallType] /\ KeyType
  BY DEF KeyInv, KeyType
<1>1. PICK k \in CallType : calls' = [calls EXCEPT ![c] = k] /\ k.op \in {"none", o}
  BY DEF Touches
<1>2. calls'[c] = k /\ \A d \in Calls : d # c => calls'[d] = calls[d]
  BY <1>0, <1>1
<1>3. "user" \in Names /\ "db-key" \in Names /\ AdminNames \subseteq Names
  BY DEF Names, AdminNames
<1>4. ASSUME o \notin UserOps
      PROVE  UserOK'
  <2>1. "user" \notin NamesOf(o)
    BY <1>4, GroupNames DEF AdminNames
  <2>2. \A d \in Calls : calls'[d].op \in UserOps => calls'[d] = calls[d]
    BY <1>1, <1>2, <1>4 DEF UserOps
  <2> QED
    BY <1>3, <2>1, <2>2, UserFrame DEF Touches, EntriesInv
<1>5. ASSUME o # "getOrCreate"
      PROVE  DbOK'
  <2>1. "db-key" \notin NamesOf(o)
    BY <1>5, GroupNames DEF AdminNames
  <2>2. \A d \in Calls : calls'[d].op = "getOrCreate" => calls'[d] = calls[d]
    BY <1>1, <1>2, <1>5
  <2> QED
    BY <1>3, <1>5, <2>1, <2>2, DbFrame DEF Touches, EntriesInv
<1>6. ASSUME o \notin AdminOps
      PROVE  AdminOK'
  <2>1. \A n \in AdminNames : n \in Names /\ n \notin NamesOf(o)
    BY <1>3, <1>6, GroupNames DEF AdminNames
  <2>2. \A d \in Calls : calls'[d].op \in AdminOps => calls'[d] = calls[d] /\ calls[d].name \in AdminNames
    BY <1>1, <1>2, <1>6 DEF AdminOps, KeyInv, CallOK
  <2>3. signet' = signet
    BY <1>6 DEF Touches
  <2>4. \A n \in AdminNames : /\ vault'[n] = vault[n] /\ legacy'[n] = legacy[n]
                              /\ promised'[n] = promised[n]
    BY <2>1 DEF Touches
  <2> QED
    BY <2>2, <2>3, <2>4, AdminFrame DEF Touches, EntriesInv
<1> QED
  BY <1>4, <1>5, <1>6

\* While a name is not disputed, the call that works on it is the only one.
LEMMA OnlyOne ==
    ASSUME KeyType, SharesOK, SharesOK', NEW c \in Calls, NEW k, calls' = [calls EXCEPT ![c] = k],
           disputed \subseteq disputed', NEW n, n \notin disputed',
           n \in NamesOf(calls[c].op) \/ n \in NamesOf(k.op),
           NEW d \in Calls, n \in NamesOf(calls'[d].op)
    PROVE  d = c /\ calls'[d] = k
<1>1. calls'[c] = k /\ \A e \in Calls : e # c => calls'[e] = calls[e]
  BY DEF KeyType
<1> QED
  BY <1>1 DEF SharesOK

\* The steps of the calls on a caller's own name.
LEMMA UserStepsKeep ==
    ASSUME KeyInv, EntriesInv, NEW c \in Calls,
           \/ VaultGet(c) \/ VaultSet(c) \/ VaultDelete(c) \/ VaultDeleteEnds(c)
           \/ calls[c].op \in UserOps /\ (KvGet(c) \/ KvWritten(c) \/ KvWriteFails(c))
    PROVE  EntriesInv'
<1>0. /\ KeyType /\ calls \in [Calls -> CallType] /\ calls[c] \in CallType /\ signet \in SignetType
      /\ vault \in [Names -> [val : Value, key : Nat]] /\ legacy \in [Names -> Nat] /\ gen \in Nat
      /\ promised \in [Names -> Nat] /\ CallOK(calls[c], signet.phase) /\ SharesOK /\ UserOK
      /\ "user" \in Names
  BY DEF KeyInv, KeyType, EntriesInv, Names
<1>1. NoCall \in CallType /\ NoCall.op = "none" /\ NoCall.pc = "idle"
  BY DEF NoCall, CallType, Names, Absent
<1>2. ASSUME NEW o \in UserOps, NEW k \in CallType, calls' = [calls EXCEPT ![c] = k],
             k.op \in {"none", o}, calls[c].op = o \/ k.op = o, SharesOK', signet' = signet,
             handed' = handed, disputed \subseteq disputed',
             \A n \in Names : n # "user" =>
               vault'[n] = vault[n] /\ legacy'[n] = legacy[n] /\ promised'[n] = promised[n],
             "user" \notin disputed' =>
               /\ PromisedIsHeld("user")'
               /\ k.op = o =>
                    /\ k.pc = "migrate" => k.val = legacy'["user"] /\ vault'["user"].val = Absent
                    /\ k.pc \in {"write", "unlink"} => promised'["user"] = Absent
      PROVE  EntriesInv'
  <2>1. Touches(c, o)
    BY <1>2, GroupNames DEF Touches, UserOps
  <2>2. DbOK' /\ AdminOK'
    BY <1>2, <2>1, OtherGroups DEF UserOps, AdminOps
  <2>3. ASSUME "user" \notin disputed', NEW d \in Calls, calls'[d].op \in UserOps
        PROVE  d = c /\ calls'[d] = k /\ k.op = o
    <3>1. "user" \in NamesOf(calls'[d].op) /\ "user" \in NamesOf(o)
      BY <2>3, GroupNames
    <3>2. d = c /\ calls'[d] = k
      BY <1>0, <1>2, <2>3, <3>1, OnlyOne, ZenonT(30)
    <3> QED
      BY <1>2, <2>3, <3>2 DEF UserOps
  <2>4. UserOK'
    BY <1>2, <2>3 DEF UserOK, MigrationOK
  <2> QED
    BY <1>2, <2>2, <2>4 DEF EntriesInv
<1>3. CASE VaultGet(c)
  <2>1. PICK k : k = [op |-> "get", pc |-> "get", name |-> "user", val |-> Absent]
    OBVIOUS
  <2>2. k \in CallType /\ k.op = "get" /\ k.pc = "get"
    BY <2>1 DEF CallType, Names, Absent
  <2>3. Begin(c, k) /\ calls' = [calls EXCEPT ![c] = k]
        /\ UNCHANGED <<vault, legacy, signet, promised, handed>>
    BY <1>3, <2>1 DEF VaultGet, Begin
  <2>4. SharesOK' /\ disputed \subseteq disputed'
    BY <1>0, <2>2, <2>3, BeginShares
  <2>5. "user" \notin disputed' => PromisedIsHeld("user")'
    BY <1>0, <2>3, <2>4 DEF UserOK, PromisedIsHeld, Held
  <2> QED
    BY <1>2, <2>2, <2>3, <2>4, <2>5 DEF UserOps
<1>4. CASE VaultSet(c)
  <2>0. PICK v \in Nat : v = gen + 1
    BY <1>0
  <2>1. PICK k : k = [op |-> "set", pc |-> "write", name |-> "user", val |-> v]
    OBVIOUS
  <2>2. k \in CallType /\ k.op = "set" /\ k.pc = "write"
    BY <2>1 DEF CallType, Names
  <2>3. Begin(c, k) /\ calls' = [calls EXCEPT ![c] = k]
        /\ UNCHANGED <<vault, legacy, signet, handed>> /\ promised' = [promised EXCEPT !["user"] = Absent]
    BY <1>4, <2>0, <2>1 DEF VaultSet, Begin
  <2>4. SharesOK' /\ disputed \subseteq disputed'
    BY <1>0, <2>2, <2>3, BeginShares
  <2>5. promised'["user"] = Absent /\ \A n \in Names : n # "user" => promised'[n] = promised[n]
    BY <1>0, <2>3
  <2>6. PromisedIsHeld("user")'
    BY <2>5 DEF PromisedIsHeld
  <2> QED
    BY <1>2, <2>2, <2>3, <2>4, <2>5, <2>6 DEF UserOps
<1>5. CASE VaultDelete(c)
  <2>1. PICK k : k = [op |-> "delete", pc |-> "unlink", name |-> "user", val |-> Absent]
    OBVIOUS
  <2>2. k \in CallType /\ k.op = "delete" /\ k.pc = "unlink"
    BY <2>1 DEF CallType, Names, Absent
  <2>3. /\ Begin(c, k) /\ calls' = [calls EXCEPT ![c] = k] /\ UNCHANGED <<legacy, signet, handed>>
        /\ vault' = [vault EXCEPT !["user"] = NoEntry] /\ promised' = [promised EXCEPT !["user"] = Absent]
    BY <1>5, <2>1 DEF VaultDelete, Begin
  <2>4. SharesOK' /\ disputed \subseteq disputed'
    BY <1>0, <2>2, <2>3, BeginShares
  <2>5. /\ promised'["user"] = Absent
        /\ \A n \in Names : n # "user" => promised'[n] = promised[n] /\ vault'[n] = vault[n]
    BY <1>0, <2>3
  <2>6. PromisedIsHeld("user")'
    BY <2>5 DEF PromisedIsHeld
  <2> QED
    BY <1>2, <2>2, <2>3, <2>4, <2>5, <2>6 DEF UserOps
<1>6. CASE VaultDeleteEnds(c)
  <2>1. /\ calls[c].pc = "unlink" /\ legacy' = [legacy EXCEPT !["user"] = Absent]
        /\ calls' = [calls EXCEPT ![c] = NoCall]
        /\ UNCHANGED <<vault, signet, promised, disputed, handed>>
    BY <1>6 DEF VaultDeleteEnds
  <2>2. calls[c].op = "delete"
    BY <1>0, <2>1 DEF CallOK, CallType
  <2>3. SharesOK'
    BY <1>0, <1>1, <2>1, GoingOnShares DEF SharesOK
  <2>4. "user" \notin disputed' => PromisedIsHeld("user")'
    <3>1. "user" \notin disputed => promised["user"] = Absent
      BY <1>0, <2>1, <2>2 DEF UserOK, UserOps
    <3> QED
      BY <2>1, <3>1 DEF PromisedIsHeld
  <2>5. \A n \in Names : n # "user" => legacy'[n] = legacy[n]
    BY <1>0, <2>1
  <2> QED
    BY <1>1, <1>2, <2>1, <2>2, <2>3, <2>4, <2>5 DEF UserOps
<1>7. ASSUME calls[c].op = "get", calls[c].pc \in {"get", "migrate"}, NEW r \in Value, Answer(c, r),
             disputed' = disputed,
             \A n \in Names : n # "user" => vault'[n] = vault[n] /\ legacy'[n] = legacy[n],
             "user" \notin disputed /\ promised["user"] # Absent =>
               vault'["user"].val = promised["user"] \/ legacy'["user"] = promised["user"]
      PROVE  EntriesInv'
  <2>1. /\ promised' = promised /\ handed' = handed /\ signet' = signet
        /\ calls' = [calls EXCEPT ![c] = NoCall]
    BY <1>0, <1>7, AnswerCases
  <2>2. SharesOK'
    BY <1>0, <1>1, <1>7, <2>1, GoingOnShares DEF SharesOK
  <2>3. "user" \notin disputed' => PromisedIsHeld("user")'
    BY <1>7, <2>1 DEF PromisedIsHeld, Held
  <2> QED
    BY <1>1, <1>2, <1>7, <2>1, <2>2, <2>3 DEF UserOps
<1>8. ASSUME calls[c].op \in UserOps, calls[c].pc \in {"get", "migrate", "write"}
      PROVE  /\ calls[c].name = "user"
             /\ calls[c].pc \in {"get", "migrate"} => calls[c].op = "get"
             /\ calls[c].pc = "write" => calls[c].op = "set"
  BY <1>0, <1>8 DEF CallOK, UserOps
<1>9. CASE calls[c].op \in UserOps /\ KvGet(c)
  <2>1. calls[c].pc = "get" /\ calls[c].name = "user" /\ calls[c].op = "get"
        /\ UNCHANGED <<vault, legacy, disputed>>
    BY <1>8, <1>9 DEF KvGet
  <2>3. PICK r \in Readings("user") :
          IF r = Absent /\ legacy["user"] # Absent
          THEN /\ calls' = [calls EXCEPT ![c].pc = "migrate", ![c].val = legacy["user"]]
               /\ UNCHANGED <<gen, signet, promised, handed>>
          ELSE Answer(c, r)
    BY <1>9, <2>1 DEF KvGet
  <2>4. r \in Value /\ (r = Absent => vault["user"].val = Absent)
    BY <1>0, ReadingsAreValues
  <2>5. "user" \notin disputed => PromisedIsHeld("user")
    BY <1>0 DEF UserOK
  <2>6. CASE r = Absent /\ legacy["user"] # Absent
    <3>1. PICK v \in Nat : v = legacy["user"]
      BY <1>0
    <3>2. PICK k : k = [calls[c] EXCEPT !.pc = "migrate", !.val = v]
      OBVIOUS
    <3>3. k \in CallType /\ k.op = "get" /\ k.pc = "migrate" /\ k.val = v
      BY <1>0, <2>1, <3>2 DEF CallType
    <3>4. calls' = [calls EXCEPT ![c] = k] /\ UNCHANGED <<signet, promised, handed>>
      BY <1>0, <2>3, <2>6, <3>1, <3>2
    <3>5. SharesOK'
      BY <1>0, <2>1, <3>3, <3>4, GoingOnShares DEF SharesOK
    <3>6. "user" \notin disputed' => PromisedIsHeld("user")'
      BY <2>1, <2>5, <3>4 DEF PromisedIsHeld, Held
    <3> QED
      BY <1>2, <2>1, <2>4, <2>6, <3>1, <3>3, <3>4, <3>5, <3>6 DEF UserOps
  <2>7. CASE ~(r = Absent /\ legacy["user"] # Absent)
    BY <1>7, <2>1, <2>3, <2>4, <2>5, <2>7 DEF PromisedIsHeld, Held
  <2> QED
    BY <2>6, <2>7
<1>10. CASE calls[c].op \in UserOps /\ KvWritten(c)
  <2>1. /\ calls[c].pc \in {"migrate", "write"} /\ calls[c].name = "user" /\ disputed' = disputed
    BY <1>8, <1>10 DEF KvWritten
  <2>2. PICK e : e = [val |-> calls[c].val, key |-> signet.cached]
    OBVIOUS
  <2>3. /\ vault' = [vault EXCEPT !["user"] = e] /\ legacy' = [legacy EXCEPT !["user"] = Absent]
        /\ e.val = calls[c].val
    BY <1>10, <2>1, <2>2 DEF KvWritten
  <2>4. /\ vault'["user"].val = calls[c].val
        /\ \A n \in Names : n # "user" => vault'[n] = vault[n] /\ legacy'[n] = legacy[n]
    BY <1>0, <2>3
  <2>5. CASE calls[c].pc = "migrate"
    <3>1. Answer(c, calls[c].val) /\ calls[c].val \in Value /\ calls[c].op = "get"
      BY <1>0, <1>8, <1>10, <2>5 DEF KvWritten, CallType, Value
    <3>2. "user" \notin disputed => /\ calls[c].val = legacy["user"] /\ vault["user"].val = Absent
                                    /\ PromisedIsHeld("user")
      BY <1>0, <1>10, <2>5 DEF UserOK, MigrationOK
    <3> QED
      BY <1>7, <2>1, <2>4, <2>5, <3>1, <3>2 DEF PromisedIsHeld, Held
  <2>6. CASE calls[c].pc = "write"
    <3>1. calls[c].op = "set" /\ Written(c) /\ signet' = signet
      BY <1>8, <1>10, <2>6 DEF KvWritten
    <3>2. /\ calls' = [calls EXCEPT ![c] = NoCall] /\ handed' = handed
          /\ promised' = [promised EXCEPT !["user"] = calls[c].val]
      BY <2>1, <3>1 DEF Written
    <3>3. SharesOK'
      BY <1>0, <1>1, <2>1, <3>2, GoingOnShares DEF SharesOK
    <3>4. /\ promised'["user"] = calls[c].val /\ \A n \in Names : n # "user" => promised'[n] = promised[n]
      BY <1>0, <3>2
    <3>5. PromisedIsHeld("user")'
      BY <2>4, <3>4 DEF PromisedIsHeld, Held
    <3> QED
      BY <1>1, <1>2, <2>1, <2>4, <3>1, <3>2, <3>3, <3>4, <3>5 DEF UserOps
  <2> QED
    BY <2>1, <2>5, <2>6
<1>11. CASE calls[c].op \in UserOps /\ KvWriteFails(c)
  <2>1. calls[c].pc \in {"migrate", "write"} /\ calls[c].name = "user" /\ UNCHANGED <<legacy, disputed>>
    BY <1>8, <1>11 DEF KvWriteFails
  <2>2. PICK left \in {vault["user"], TornEntry} : vault' = [vault EXCEPT !["user"] = left]
    BY <1>11, <2>1 DEF KvWriteFails
  <2>3. \A n \in Names : n # "user" => vault'[n] = vault[n] /\ legacy'[n] = legacy[n]
    BY <1>0, <2>1, <2>2
  <2>4. CASE calls[c].pc = "migrate"
    <3>1. Answer(c, Torn) /\ Torn \in Value /\ calls[c].op = "get"
      BY <1>8, <1>11, <2>4 DEF KvWriteFails, Value
    <3>2. "user" \notin disputed => vault["user"].val = Absent /\ PromisedIsHeld("user")
      BY <1>0, <1>11, <2>4 DEF UserOK, MigrationOK
    <3> QED
      BY <1>7, <2>1, <2>3, <2>4, <3>1, <3>2 DEF PromisedIsHeld, Held
  <2>5. CASE calls[c].pc = "write"
    <3>1. calls' = [calls EXCEPT ![c] = NoCall] /\ UNCHANGED <<signet, promised, handed>>
      BY <1>11, <2>5 DEF KvWriteFails
    <3>2. calls[c].op = "set"
      BY <1>8, <1>11, <2>5
    <3>3. SharesOK'
      BY <1>0, <1>1, <2>1, <3>1, GoingOnShares DEF SharesOK
    <3>4. "user" \notin disputed' => PromisedIsHeld("user")'
      <4>1. "user" \notin disputed => promised["user"] = Absent
        BY <1>0, <2>5, <3>2 DEF UserOK, UserOps
      <4> QED
        BY <2>1, <3>1, <4>1 DEF PromisedIsHeld
    <3> QED
      BY <1>1, <1>2, <2>1, <2>3, <3>1, <3>2, <3>3, <3>4 DEF UserOps
  <2> QED
    BY <2>1, <2>4, <2>5
<1> QED
  BY <1>3, <1>4, <1>5, <1>6, <1>9, <1>10, <1>11

\* The steps of getOrCreateDbKey and getOrCreateXmtpIdentityKey.
LEMMA FirstUseStepsKeep ==
    ASSUME KeyInv, EntriesInv, NEW c \in Calls,
           \/ GetOrCreate(c)
           \/ calls[c].op = "getOrCreate" /\ (KvGet(c) \/ KvWritten(c) \/ KvWriteFails(c))
    PROVE  EntriesInv'
<1>0. /\ KeyType /\ calls \in [Calls -> CallType] /\ calls[c] \in CallType /\ signet \in SignetType
      /\ vault \in [Names -> [val : Value, key : Nat]] /\ legacy \in [Names -> Nat] /\ gen \in Nat
      /\ promised \in [Names -> Nat] /\ handed \subseteq Nat
      /\ CallOK(calls[c], signet.phase) /\ SharesOK /\ DbOK /\ "db-key" \in Names
  BY DEF KeyInv, KeyType, EntriesInv, Names
<1>1. NoCall \in CallType /\ NoCall.op = "none" /\ NoCall.pc = "idle"
  BY DEF NoCall, CallType, Names, Absent
<1>2. ASSUME NEW k \in CallType, calls' = [calls EXCEPT ![c] = k], k.op \in {"none", "getOrCreate"},
             calls[c].op = "getOrCreate" \/ k.op = "getOrCreate", SharesOK', signet' = signet,
             disputed \subseteq disputed',
             \A n \in Names : n # "db-key" =>
               vault'[n] = vault[n] /\ legacy'[n] = legacy[n] /\ promised'[n] = promised[n],
             "db-key" \notin disputed' =>
               /\ PromisedIsHeld("db-key")' /\ OneValue("db-key")'
               /\ \A h \in handed' : h # Absent /\ Held("db-key", h)'
               /\ k.op = "getOrCreate" =>
                    /\ k.pc = "migrate" => k.val = legacy'["db-key"] /\ vault'["db-key"].val = Absent
                    /\ k.pc = "write" => /\ promised'["db-key"] = Absent /\ handed' = {}
                                         /\ legacy'["db-key"] = Absent
      PROVE  EntriesInv'
  <2>1. Touches(c, "getOrCreate")
    BY <1>2, GroupNames DEF Touches
  <2>2. UserOK' /\ AdminOK'
    BY <2>1, OtherGroups DEF UserOps, AdminOps
  <2>3. ASSUME "db-key" \notin disputed', NEW d \in Calls, calls'[d].op = "getOrCreate"
        PROVE  d = c /\ calls'[d] = k
    <3>1. "db-key" \in NamesOf(calls'[d].op) /\ "db-key" \in NamesOf("getOrCreate")
      BY <2>3, GroupNames
    <3> QED
      BY <1>0, <1>2, <2>3, <3>1, OnlyOne
  <2>4. DbOK'
    BY <1>2, <2>3 DEF DbOK, MigrationOK
  <2> QED
    BY <1>2, <2>2, <2>4 DEF EntriesInv
<1>3. CASE GetOrCreate(c)
  <2>1. PICK k : k = [op |-> "getOrCreate", pc |-> "get", name |-> "db-key", val |-> Absent]
    OBVIOUS
  <2>2. k \in CallType /\ k.op = "getOrCreate" /\ k.pc = "get"
    BY <2>1 DEF CallType, Names, Absent
  <2>3. Begin(c, k) /\ calls' = [calls EXCEPT ![c] = k]
        /\ UNCHANGED <<vault, legacy, signet, promised, handed>>
    BY <1>3, <2>1 DEF GetOrCreate, Begin
  <2>4. SharesOK' /\ disputed \subseteq disputed'
    BY <1>0, <2>2, <2>3, BeginShares
  <2>5. "db-key" \notin disputed' =>
               /\ PromisedIsHeld("db-key")' /\ OneValue("db-key")'
               /\ \A h \in handed' : h # Absent /\ Held("db-key", h)'
    BY <1>0, <2>3, <2>4 DEF DbOK, PromisedIsHeld, Held, OneValue
  <2> QED
    BY <1>2, <2>2, <2>3, <2>4, <2>5
<1>4. ASSUME calls[c].op = "getOrCreate"
      PROVE  calls[c].name = "db-key"
  BY <1>0, <1>4 DEF CallOK
<1>5. ASSUME calls[c].op = "getOrCreate", calls[c].pc \in {"get", "migrate"},
             NEW r \in Value, r # Absent, Answer(c, r), disputed' = disputed,
             \A n \in Names : n # "db-key" => vault'[n] = vault[n] /\ legacy'[n] = legacy[n],
             "db-key" \notin disputed =>
               /\ promised["db-key"] # Absent =>
                    vault'["db-key"].val = promised["db-key"] \/ legacy'["db-key"] = promised["db-key"]
               /\ \A h \in handed : vault'["db-key"].val = h \/ legacy'["db-key"] = h
               /\ r # Torn => vault'["db-key"].val = r
               /\ vault'["db-key"].val \notin {Absent, Torn} /\ legacy'["db-key"] # Absent =>
                    vault'["db-key"].val = legacy'["db-key"]
      PROVE  EntriesInv'
  <2>1. /\ promised' = promised /\ signet' = signet /\ calls' = [calls EXCEPT ![c] = NoCall]
        /\ handed' = IF r = Torn THEN handed ELSE handed \cup {r}
    BY <1>0, <1>5, AnswerCases
  <2>2. SharesOK'
    BY <1>0, <1>1, <1>5, <2>1, GoingOnShares DEF SharesOK
  <2>3. "db-key" \notin disputed' =>
               /\ PromisedIsHeld("db-key")' /\ OneValue("db-key")'
               /\ \A h \in handed' : h # Absent /\ Held("db-key", h)'
    BY <1>0, <1>5, <2>1 DEF PromisedIsHeld, Held, OneValue, DbOK
  <2> QED
    BY <1>1, <1>2, <1>5, <2>1, <2>2, <2>3
<1>6. CASE calls[c].op = "getOrCreate" /\ KvGet(c)
  <2>1. calls[c].pc = "get" /\ calls[c].name = "db-key" /\ UNCHANGED <<vault, legacy, disputed>>
    BY <1>4, <1>6 DEF KvGet
  <2>2. PICK r \in Readings("db-key") :
          IF r = Absent /\ legacy["db-key"] # Absent
          THEN /\ calls' = [calls EXCEPT ![c].pc = "migrate", ![c].val = legacy["db-key"]]
               /\ UNCHANGED <<gen, signet, promised, handed>>
          ELSE Answer(c, r)
    BY <1>6, <2>1 DEF KvGet
  <2>3. r \in Value /\ (r = Absent => vault["db-key"].val = Absent)
        /\ (r \notin {Absent, Torn} => r = vault["db-key"].val)
    BY <1>0, ReadingsAreValues
  <2>4. "db-key" \notin disputed => /\ PromisedIsHeld("db-key") /\ OneValue("db-key")
                                    /\ \A h \in handed : h # Absent /\ Held("db-key", h)
    BY <1>0 DEF DbOK
  <2>5. CASE r = Absent /\ legacy["db-key"] # Absent
    <3>1. PICK v \in Nat : v = legacy["db-key"]
      BY <1>0
    <3>2. PICK k : k = [calls[c] EXCEPT !.pc = "migrate", !.val = v]
      OBVIOUS
    <3>3. k \in CallType /\ k.op = "getOrCreate" /\ k.pc = "migrate" /\ k.val = v
      BY <1>0, <1>6, <3>2 DEF CallType
    <3>4. calls' = [calls EXCEPT ![c] = k] /\ UNCHANGED <<signet, promised, handed>>
      BY <1>0, <2>2, <2>5, <3>1, <3>2
    <3>5. SharesOK'
      BY <1>0, <1>6, <2>1, <3>3, <3>4, GoingOnShares DEF SharesOK
    <3>6. "db-key" \notin disputed' => /\ PromisedIsHeld("db-key")' /\ OneValue("db-key")'
                                       /\ \A h \in handed' : h # Absent /\ Held("db-key", h)'
      BY <2>1, <2>4, <3>4 DEF PromisedIsHeld, Held, OneValue
    <3> QED
      BY <1>2, <2>1, <2>3, <2>5, <3>1, <3>3, <3>4, <3>5, <3>6
  <2>6. CASE r = Absent /\ legacy["db-key"] = Absent
    <3>1. Answer(c, r)
      BY <2>2, <2>6
    <3>2. /\ promised' = promised /\ handed' = handed /\ signet' = signet
          /\ calls' = [calls EXCEPT ![c] = [calls[c] EXCEPT !.pc = "write", !.val = gen + 1]]
      BY <1>0, <1>6, <2>1, <2>3, <2>6, <3>1, AnswerCases
    <3>3. PICK v \in Nat : v = gen + 1
      BY <1>0
    <3>4. PICK k : k = [calls[c] EXCEPT !.pc = "write", !.val = v]
      OBVIOUS
    <3>5. k \in CallType /\ k.op = "getOrCreate" /\ k.pc = "write"
      BY <1>0, <1>6, <3>4 DEF CallType
    <3>6. calls' = [calls EXCEPT ![c] = k]
      BY <3>2, <3>3, <3>4
    <3>7. SharesOK'
      BY <1>0, <1>6, <2>1, <3>5, <3>6, GoingOnShares DEF SharesOK
    <3>8. "db-key" \notin disputed => promised["db-key"] = Absent /\ handed = {}
      BY <2>3, <2>4, <2>6 DEF PromisedIsHeld, Held
    <3>9. "db-key" \notin disputed' => PromisedIsHeld("db-key")' /\ OneValue("db-key")'
      BY <2>1, <2>4, <3>2 DEF PromisedIsHeld, Held, OneValue
    <3> QED
      BY <1>2, <1>6, <2>1, <2>6, <3>2, <3>5, <3>6, <3>7, <3>8, <3>9
  <2>7. CASE r # Absent
    <3>1. Answer(c, r)
      BY <2>2, <2>7
    <3> QED
      BY <1>5, <1>6, <2>1, <2>3, <2>4, <2>7, <3>1 DEF PromisedIsHeld, Held, OneValue
  <2> QED
    BY <2>5, <2>6, <2>7
<1>7. CASE calls[c].op = "getOrCreate" /\ KvWritten(c)
  <2>1. calls[c].pc \in {"migrate", "write"} /\ calls[c].name = "db-key" /\ disputed' = disputed
    BY <1>4, <1>7 DEF KvWritten
  <2>2. PICK e : e = [val |-> calls[c].val, key |-> signet.cached]
    OBVIOUS
  <2>3. /\ vault' = [vault EXCEPT !["db-key"] = e] /\ legacy' = [legacy EXCEPT !["db-key"] = Absent]
        /\ e.val = calls[c].val
    BY <1>7, <2>1, <2>2 DEF KvWritten
  <2>4. /\ vault'["db-key"].val = calls[c].val /\ legacy'["db-key"] = Absent
        /\ \A n \in Names : n # "db-key" => vault'[n] = vault[n] /\ legacy'[n] = legacy[n]
    BY <1>0, <2>3
  <2>5. calls[c].val # Absent /\ calls[c].val \in Nat
    BY <1>0, <1>7, <2>1 DEF CallOK, CallType, Absent
  <2>6. CASE calls[c].pc = "migrate"
    <3>1. Answer(c, calls[c].val) /\ calls[c].val \in Value
      BY <1>7, <2>5, <2>6 DEF KvWritten, Value
    <3>2. "db-key" \notin disputed => /\ calls[c].val = legacy["db-key"] /\ vault["db-key"].val = Absent
                                      /\ PromisedIsHeld("db-key")
                                      /\ \A h \in handed : h # Absent /\ Held("db-key", h)
      BY <1>0, <1>7, <2>6 DEF DbOK, MigrationOK
    <3> QED
      BY <1>5, <1>7, <2>1, <2>4, <2>5, <2>6, <3>1, <3>2 DEF PromisedIsHeld, Held
  <2>7. CASE calls[c].pc = "write"
    <3>1. Written(c) /\ signet' = signet
      BY <1>7, <2>7 DEF KvWritten
    <3>2. /\ calls' = [calls EXCEPT ![c] = NoCall] /\ handed' = handed \cup {calls[c].val}
          /\ promised' = [promised EXCEPT !["db-key"] = calls[c].val]
      BY <1>7, <2>1, <3>1 DEF Written
    <3>3. SharesOK'
      BY <1>0, <1>1, <2>1, <3>2, GoingOnShares DEF SharesOK
    <3>4. promised'["db-key"] = calls[c].val /\ \A n \in Names : n # "db-key" => promised'[n] = promised[n]
      BY <1>0, <3>2
    <3>5. "db-key" \notin disputed => handed = {}
      BY <1>0, <1>7, <2>7 DEF DbOK
    <3>6. "db-key" \notin disputed' => /\ PromisedIsHeld("db-key")' /\ OneValue("db-key")'
                                       /\ \A h \in handed' : h # Absent /\ Held("db-key", h)'
      BY <2>1, <2>4, <2>5, <3>2, <3>4, <3>5 DEF PromisedIsHeld, Held, OneValue
    <3> QED
      BY <1>1, <1>2, <1>7, <2>1, <2>4, <3>1, <3>2, <3>3, <3>4, <3>6
  <2> QED
    BY <2>1, <2>6, <2>7
<1>8. CASE calls[c].op = "getOrCreate" /\ KvWriteFails(c)
  <2>1. calls[c].pc \in {"migrate", "write"} /\ calls[c].name = "db-key" /\ UNCHANGED <<legacy, disputed>>
    BY <1>4, <1>8 DEF KvWriteFails
  <2>2. PICK left \in {vault["db-key"], TornEntry} : vault' = [vault EXCEPT !["db-key"] = left]
    BY <1>8, <2>1 DEF KvWriteFails
  <2>3. vault'["db-key"] = left /\ \A n \in Names : n # "db-key" => vault'[n] = vault[n]
    BY <1>0, <2>2
  <2>4. TornEntry.val = Torn
    BY DEF TornEntry
  <2>5. CASE calls[c].pc = "migrate"
    <3>1. Answer(c, Torn) /\ Torn \in Value /\ Torn # Absent
      BY <1>8, <2>5 DEF KvWriteFails, Value, Torn, Absent
    <3>2. "db-key" \notin disputed => /\ vault["db-key"].val = Absent /\ PromisedIsHeld("db-key")
                                      /\ \A h \in handed : h # Absent /\ Held("db-key", h)
      BY <1>0, <1>8, <2>5 DEF DbOK, MigrationOK
    <3> QED
      BY <1>5, <1>8, <2>1, <2>2, <2>3, <2>4, <2>5, <3>1, <3>2 DEF PromisedIsHeld, Held
  <2>6. CASE calls[c].pc = "write"
    <3>1. calls' = [calls EXCEPT ![c] = NoCall] /\ UNCHANGED <<signet, promised, handed>>
      BY <1>8, <2>6 DEF KvWriteFails
    <3>2. SharesOK'
      BY <1>0, <1>1, <2>1, <3>1, GoingOnShares DEF SharesOK
    <3>3. "db-key" \notin disputed => promised["db-key"] = Absent /\ handed = {} /\ legacy["db-key"] = Absent
      BY <1>0, <1>8, <2>6 DEF DbOK
    <3>4. "db-key" \notin disputed' => /\ PromisedIsHeld("db-key")' /\ OneValue("db-key")'
                                       /\ \A h \in handed' : h # Absent /\ Held("db-key", h)'
      BY <2>1, <3>1, <3>3 DEF PromisedIsHeld, OneValue
    <3> QED
      BY <1>1, <1>2, <1>8, <2>1, <2>3, <3>1, <3>2, <3>4
  <2> QED
    BY <2>1, <2>5, <2>6
<1> QED
  BY <1>3, <1>6, <1>7, <1>8

\* The disk after a write of an admin key by the only admin call.
LEMMA AdminDiskSteps ==
    ASSUME KeyInv, EntriesInv, "admin-key" \notin disputed, NEW c \in Calls, calls[c].op \in AdminOps,
           calls[c].pc \in {"migrate", "write"}, NEW n \in AdminNames, n = calls[c].name,
           \A m \in AdminNames : m # n => vault'[m] = vault[m] /\ legacy'[m] = legacy[m]
    PROVE  /\ (/\ calls[c].pc = "migrate" /\ promised' = promised /\ legacy'[n] = Absent
               /\ vault'[n].val = calls[c].val) => AdminDiskOK'
           /\ (/\ calls[c].pc = "migrate" /\ promised' = promised /\ legacy'[n] = legacy[n]
               /\ vault'[n].val \in {Absent, Torn}) => AdminDiskOK'
           /\ (/\ calls[c].pc = "write" /\ n = "admin-key" /\ promised' = promised
               /\ legacy'[n] = Absent) => AdminDiskOK'
           /\ (/\ calls[c].pc = "write" /\ n = "admin-key-pub" /\ promised' = promised
               /\ legacy'[n] = Absent /\ vault'[n].val \in {Absent, Torn}) => AdminDiskOK'
           /\ (/\ calls[c].pc = "write" /\ n = "admin-key-pub" /\ legacy'[n] = Absent
               /\ vault'[n].val = calls[c].val /\ promised'["admin-key"] = calls[c].val
               /\ promised'["admin-key-pub"] = calls[c].val) => AdminDiskOK'
           /\ (/\ calls[c].pc = "migrate" /\ promised' = promised /\ legacy'[n] = legacy[n]
               /\ vault'[n].val = calls[c].val) => AdminDiskOK'
           /\ (/\ calls[c].pc = "write" /\ n = "admin-key-pub" /\ promised' = promised
               /\ legacy'[n] = Absent /\ vault'[n].val = calls[c].val) => AdminDiskOK'
<1>0. /\ AdminDiskOK /\ AdminCallOK(c) /\ promised["admin-key"] = promised["admin-key-pub"]
      /\ CallOK(calls[c], signet.phase) /\ calls[c] \in CallType /\ signet \in SignetType
  BY DEF EntriesInv, AdminOK, KeyInv, KeyType
<1>1. NoEntry.val = Absent /\ Absent # Torn /\ Torn \notin Nat
  BY DEF NoEntry, Absent, Torn
<1>2. CASE calls[c].pc = "migrate"
  <2>1. calls[c].val = legacy[n] /\ vault[n].val = Absent /\ calls[c].val # Absent
    BY <1>0, <1>2 DEF AdminCallOK, MigrationOK, CallOK, AdminOps, Absent
  <2>2. CASE n = "admin-key"
    BY <1>0, <1>1, <1>2, <2>1, <2>2
       DEF AdminDiskOK, PromisedIsHeld, OneValue, Held, AdminNames
  <2>3. CASE n = "admin-key-pub"
    BY <1>0, <1>1, <1>2, <2>1, <2>3
       DEF AdminDiskOK, PromisedIsHeld, OneValue, Held, AdminNames
  <2> QED
    BY <1>2, <2>2, <2>3 DEF AdminNames
<1>3. CASE calls[c].pc = "write"
  <2>1. /\ calls[c].op = "create" /\ vault["admin-key-pub"] = NoEntry
        /\ legacy["admin-key-pub"] = Absent /\ legacy["admin-key"] = Absent
        /\ n = "admin-key-pub" => vault["admin-key"].val = calls[c].val
        /\ calls[c].val # Absent /\ calls[c].val # Torn
    BY <1>0, <1>1, <1>3 DEF AdminCallOK, CallOK, AdminOps, CallType
  <2>2. promised["admin-key"] = Absent /\ promised["admin-key-pub"] = Absent
    BY <1>0, <1>1, <2>1 DEF AdminDiskOK, PromisedIsHeld, Held
  <2>3. CASE n = "admin-key"
    BY <1>0, <1>1, <1>3, <2>1, <2>2, <2>3
       DEF AdminDiskOK, PromisedIsHeld, OneValue, Held, AdminNames
  <2>4. CASE n = "admin-key-pub"
    BY <1>0, <1>1, <1>3, <2>1, <2>2, <2>4
       DEF AdminDiskOK, PromisedIsHeld, OneValue, Held, AdminNames
  <2> QED
    BY <1>3, <2>3, <2>4 DEF AdminNames
<1> QED
  BY <1>2, <1>3

\* The steps of initialize and admin.create.
LEMMA AdminStepsKeep ==
    ASSUME KeyInv, EntriesInv, NEW c \in Calls,
           \/ Initialize(c) \/ AdminCreate(c) \/ AdminGenerate(c)
           \/ calls[c].op \in AdminOps /\ (KvGet(c) \/ KvWritten(c) \/ KvWriteFails(c))
    PROVE  EntriesInv'
<1>0. /\ KeyType /\ calls \in [Calls -> CallType] /\ calls[c] \in CallType /\ signet \in SignetType
      /\ vault \in [Names -> [val : Value, key : Nat]] /\ legacy \in [Names -> Nat] /\ gen \in Nat
      /\ promised \in [Names -> Nat] /\ CallOK(calls[c], signet.phase) /\ SharesOK /\ AdminOK
      /\ "admin-key" \in Names /\ "admin-key-pub" \in Names
      /\ promised["admin-key"] = promised["admin-key-pub"]
      /\ signet.phase \notin {"init", "up"} => signet.adminPub = Absent /\ signet.adminPriv = Absent
  BY DEF KeyInv, KeyType, EntriesInv, AdminOK, Names
<1>1. NoCall \in CallType /\ NoCall.op = "none" /\ NoCall.pc = "idle"
  BY DEF NoCall, CallType, Names, Absent
<1>2. ASSUME NEW o \in AdminOps, NEW k \in CallType, calls' = [calls EXCEPT ![c] = k],
             k.op \in {"none", o}, calls[c].op = o \/ k.op = o, SharesOK', handed' = handed,
             disputed \subseteq disputed', signet'.phase \in {"init", "up"},
             \A n \in Names : n \notin AdminNames =>
               vault'[n] = vault[n] /\ legacy'[n] = legacy[n] /\ promised'[n] = promised[n],
             promised'["admin-key"] = promised'["admin-key-pub"],
             "admin-key" \notin disputed' =>
               AdminDiskOK' /\ AdminMemoryOK' /\ (k.op = o => AdminCallOK(c)')
      PROVE  EntriesInv'
  <2>1. Touches(c, o)
    BY <1>2, GroupNames DEF Touches, AdminOps
  <2>2. UserOK' /\ DbOK'
    BY <1>2, <2>1, OtherGroups DEF UserOps, AdminOps
  <2>3. ASSUME "admin-key" \notin disputed', NEW d \in Calls, calls'[d].op \in AdminOps
        PROVE  d = c /\ k.op = o
    <3>1. "admin-key" \in NamesOf(calls'[d].op) /\ "admin-key" \in NamesOf(o)
      BY <1>2, <2>3, GroupNames DEF AdminNames
    <3>2. d = c /\ calls'[d] = k
      BY <1>0, <1>2, <2>3, <3>1, OnlyOne, ZenonT(30)
    <3> QED
      BY <1>2, <2>3, <3>2 DEF AdminOps
  <2>4. AdminOK'
    BY <1>2, <2>3 DEF AdminOK
  <2> QED
    BY <1>2, <2>2, <2>4 DEF EntriesInv
<1>3. ASSUME "admin-key" \notin disputed
      PROVE  /\ AdminDiskOK /\ AdminMemoryOK
             /\ calls[c].op \in AdminOps => AdminCallOK(c)
  BY <1>0, <1>3 DEF AdminOK
<1>4. ASSUME UNCHANGED <<vault, legacy, promised>>, AdminDiskOK
      PROVE  AdminDiskOK'
  BY <1>4 DEF AdminDiskOK, PromisedIsHeld, OneValue, Held
<1>5. NoEntry.val = Absent /\ Absent # Torn /\ Torn \in Value /\ TornEntry.val = Torn /\ Torn \notin Nat
      /\ Absent \in Value
  BY DEF NoEntry, TornEntry, Absent, Torn, Value
<1>6. CASE Initialize(c)
  <2>1. PICK k : k = [op |-> "initialize", pc |-> "get", name |-> "admin-key-pub", val |-> Absent]
    OBVIOUS
  <2>2. k \in CallType /\ k.op = "initialize" /\ k.pc = "get" /\ k.name = "admin-key-pub"
    BY <2>1 DEF CallType, Names, Absent
  <2>3. /\ Begin(c, k) /\ calls' = [calls EXCEPT ![c] = k] /\ signet.phase = "opened"
        /\ signet' = [signet EXCEPT !.phase = "init"] /\ UNCHANGED <<vault, legacy, promised, handed>>
    BY <1>6, <2>1 DEF Initialize, Begin
  <2>4. SharesOK' /\ disputed \subseteq disputed'
    BY <1>0, <2>2, <2>3, BeginShares
  <2>5. signet'.phase = "init" /\ signet'.adminPub = Absent /\ signet'.adminPriv = Absent
    BY <1>0, <2>3 DEF SignetType
  <2>6. AdminMemoryOK' /\ calls'[c] = k
    BY <1>0, <2>3, <2>5 DEF AdminMemoryOK
  <2>7. AdminCallOK(c)'
    BY <2>2, <2>5, <2>6 DEF AdminCallOK, MigrationOK
  <2> QED
    BY <1>0, <1>2, <1>3, <1>4, <2>2, <2>3, <2>4, <2>5, <2>6, <2>7 DEF AdminOps
<1>7. CASE AdminCreate(c)
  <2>1. PICK k : k = [op |-> "create", pc |-> "gate", name |-> "admin-key", val |-> Absent]
    OBVIOUS
  <2>2. k \in CallType /\ k.op = "create" /\ k.pc = "gate"
    BY <2>1 DEF CallType, Names, Absent
  <2>3. /\ Begin(c, k) /\ calls' = [calls EXCEPT ![c] = k] /\ signet.phase = "up" /\ signet' = signet
        /\ UNCHANGED <<vault, legacy, promised, handed>>
    BY <1>7, <2>1 DEF AdminCreate, Begin
  <2>4. SharesOK' /\ disputed \subseteq disputed'
    BY <1>0, <2>2, <2>3, BeginShares
  <2>5. calls'[c] = k /\ ("admin-key" \notin disputed' => AdminMemoryOK')
    BY <1>0, <1>3, <2>3, <2>4 DEF AdminMemoryOK
  <2>6. AdminCallOK(c)'
    BY <2>2, <2>5 DEF AdminCallOK, MigrationOK
  <2> QED
    BY <1>0, <1>2, <1>3, <1>4, <2>2, <2>3, <2>4, <2>5, <2>6 DEF AdminOps
<1>8. CASE AdminGenerate(c)
  <2>1. /\ calls[c].pc = "gate" /\ calls[c].op = "create" /\ signet.phase = "up"
        /\ calls[c].name = "admin-key" /\ UNCHANGED <<vault, legacy, promised, handed>>
    BY <1>0, <1>8 DEF AdminGenerate, CallOK, CallType
  <2>2. CASE calls' = [calls EXCEPT ![c] = NoCall] /\ UNCHANGED <<signet, gen, disputed>>
    <3>1. SharesOK'
      BY <1>0, <1>1, <2>2, GoingOnShares DEF SharesOK
    <3>2. "admin-key" \notin disputed' => AdminMemoryOK'
      BY <1>3, <2>2 DEF AdminMemoryOK
    <3> QED
      BY <1>0, <1>1, <1>2, <1>3, <1>4, <2>1, <2>2, <3>1, <3>2 DEF AdminOps
  <2>3. CASE ~(calls' = [calls EXCEPT ![c] = NoCall] /\ UNCHANGED <<signet, gen, disputed>>)
    <3>1. PICK v \in Nat : v = gen + 1 /\ v # Absent
      BY <1>0 DEF Absent
    <3>2. /\ signet' = [signet EXCEPT !.adminPub = v, !.adminPriv = v]
          /\ calls' = [calls EXCEPT ![c].pc = "write", ![c].val = v]
          /\ disputed' = IF vault["admin-key-pub"] = NoEntry /\ legacy["admin-key-pub"] = Absent
                         THEN disputed ELSE disputed \cup NamesOf("create")
      BY <1>8, <2>3, <3>1 DEF AdminGenerate
    <3>3. PICK k : k = [calls[c] EXCEPT !.pc = "write", !.val = v]
      OBVIOUS
    <3>4. k \in CallType /\ k.op = "create" /\ k.pc = "write" /\ k.name = "admin-key" /\ k.val = v
      BY <1>0, <2>1, <3>3 DEF CallType
    <3>5. calls' = [calls EXCEPT ![c] = k] /\ calls'[c] = k
      BY <1>0, <3>2, <3>3
    <3>6. signet'.adminPub = v /\ signet'.adminPriv = v /\ signet'.phase = "up"
      BY <1>0, <2>1, <3>2 DEF SignetType
    <3>7. NamesOf("create") = AdminNames
      BY GroupNames DEF AdminOps
    <3>8. disputed \subseteq disputed' /\ ("admin-key" \in disputed' <=> "admin-key-pub" \in disputed')
      BY <1>0, <3>2, <3>7 DEF AdminNames, SharesOK
    <3>9. SharesOK'
      BY <1>0, <2>1, <3>4, <3>5, <3>8, GoingOnShares
    <3>10. AdminMemoryOK'
      BY <3>6 DEF AdminMemoryOK
    <3>11. ASSUME "admin-key" \notin disputed'
           PROVE  AdminDiskOK' /\ AdminCallOK(c)'
      <4>1. vault["admin-key-pub"] = NoEntry /\ legacy["admin-key-pub"] = Absent
            /\ "admin-key" \notin disputed
        BY <3>2, <3>7, <3>11 DEF AdminNames
      <4>2. AdminDiskOK /\ AdminDiskOK' /\ legacy["admin-key"] = Absent
        BY <1>3, <1>4, <2>1, <4>1 DEF AdminDiskOK
      <4> QED
        BY <2>1, <3>1, <3>4, <3>5, <3>6, <4>1, <4>2 DEF AdminCallOK, MigrationOK
    <3> QED
      BY <1>0, <1>2, <2>1, <3>4, <3>5, <3>6, <3>8, <3>9, <3>10, <3>11 DEF AdminOps
  <2> QED
    BY <2>2, <2>3
<1>9. ASSUME calls[c].op \in AdminOps, calls[c].pc \in {"get", "migrate", "write"}
      PROVE  /\ calls[c].name \in AdminNames /\ signet.phase \in {"init", "up"}
             /\ calls[c].pc \in {"get", "migrate"} => calls[c].op = "initialize"
             /\ calls[c].pc = "write" => calls[c].op = "create"
  BY <1>0, <1>9 DEF CallOK, AdminOps
<1>10. ASSUME calls[c].op = "initialize", calls[c].pc \in {"get", "migrate"},
              NEW r \in Value, Answer(c, r), disputed' = disputed,
              \A n \in Names : n \notin AdminNames => vault'[n] = vault[n] /\ legacy'[n] = legacy[n],
              "admin-key" \notin disputed =>
                /\ promised' = promised => AdminDiskOK'
                /\ calls[c].name = "admin-key-pub" /\ r \notin {Absent, Torn} =>
                     vault'["admin-key-pub"].val = r
                /\ calls[c].name = "admin-key" /\ r \notin {Absent, Torn} /\ signet.adminPub # Absent =>
                     r = signet.adminPub
       PROVE  EntriesInv'
  <2>0. calls[c].name \in {"admin-key", "admin-key-pub"} /\ signet.phase = "init" /\ promised' = promised
    BY <1>0, <1>10, AnswerCases DEF CallOK, AdminNames
  <2>1. CASE calls[c].name = "admin-key-pub"
    <3>1. PICK k : k = [calls[c] EXCEPT !.name = "admin-key", !.pc = "get"]
      OBVIOUS
    <3>2. k \in CallType /\ k.op = "initialize" /\ k.pc = "get" /\ k.name = "admin-key"
      BY <1>0, <1>10, <3>1 DEF CallType, Names
    <3>3. /\ calls' = [calls EXCEPT ![c] = k] /\ handed' = handed
          /\ signet' = IF r \in {Absent, Torn} THEN signet ELSE [signet EXCEPT !.adminPub = r]
      BY <1>0, <1>10, <2>1, <3>1, AnswerCases
    <3>4. calls'[c] = k
      BY <1>0, <3>3
    <3>5. SharesOK'
      BY <1>0, <1>10, <3>2, <3>3, GoingOnShares DEF SharesOK
    <3>6. /\ signet'.phase = "init" /\ signet'.adminPriv = signet.adminPriv
          /\ signet'.adminPub = IF r \in {Absent, Torn} THEN signet.adminPub ELSE r
      BY <1>0, <2>0, <3>3 DEF SignetType
    <3>7. ASSUME "admin-key" \notin disputed
          PROVE  AdminDiskOK' /\ AdminMemoryOK' /\ AdminCallOK(c)'
      <4>1. signet.adminPriv = Absent /\ signet.adminPub = Absent
        BY <1>3, <1>10, <2>1, <3>7 DEF AdminCallOK, AdminOps
      <4>2. AdminDiskOK' /\ (r \notin {Absent, Torn} => vault'["admin-key-pub"].val = r)
        BY <1>10, <2>0, <2>1, <3>7
      <4> QED
        BY <3>2, <3>4, <3>6, <4>1, <4>2 DEF AdminMemoryOK, AdminCallOK, MigrationOK
    <3> QED
      BY <1>0, <1>2, <1>10, <2>0, <3>2, <3>3, <3>5, <3>6, <3>7 DEF AdminOps
  <2>2. CASE calls[c].name = "admin-key"
    <3>1. PICK v : v = IF r \in {Absent, Torn} THEN signet.adminPriv ELSE r
      OBVIOUS
    <3>2. /\ calls' = [calls EXCEPT ![c] = NoCall] /\ handed' = handed
          /\ signet' = [signet EXCEPT !.phase = "up", !.adminPriv = v]
      BY <1>0, <1>10, <2>2, <3>1, AnswerCases
    <3>3. SharesOK'
      BY <1>0, <1>1, <1>10, <3>2, GoingOnShares DEF SharesOK
    <3>4. signet'.phase = "up" /\ signet'.adminPriv = v /\ signet'.adminPub = signet.adminPub
      BY <1>0, <3>2 DEF SignetType
    <3>5. ASSUME "admin-key" \notin disputed
          PROVE  AdminDiskOK' /\ AdminMemoryOK'
      <4>1. signet.adminPriv = Absent
        BY <1>3, <1>10, <3>5 DEF AdminCallOK, AdminOps
      <4> QED
        BY <1>10, <2>0, <2>2, <3>1, <3>4, <3>5, <4>1 DEF AdminMemoryOK
    <3> QED
      BY <1>0, <1>1, <1>2, <1>10, <2>0, <3>2, <3>3, <3>4, <3>5 DEF AdminOps
  <2> QED
    BY <2>0, <2>1, <2>2
<1>11. ASSUME "admin-key" \notin disputed, calls[c].op = "initialize", calls[c].name = "admin-key",
              signet.adminPub # Absent
       PROVE  Held("admin-key", signet.adminPub)
  <2>1. vault["admin-key-pub"].val = signet.adminPub /\ signet.adminPub \in Nat
    BY <1>0, <1>3, <1>11 DEF AdminCallOK, AdminOps, SignetType
  <2> QED
    BY <1>3, <1>5, <1>11, <2>1 DEF AdminDiskOK
<1>12. CASE calls[c].op \in AdminOps /\ KvGet(c)
  <2>1. PICK n \in Names : n = calls[c].name
    BY <1>0 DEF CallType
  <2>2. /\ calls[c].pc = "get" /\ calls[c].op = "initialize" /\ signet.phase \in {"init", "up"}
        /\ UNCHANGED <<vault, legacy, disputed>>
    BY <1>9, <1>12 DEF KvGet
  <2>3. PICK r \in Readings(n) :
          IF r = Absent /\ legacy[n] # Absent
          THEN /\ calls' = [calls EXCEPT ![c].pc = "migrate", ![c].val = legacy[n]]
               /\ UNCHANGED <<gen, signet, promised, handed>>
          ELSE Answer(c, r)
    BY <1>12, <2>1 DEF KvGet
  <2>4. r \in Value /\ (r = Absent => vault[n].val = Absent) /\ (r \notin {Absent, Torn} => r = vault[n].val)
    BY <1>0, ReadingsAreValues
  <2>5. CASE r = Absent /\ legacy[n] # Absent
    <3>1. PICK v \in Nat : v = legacy[n]
      BY <1>0
    <3>2. PICK k : k = [calls[c] EXCEPT !.pc = "migrate", !.val = v]
      OBVIOUS
    <3>3. k \in CallType /\ k.op = "initialize" /\ k.pc = "migrate" /\ k.val = v /\ k.name = n
      BY <1>0, <2>1, <2>2, <3>2 DEF CallType
    <3>4. calls' = [calls EXCEPT ![c] = k] /\ calls'[c] = k /\ UNCHANGED <<signet, promised, handed>>
      BY <1>0, <2>3, <2>5, <3>1, <3>2
    <3>5. SharesOK'
      BY <1>0, <2>2, <3>3, <3>4, GoingOnShares DEF SharesOK
    <3>6. ASSUME "admin-key" \notin disputed
          PROVE  AdminDiskOK' /\ AdminMemoryOK' /\ AdminCallOK(c)'
      <4>1. AdminDiskOK'
        BY <1>3, <1>4, <2>2, <3>4, <3>6
      <4>2. AdminMemoryOK'
        BY <1>3, <3>4, <3>6 DEF AdminMemoryOK
      <4>3. AdminCallOK(c)
        BY <1>3, <2>2, <3>6 DEF AdminOps
      <4> QED
        BY <2>1, <2>2, <2>4, <2>5, <3>1, <3>3, <3>4, <4>1, <4>2, <4>3 DEF AdminCallOK, MigrationOK
    <3> QED
      BY <1>0, <1>2, <2>2, <3>3, <3>4, <3>5, <3>6 DEF AdminOps
  <2>6. CASE ~(r = Absent /\ legacy[n] # Absent)
    <3>1. Answer(c, r)
      BY <2>3, <2>6
    <3>2. ASSUME "admin-key" \notin disputed, promised' = promised
          PROVE  AdminDiskOK'
      BY <1>3, <1>4, <2>2, <3>2
    <3>3. ASSUME "admin-key" \notin disputed, n = "admin-key", r \notin {Absent, Torn},
                 signet.adminPub # Absent
          PROVE  r = signet.adminPub
      <4>1. Held("admin-key", signet.adminPub) /\ OneValue("admin-key")
        BY <1>3, <1>11, <2>1, <2>2, <3>3 DEF AdminDiskOK
      <4> QED
        BY <2>4, <3>3, <4>1 DEF Held, OneValue
    <3> QED
      BY <1>10, <2>1, <2>2, <2>4, <3>1, <3>2, <3>3
  <2> QED
    BY <2>5, <2>6
<1>13. CASE calls[c].op \in AdminOps /\ (KvWritten(c) \/ KvWriteFails(c))
  <2>1. PICK n \in AdminNames : n = calls[c].name
    BY <1>9, <1>13 DEF KvWritten, KvWriteFails
  <2>2. /\ calls[c].pc \in {"migrate", "write"} /\ disputed' = disputed /\ n \in Names
        /\ calls[c].pc = "migrate" => calls[c].op = "initialize"
        /\ calls[c].pc = "write" => calls[c].op = "create"
        /\ signet.phase \in {"init", "up"} /\ calls[c].val \in Nat
    BY <1>0, <1>9, <1>13, <2>1 DEF KvWritten, KvWriteFails, AdminNames, Names, CallType
  <2>3. PICK e : /\ vault' = [vault EXCEPT ![n] = e]
                 /\ KvWritten(c) => e.val = calls[c].val
                 /\ KvWriteFails(c) => e \in {vault[n], TornEntry}
    <3>1. CASE KvWritten(c)
      <4>1. PICK e : e = [val |-> calls[c].val, key |-> signet.cached]
        OBVIOUS
      <4>2. vault' = [vault EXCEPT ![n] = e] /\ e.val = calls[c].val
        BY <2>1, <3>1, <4>1 DEF KvWritten
      <4>3. CASE KvWriteFails(c)
        <5>1. PICK left \in {vault[n], TornEntry} : vault' = [vault EXCEPT ![n] = left]
          BY <2>1, <4>3 DEF KvWriteFails
        <5>2. left = e
          BY <1>0, <2>2, <4>2, <5>1
        <5> QED
          BY <4>2, <5>1, <5>2
      <4> QED
        BY <4>2, <4>3
    <3>2. CASE ~KvWritten(c)
      BY <1>13, <2>1, <3>2 DEF KvWriteFails
    <3> QED
      BY <3>1, <3>2
  <2>4. /\ vault'[n] = e /\ (KvWritten(c) => legacy'[n] = Absent) /\ (KvWriteFails(c) => legacy'[n] = legacy[n])
        /\ \A m \in Names : m # n => vault'[m] = vault[m] /\ legacy'[m] = legacy[m]
    BY <1>0, <1>13, <2>1, <2>2, <2>3 DEF KvWritten, KvWriteFails
  <2>5. ASSUME "admin-key" \notin disputed
        PROVE  /\ AdminCallOK(c)
               /\ calls[c].pc = "migrate" => calls[c].val = legacy[n] /\ vault[n].val = Absent
               /\ calls[c].pc = "write" /\ n = "admin-key-pub" => vault[n].val = Absent
               /\ calls[c].pc = "write" => legacy[n] = Absent
    BY <1>3, <1>5, <1>13, <2>1, <2>2, <2>5 DEF AdminCallOK, MigrationOK, AdminNames
  <2>6. CASE calls[c].pc = "migrate"
    <3>1. PICK r \in Value : /\ Answer(c, r) /\ (KvWritten(c) => r = calls[c].val)
                             /\ r \notin {Absent, Torn} => KvWritten(c)
      BY <1>5, <1>13, <2>2, <2>6 DEF KvWritten, KvWriteFails, Value
    <3>2. ASSUME "admin-key" \notin disputed, promised' = promised
          PROVE  AdminDiskOK'
      BY <1>5, <1>13, <2>1, <2>2, <2>3, <2>4, <2>5, <2>6, <3>2, AdminDiskSteps DEF AdminNames, Names
    <3>3. ASSUME "admin-key" \notin disputed, n = "admin-key", r \notin {Absent, Torn},
                 signet.adminPub # Absent
          PROVE  r = signet.adminPub
      <4>1. Held("admin-key", signet.adminPub)
        BY <1>11, <2>1, <2>2, <2>6, <3>3
      <4> QED
        BY <2>5, <2>6, <3>1, <3>3, <4>1 DEF Held
    <3>4. r \notin {Absent, Torn} => vault'[n].val = r
      BY <2>3, <2>4, <3>1
    <3> QED
      BY <1>10, <2>1, <2>2, <2>4, <2>6, <3>1, <3>2, <3>3, <3>4
  <2>7. CASE calls[c].pc = "write" /\ KvWriteFails(c)
    <3>1. calls' = [calls EXCEPT ![c] = NoCall] /\ UNCHANGED <<signet, promised, handed>>
      BY <2>7 DEF KvWriteFails
    <3>2. SharesOK'
      BY <1>0, <1>1, <2>2, <3>1, GoingOnShares DEF SharesOK
    <3>3. ASSUME "admin-key" \notin disputed
          PROVE  AdminDiskOK' /\ AdminMemoryOK'
      <4>1. AdminMemoryOK'
        BY <1>3, <3>1, <3>3 DEF AdminMemoryOK
      <4>2. n = "admin-key-pub" => vault'[n].val \in {Absent, Torn}
        BY <1>5, <2>3, <2>4, <2>5, <2>7, <3>3
      <4> QED
        BY <1>13, <2>1, <2>2, <2>4, <2>5, <2>7, <3>1, <3>3, <4>1, <4>2, AdminDiskSteps DEF AdminNames, Names
    <3> QED
      BY <1>0, <1>1, <1>2, <2>1, <2>2, <2>4, <2>7, <3>1, <3>2, <3>3 DEF AdminOps
  <2>8. CASE calls[c].pc = "write" /\ KvWritten(c)
    <3>1. Written(c) /\ signet' = signet /\ calls[c].op = "create"
      BY <2>2, <2>8 DEF KvWritten
    <3>2. CASE n = "admin-key"
      <4>1. calls' = [calls EXCEPT ![c].name = "admin-key-pub", ![c].val = signet.adminPub]
            /\ UNCHANGED <<promised, handed>>
        BY <2>1, <3>1, <3>2 DEF Written
      <4>2. PICK k : k = [calls[c] EXCEPT !.name = "admin-key-pub", !.val = signet.adminPub]
        OBVIOUS
      <4>3. /\ k \in CallType /\ k.op = "create" /\ k.pc = "write" /\ k.name = "admin-key-pub"
            /\ k.val = signet.adminPub
        BY <1>0, <2>8, <3>1, <4>2 DEF CallType, SignetType
      <4>4. calls' = [calls EXCEPT ![c] = k] /\ calls'[c] = k
        BY <1>0, <4>1, <4>2
      <4>5. SharesOK'
        BY <1>0, <2>2, <3>1, <4>3, <4>4, GoingOnShares DEF SharesOK
      <4>6. ASSUME "admin-key" \notin disputed
            PROVE  AdminDiskOK' /\ AdminMemoryOK' /\ AdminCallOK(c)'
        <5>1. AdminMemoryOK'
          BY <1>3, <3>1, <4>6 DEF AdminMemoryOK
        <5>2. AdminDiskOK'
          BY <1>13, <2>1, <2>2, <2>4, <2>8, <3>2, <4>1, <4>6, AdminDiskSteps DEF AdminNames, Names
        <5>3. AdminCallOK(c)'
          BY <2>1, <2>3, <2>4, <2>5, <2>8, <3>1, <3>2, <4>3, <4>4, <4>6, <1>0
             DEF AdminCallOK, MigrationOK
        <5> QED
          BY <5>1, <5>2, <5>3
      <4> QED
        BY <1>0, <1>2, <2>1, <2>2, <2>4, <3>1, <4>1, <4>3, <4>4, <4>5, <4>6, ZenonT(30) DEF AdminOps
    <3>3. CASE n = "admin-key-pub"
      <4>1. /\ calls' = [calls EXCEPT ![c] = NoCall] /\ handed' = handed
            /\ promised' = [promised EXCEPT !["admin-key"] = calls[c].val,
                                            !["admin-key-pub"] = calls[c].val]
        BY <2>1, <3>1, <3>3 DEF Written
      <4>2. /\ promised'["admin-key"] = calls[c].val /\ promised'["admin-key-pub"] = calls[c].val
            /\ \A m \in Names : m \notin AdminNames => promised'[m] = promised[m]
        BY <1>0, <4>1 DEF AdminNames
      <4>3. SharesOK'
        BY <1>0, <1>1, <2>2, <4>1, GoingOnShares DEF SharesOK
      <4>4. ASSUME "admin-key" \notin disputed
            PROVE  AdminDiskOK' /\ AdminMemoryOK'
        <5>1. AdminMemoryOK'
          BY <1>3, <3>1, <4>4 DEF AdminMemoryOK
        <5>2. AdminDiskOK'
          BY <1>13, <2>1, <2>2, <2>3, <2>4, <2>8, <3>3, <4>2, <4>4, AdminDiskSteps, ZenonT(30) DEF AdminNames, Names
        <5> QED
          BY <5>1, <5>2
      <4> QED
        BY <1>0, <1>1, <1>2, <2>1, <2>2, <2>4, <3>1, <4>1, <4>2, <4>3, <4>4 DEF AdminOps
    <3> QED
      BY <2>1, <3>2, <3>3 DEF AdminNames
  <2> QED
    BY <1>13, <2>2, <2>6, <2>7, <2>8
<1> QED
  BY <1>6, <1>7, <1>8, <1>12, <1>13

\* Opening the store and ending in order change no entry.
LEMMA QuietStepsKeep ==
    ASSUME KeyInv, EntriesInv, Opening \/ Close
    PROVE  EntriesInv'
<1>0. signet \in SignetType /\ signet.phase \in {"down", "secret", "write", "opened", "init", "up"}
  BY DEF KeyInv, KeyType, SignetType
<1>1. UNCHANGED <<vault, legacy, calls, promised, disputed, handed>>
  BY DEF Opening, OpenVault, ReadSecret, GenerateSecret, DecryptSecret, CreateEnclaveKey,
         WriteSecretFile, Close
<1>2. SharesOK' /\ UserOK' /\ DbOK'
  BY <1>1, UserFrame, DbFrame DEF EntriesInv, SharesOK
<1>3. CASE Opening
  <2>1. signet.phase \in {"down", "secret", "write"}
    BY <1>3 DEF Opening, OpenVault, ReadSecret, GenerateSecret, DecryptSecret, CreateEnclaveKey,
                WriteSecretFile
  <2>2. signet.adminPub = Absent /\ signet.adminPriv = Absent
    BY <2>1 DEF EntriesInv, AdminOK
  <2>3. signet'.adminPub = Absent /\ signet'.adminPriv = Absent
    <3>1. Down \in SignetType /\ Down.adminPub = Absent /\ Down.adminPriv = Absent
      BY DEF Down, SignetType, Absent, Value
    <3>2. ASSUME NEW a \in Platforms, NEW b \in SignerFound, OpenVault(a, b)
          PROVE  signet'.adminPub = Absent /\ signet'.adminPriv = Absent
      <4>1. signet' = [Down EXCEPT !.phase = "secret", !.provider = Provider(a, b)]
        BY <3>2 DEF OpenVault
      <4> QED
        BY <4>1 DEF Down
    <3>3. CASE ReadSecret
      <4>1. \/ signet' = Down
            \/ signet' = [signet EXCEPT !.phase = "opened", !.cached = files[SecretFile]]
        BY <3>3 DEF ReadSecret
      <4> QED
        BY <1>0, <2>2, <3>1, <4>1 DEF SignetType
    <3>4. CASE DecryptSecret
      <4>1. \/ signet' = Down
            \/ signet' = [signet EXCEPT !.phase = "opened", !.cached = files["vault-sealed-box"]]
        BY <3>4 DEF DecryptSecret
      <4> QED
        BY <1>0, <2>2, <3>1, <4>1 DEF SignetType
    <3>5. CASE GenerateSecret
      <4>1. signet' = [signet EXCEPT !.phase = "write", !.file = "vault-passphrase",
                                     !.cached = gen + 1]
        BY <3>5 DEF GenerateSecret
      <4> QED
        BY <1>0, <2>2, <4>1 DEF SignetType
    <3>6. CASE CreateEnclaveKey
      <4>1. \/ signet' = Down
            \/ signet' = [signet EXCEPT !.phase = "write", !.file = "se-vault-keyref",
                                        !.cached = gen + 1]
        BY <3>6 DEF CreateEnclaveKey
      <4> QED
        BY <1>0, <2>2, <3>1, <4>1 DEF SignetType
    <3>7. CASE WriteSecretFile
      <4>1. \/ signet' = Down
            \/ \E f, p : signet' = [signet EXCEPT !.file = f, !.phase = p]
        BY <3>7 DEF WriteSecretFile
      <4> QED
        BY <1>0, <2>2, <3>1, <4>1 DEF SignetType
    <3> QED
      BY <1>3, <3>2, <3>3, <3>4, <3>5, <3>6, <3>7 DEF Opening
  <2>4. \A d \in Calls : calls'[d].op \notin AdminOps
    BY <1>1, <2>1, NoCallsBefore DEF AdminOps
  <2>5. AdminOK'
    BY <1>1, <2>1, <2>2, <2>3, <2>4, AdminFrame DEF EntriesInv
  <2> QED
    BY <1>2, <2>5 DEF EntriesInv
<1>4. CASE Close
  <2>1. signet' = Down /\ \A d \in Calls : calls[d] = NoCall
    BY <1>4 DEF Close
  <2>2. Down.adminPub = Absent /\ Down.adminPriv = Absent /\ NoCall.op \notin AdminOps
    BY DEF Down, NoCall, AdminOps
  <2>3. \A d \in Calls : calls'[d].op \notin AdminOps
    BY <1>1, <2>1, <2>2
  <2>4. AdminOK'
    BY <1>1, <2>1, <2>2, <2>3
       DEF EntriesInv, AdminOK, AdminDiskOK, AdminMemoryOK, PromisedIsHeld, Held, OneValue
  <2> QED
    BY <1>2, <2>4 DEF EntriesInv
<1> QED
  BY <1>3, <1>4

\* A crash in the middle of the calls.
LEMMA CrashKeeps ==
    ASSUME KeyInv, EntriesInv, CrashKeys
    PROVE  EntriesInv'
<1>0. /\ calls \in [Calls -> CallType] /\ legacy \in [Names -> Nat] /\ KeyType
      /\ \A d \in Calls : CallOK(calls[d], signet.phase) /\ calls[d] \in CallType
      /\ vault \in [Names -> [val : Value, key : Nat]]
  BY DEF KeyInv, KeyType
<1>1. /\ signet' = Down /\ calls' = [c \in Calls |-> NoCall]
      /\ UNCHANGED <<legacy, promised, disputed, handed>>
  BY DEF CrashKeys
<1>2. \A d \in Calls : calls'[d].op = "none"
  BY <1>1 DEF NoCall
<1>3. TornEntry.val = Torn /\ Absent # Torn
  BY DEF TornEntry, Absent, Torn
<1>4. ASSUME NEW n \in Names
      PROVE  \/ vault'[n] = vault[n]
             \/ \E d \in Calls : /\ calls[d].pc \in {"migrate", "write"} /\ calls[d].name = n
                                 /\ vault'[n].val \in {Torn, calls[d].val}
  <2>1. CASE vault'[n] = TornEntry /\ Writing(n) # {}
    BY <1>3, <2>1 DEF Writing
  <2>2. ASSUME NEW d \in Writing(n), vault'[n] = [val |-> calls[d].val, key |-> signet.cached]
        PROVE  vault'[n].val = calls[d].val /\ d \in Calls
    BY <2>2 DEF Writing
  <2> QED
    BY <2>1, <2>2, CrashLeaves DEF Writing
<1>5. SharesOK'
  <2>1. NamesOf("none") = {}
    BY GroupNames
  <2> QED
    BY <1>1, <1>2, <2>1 DEF EntriesInv, SharesOK
<1>6. UserOK'
  <2>1. ASSUME "user" \notin disputed, promised["user"] # Absent
        PROVE  vault'["user"].val = promised["user"] \/ legacy["user"] = promised["user"]
    <3>1. vault["user"].val = promised["user"] \/ legacy["user"] = promised["user"]
      BY <2>1 DEF EntriesInv, UserOK, PromisedIsHeld, Held
    <3>2. ASSUME NEW d \in Calls, calls[d].pc \in {"migrate", "write"}, calls[d].name = "user"
          PROVE  legacy["user"] = promised["user"]
      <4>1. calls[d].op \in UserOps
        BY <1>0, <3>2 DEF CallOK, CallType, UserOps, AdminNames
      <4> QED
        BY <2>1, <3>1, <3>2, <4>1 DEF EntriesInv, UserOK, MigrationOK
    <3> QED
      BY <1>4, <3>1, <3>2 DEF Names
  <2> QED
    BY <1>1, <1>2, <2>1 DEF UserOK, PromisedIsHeld, Held, UserOps
<1>7. DbOK'
  <2>1. ASSUME "db-key" \notin disputed
        PROVE  /\ promised["db-key"] # Absent =>
                    vault'["db-key"].val = promised["db-key"] \/ legacy["db-key"] = promised["db-key"]
               /\ \A h \in handed : h # Absent /\ (vault'["db-key"].val = h \/ legacy["db-key"] = h)
               /\ vault'["db-key"].val \notin {Absent, Torn} /\ legacy["db-key"] # Absent =>
                    vault'["db-key"].val = legacy["db-key"]
    <3>1. DbOK
      BY DEF EntriesInv
    <3>2. CASE vault'["db-key"] = vault["db-key"]
      BY <2>1, <3>1, <3>2 DEF DbOK, PromisedIsHeld, Held, OneValue
    <3>3. ASSUME NEW d \in Calls, calls[d].pc \in {"migrate", "write"}, calls[d].name = "db-key",
                 vault'["db-key"].val \in {Torn, calls[d].val}
          PROVE  /\ promised["db-key"] # Absent => legacy["db-key"] = promised["db-key"]
                 /\ \A h \in handed : h # Absent /\ legacy["db-key"] = h
                 /\ vault'["db-key"].val \notin {Absent, Torn} /\ legacy["db-key"] # Absent =>
                      vault'["db-key"].val = legacy["db-key"]
      <4>1. calls[d].op = "getOrCreate"
        BY <1>0, <3>3 DEF CallOK, CallType, AdminNames
      <4>2. CASE calls[d].pc = "migrate"
        BY <2>1, <3>1, <3>3, <4>1, <4>2 DEF DbOK, MigrationOK, PromisedIsHeld, Held
      <4>3. CASE calls[d].pc = "write"
        BY <2>1, <3>1, <3>3, <4>1, <4>3 DEF DbOK
      <4> QED
        BY <3>3, <4>2, <4>3
    <3> QED
      BY <1>4, <3>2, <3>3 DEF Names
  <2> QED
    BY <1>1, <1>2, <2>1 DEF DbOK, PromisedIsHeld, Held, OneValue
<1>8. AdminOK'
  <2>1. Down.adminPub = Absent /\ Down.adminPriv = Absent
    BY DEF Down
  <2>2. ASSUME "admin-key" \notin disputed
        PROVE  AdminDiskOK'
    <3>1. CASE \A n \in AdminNames : vault'[n] = vault[n]
      BY <1>1, <2>2, <3>1 DEF EntriesInv, AdminOK, AdminDiskOK, PromisedIsHeld, Held, OneValue, AdminNames
    <3>2. ASSUME NEW n \in AdminNames, NEW d \in Calls, calls[d].pc \in {"migrate", "write"},
                 calls[d].name = n, vault'[n].val \in {Torn, calls[d].val}
          PROVE  AdminDiskOK'
      <4>1. calls[d].op \in AdminOps
        BY <1>0, <3>2 DEF CallOK, CallType, AdminNames, AdminOps
      <4>2. ASSUME NEW m \in AdminNames, m # n
            PROVE  vault'[m] = vault[m] /\ legacy'[m] = legacy[m]
        <5>1. ASSUME NEW e \in Calls, calls[e].pc \in {"migrate", "write"}, calls[e].name = m
              PROVE  FALSE
          <6>1. calls[e].op \in AdminOps
            BY <1>0, <5>1 DEF CallOK, CallType, AdminNames, AdminOps
          <6>2. "admin-key" \in NamesOf(calls[e].op) /\ "admin-key" \in NamesOf(calls[d].op)
            BY <4>1, <6>1, GroupNames DEF AdminNames
          <6>3. e = d
            BY <2>2, <6>2, SoleCall DEF EntriesInv
          <6> QED
            BY <3>2, <4>2, <5>1, <6>3
        <5> QED
          BY <1>1, <1>4, <5>1 DEF AdminNames, Names
      <4>3. calls[d].pc = "write" => legacy[n] = Absent
        BY <2>2, <3>2, <4>1, <1>0 DEF EntriesInv, AdminOK, AdminCallOK, AdminNames, CallOK, AdminOps
      <4>4. n = "admin-key" \/ n = "admin-key-pub"
        BY DEF AdminNames
      <4> QED
        BY <1>1, <2>2, <3>2, <4>1, <4>2, <4>3, <4>4, AdminDiskSteps
    <3> QED
      BY <1>4, <3>1, <3>2 DEF AdminNames, Names
  <2> QED
    BY <1>1, <1>2, <2>1, <2>2 DEF EntriesInv, AdminOK, AdminMemoryOK, AdminOps
<1> QED
  BY <1>5, <1>6, <1>7, <1>8 DEF EntriesInv

\* A fresh directory, or one of an earlier release.
LEMMA KInitEntries ==
    ASSUME KInit
    PROVE  EntriesInv
<1>1. PICK kept \in SUBSET {"db-key", "user", "admin-key"} :
        legacy = [n \in Names |-> IF n \in kept THEN 2
                    ELSE IF n = "admin-key-pub" /\ "admin-key" \in kept THEN 2 ELSE Absent]
  BY DEF KInit
<1>2. /\ vault = [n \in Names |-> NoEntry] /\ signet = Down /\ calls = [c \in Calls |-> NoCall]
      /\ promised = legacy /\ disputed = {} /\ handed = {legacy["db-key"]} \ {Absent}
  BY DEF KInit
<1>3. \A d \in Calls : calls[d].op = "none"
  BY <1>2 DEF NoCall
<1>4. \A n \in Names : vault[n].val = Absent /\ vault[n] = NoEntry
  BY <1>2 DEF NoEntry
<1>5. legacy["admin-key"] = legacy["admin-key-pub"]
  BY <1>1 DEF Names
<1>6. Down.adminPub = Absent /\ Down.adminPriv = Absent
  BY DEF Down
<1>7. SharesOK
  BY <1>2, <1>3, GroupNames DEF SharesOK
<1>8. UserOK
  BY <1>2, <1>3 DEF UserOK, UserOps, PromisedIsHeld, Held
<1>9. DbOK
  BY <1>2, <1>3, <1>4 DEF DbOK, PromisedIsHeld, Held, OneValue, Names
<1>10. AdminOK
  BY <1>2, <1>3, <1>4, <1>5, <1>6
     DEF AdminOK, AdminDiskOK, AdminMemoryOK, AdminOps, PromisedIsHeld, Held, OneValue, Names
<1> QED
  BY <1>7, <1>8, <1>9, <1>10 DEF EntriesInv

(***************************************************************************)
(* What a caller was told is stored, or was handed out, is what a later    *)
(* call finds, for any number of calls, crashes and failed writes:         *)
(* createCompatSecretStore deletes the legacy file only after the vault    *)
(* has the value, and a first use or admin.create writes only over nothing.*)
(***************************************************************************)
THEOREM EntriesAreAlwaysKept == KSpec => []EntriesAreKept
<1>1. KInit => EntriesInv
  BY KInitEntries
<1>2. ASSUME KeyInv, EntriesInv, KNext PROVE EntriesInv'
  <2>1. ASSUME NEW c \in Calls, KvGet(c) \/ KvWritten(c) \/ KvWriteFails(c)
        PROVE  EntriesInv'
    <3>1. calls[c].op \in UserOps \/ calls[c].op = "getOrCreate" \/ calls[c].op \in AdminOps
      <4>1. calls[c].pc \in {"get", "migrate", "write"} /\ CallOK(calls[c], signet.phase)
            /\ calls[c] \in CallType
        BY <1>2, <2>1 DEF KvGet, KvWritten, KvWriteFails, KeyInv, KeyType
      <4> QED
        BY <4>1 DEF CallOK, CallType, UserOps, AdminOps
    <3> QED
      BY <1>2, <2>1, <3>1, UserStepsKeep, FirstUseStepsKeep, AdminStepsKeep
  <2> QED
    BY <1>2, <2>1, UserStepsKeep, FirstUseStepsKeep, AdminStepsKeep, QuietStepsKeep, CrashKeeps DEF KNext
<1>3. ASSUME EntriesInv, UNCHANGED kvars PROVE EntriesInv'
  BY <1>3 DEF EntriesInv, SharesOK, UserOK, DbOK, AdminOK, AdminDiskOK, AdminMemoryOK, AdminCallOK,
              MigrationOK, PromisedIsHeld, Held, OneValue, kvars
<1>4. KeyInv /\ EntriesInv => EntriesAreKept
  BY EntriesInvIsKept
<1> QED
  BY <1>1, <1>2, <1>3, <1>4, KeyStoreKeepsInv, PTL DEF KSpec

(***************************************************************************)
(* The key ring.  As long as the loads of a wallet do not overlap, the     *)
(* wallet's file, the state object the backend holds of it and the         *)
(* accounts that were handed out are the same list, and the one load under *)
(* way works on that object and on that list.                              *)
(***************************************************************************)
Account == [index : Nat, chain : {"evm", "ed25519"}]
Token == [id : ApiIds, wallet : Wallets, state : {"made", "handedOut", "revoked"}]
Loading == {"derive", "list"}

TaskType ==
  [op : {"none", "createKey", "rotate", "stamp", "derive", "list", "apiKey", "sign", "init"},
   pc : {"idle", "gate", "wait", "seCreate", "touch", "generate", "sign", "seed", "list",
         "update", "write", "read", "store", "resolve", "wallet", "bind", "key"},
   w : Wallets \cup {None}, obj : Objects \cup {None}, key : Nat, list : Seq(Account),
   api : ApiIds \cup {None}, token : Nat, ok : BOOLEAN]

RingType ==
  /\ storage \in {"memory", "file"} /\ opKey \in Nat /\ made \in Nat
  /\ gateFile \in BOOLEAN /\ gateKeys \in Nat /\ inflight \in RTasks \cup {None}
  /\ boundTo \in Wallets \cup {None}
  /\ file \in [Wallets -> Seq(Account) \cup {None}]
  /\ walletStates \in [Wallets -> Objects \cup {None}]
  /\ object \in [Objects -> [nextIndex : Nat, accounts : Seq(Account)]]
  /\ tasks \in [RTasks -> TaskType]
  /\ created \subseteq Wallets /\ derived \in [Wallets -> SUBSET Account]
  /\ overlapped \subseteq Wallets
  /\ apiKeys \in [ApiIds -> Nat] /\ tokens \in Seq(Token)

\* What a call is at says which call it is.
ShapeOK(k) ==
  /\ k.pc \in {"seed", "update", "write"} <=> k.op = "derive"
  /\ k.pc = "list" <=> k.op = "list"
  /\ k.pc = "resolve" <=> k.op = "sign"
  /\ k.pc \in {"read", "store"} <=> k.op = "apiKey"
  /\ k.obj # None => k.op \in Loading

\* Accounts are appended with ever larger indices.
Rising(l) == \A i, j \in 1 .. Len(l) : i < j => l[i].index < l[j].index

ObjectOK(o) == Rising(o.accounts)
               /\ \A i \in 1 .. Len(o.accounts) : o.accounts[i].index < o.nextIndex

Longer(l, m) == Len(l) = Len(m) + 1 /\ \A i \in 1 .. Len(m) : l[i] = m[i]

\* A load holds the wallet's object, and what it is about to write is the
\* wallet's list with one account more.
LoadOK(k, F, W, C, O) ==
  k.op \in Loading =>
    /\ k.w \in C
    /\ k.w \notin O => F[k.w] # None /\ W[k.w] = k.obj
    /\ k.pc \in {"update", "write"} =>
         /\ Rising(k.list) /\ k.list # <<>> /\ k.obj # None
         /\ k.w \notin O => Longer(k.list, F[k.w])

\* No two wallets share an object.
OwnOK(k, W) == k.obj # None => \A v \in Wallets : W[v] = k.obj => v = k.w

\* A call that signs was made with a token that was handed out, and it was
\* entitled unless the wallet or the token was gone.
SignOK(k, F, C, O, T) ==
  k.op = "sign" =>
    /\ k.w \in C
    /\ k.token # 0 => k.token \in 1 .. Len(T) /\ T[k.token].state # "made"
    /\ \/ k.w \in O \/ F[k.w] = None \/ k.ok
       \/ k.token # 0 /\ T[k.token].state # "handedOut"

\* A token is known to the call that makes it alone until its file is written.
ApiOK(k, C, T) ==
  k.op = "apiKey" =>
    /\ k.w \in C /\ k.api \in ApiIds
    /\ k.pc = "store" => /\ k.token \in 1 .. Len(T)
                         /\ T[k.token].state = "made" /\ T[k.token].id = k.api

TaskOK(t) ==
  /\ ShapeOK(tasks[t])
  /\ LoadOK(tasks[t], file, walletStates, created, overlapped)
  /\ OwnOK(tasks[t], walletStates)
  /\ SignOK(tasks[t], file, created, overlapped, tokens)
  /\ ApiOK(tasks[t], created, tokens)

\* Two loads of a wallet mark it, and two calls never make the same token.
Apart(t, u) ==
  t # u => /\ tasks[t].op \in Loading /\ tasks[u].op \in Loading /\ tasks[t].w = tasks[u].w
              => tasks[t].w \in overlapped
           /\ tasks[t].pc = "store" /\ tasks[u].pc = "store"
              => tasks[t].token # tasks[u].token

FileOK(w) ==
  /\ file[w] # None => w \in created /\ Rising(file[w])
  /\ walletStates[w] # None => w \in created
  /\ w \notin created => derived[w] = {}
  /\ w \notin overlapped =>
       /\ file[w] # None => derived[w] = {file[w][i] : i \in 1 .. Len(file[w])}
       /\ walletStates[w] # None => /\ file[w] # None
                                    /\ object[walletStates[w]].accounts = file[w]

TokensOK ==
  /\ \A n \in 1 .. Len(tokens) : tokens[n].wallet \in created
  /\ \A id \in ApiIds : apiKeys[id] # 0 =>
       /\ apiKeys[id] \in 1 .. Len(tokens)
       /\ tokens[apiKeys[id]].id = id /\ tokens[apiKeys[id]].state = "handedOut"

GateOK ==
  /\ gateKeys = IF gateFile THEN 1 ELSE 0
  /\ \A t \in RTasks : tasks[t].pc = "seCreate" => inflight = t /\ ~gateFile

ObjectsOK ==
  /\ \A o \in Objects : ObjectOK(object[o])
  /\ \A v, w \in Wallets : walletStates[v] = walletStates[w] /\ walletStates[v] # None => v = w

RingInv ==
  /\ RingType /\ GateOK /\ ObjectsOK /\ TokensOK
  /\ \A t \in RTasks : TaskOK(t)
  /\ \A t, u \in RTasks : Apart(t, u)
  /\ \A w \in Wallets : FileOK(w)
  /\ SignaturesAreEntitled

\* What the calls other than the one that steps need of a step: their wallet's
\* file and state stay unless the wallet is marked, no file comes back, and no
\* wallet takes their object.
Undisturbed(k, F1, W1, C1, O1, F2, W2, C2, O2) ==
  /\ C1 \subseteq C2 /\ O1 \subseteq O2
  /\ k.op \in Loading /\ k.w \notin O2 => F2[k.w] = F1[k.w] /\ W2[k.w] = W1[k.w]
  /\ k.w \in C1 /\ k.w \notin O2 /\ F1[k.w] = None => F2[k.w] = None
  /\ k.obj # None => \A v \in Wallets : W2[v] = W1[v] \/ W2[v] # k.obj

\* Tokens keep their number, and are handed out and revoked in this order.
TokensGoOn(k, T1, T2) ==
  \A n \in 1 .. Len(T1) :
    /\ n \in 1 .. Len(T2) /\ T2[n].id = T1[n].id
    /\ \/ T2[n].state = T1[n].state
       \/ T1[n].state = "handedOut" /\ T2[n].state = "revoked"
       \/ T1[n].state = "made" /\ ~(k.pc = "store" /\ k.token = n)

\* Such a step leaves a call as it has to be.
LEMMA Bystander ==
    ASSUME NEW k \in TaskType, NEW F1, NEW W1, NEW C1, NEW O1, NEW T1,
           NEW F2, NEW W2, NEW C2, NEW O2, NEW T2,
           LoadOK(k, F1, W1, C1, O1), OwnOK(k, W1),
           SignOK(k, F1, C1, O1, T1), ApiOK(k, C1, T1),
           Undisturbed(k, F1, W1, C1, O1, F2, W2, C2, O2), TokensGoOn(k, T1, T2)
    PROVE  /\ LoadOK(k, F2, W2, C2, O2) /\ OwnOK(k, W2)
           /\ SignOK(k, F2, C2, O2, T2) /\ ApiOK(k, C2, T2)
<1>1. LoadOK(k, F2, W2, C2, O2)
  <2>1. /\ C1 \subseteq C2 /\ O1 \subseteq O2
        /\ k.op \in Loading /\ k.w \notin O2 => F2[k.w] = F1[k.w] /\ W2[k.w] = W1[k.w]
    BY DEF Undisturbed
  <2>2. ASSUME k.op \in Loading
        PROVE  /\ k.w \in C2
               /\ k.w \notin O2 => F2[k.w] # None /\ W2[k.w] = k.obj
               /\ k.pc \in {"update", "write"} =>
                    /\ Rising(k.list) /\ k.list # <<>> /\ k.obj # None
                    /\ k.w \notin O2 => Longer(k.list, F2[k.w])
    BY <2>1, <2>2 DEF LoadOK
  <2> QED
    BY <2>2 DEF LoadOK
<1>2. OwnOK(k, W2)
  BY DEF OwnOK, Undisturbed
<1>3. SignOK(k, F2, C2, O2, T2)
  <2>1. ASSUME k.op = "sign"
        PROVE  /\ k.w \in C2
               /\ k.token # 0 => k.token \in 1 .. Len(T2) /\ T2[k.token].state # "made"
               /\ \/ k.w \in O2 \/ F2[k.w] = None \/ k.ok
                  \/ k.token # 0 /\ T2[k.token].state # "handedOut"
    <3>1. /\ k.w \in C1
          /\ k.token # 0 => k.token \in 1 .. Len(T1) /\ T1[k.token].state # "made"
          /\ \/ k.w \in O1 \/ F1[k.w] = None \/ k.ok
             \/ k.token # 0 /\ T1[k.token].state # "handedOut"
      BY <2>1 DEF SignOK
    <3>2. k.w \in C2 /\ (k.w \in O1 => k.w \in O2)
          /\ (F1[k.w] = None => F2[k.w] = None \/ k.w \in O2)
      BY <3>1 DEF Undisturbed
    <3>3. k.token # 0 => /\ k.token \in 1 .. Len(T2)
                         /\ \/ T2[k.token].state = T1[k.token].state
                            \/ T1[k.token].state = "handedOut" /\ T2[k.token].state = "revoked"
      BY <3>1 DEF TokensGoOn
    <3> QED
      BY <3>1, <3>2, <3>3
  <2> QED
    BY <2>1 DEF SignOK
<1>4. ApiOK(k, C2, T2)
  BY DEF ApiOK, Undisturbed, TokensGoOn
<1> QED
  BY <1>1, <1>2, <1>3, <1>4

\* One call steps, the others go on.
LEMMA TasksGoOn ==
    ASSUME RingInv, NEW t \in RTasks, NEW k \in TaskType, tasks' = [tasks EXCEPT ![t] = k],
           \A u \in RTasks : u # t =>
              /\ Undisturbed(tasks[u], file, walletStates, created, overlapped,
                             file', walletStates', created', overlapped')
              /\ TokensGoOn(tasks[u], tokens, tokens')
              /\ k.op \in Loading /\ tasks[u].op \in Loading /\ tasks[u].w = k.w
                 => k.w \in overlapped'
              /\ k.pc = "store" /\ tasks[u].pc = "store" => tasks[u].token # k.token,
           overlapped \subseteq overlapped',
           ShapeOK(k), LoadOK(k, file', walletStates', created', overlapped'),
           OwnOK(k, walletStates'), SignOK(k, file', created', overlapped', tokens'),
           ApiOK(k, created', tokens')
    PROVE  /\ tasks' \in [RTasks -> TaskType]
           /\ \A u \in RTasks : TaskOK(u)'
           /\ \A u, v \in RTasks : Apart(u, v)'
<1>0. tasks \in [RTasks -> TaskType]
  BY DEF RingInv, RingType
<1>1. tasks' \in [RTasks -> TaskType] /\ tasks'[t] = k /\ \A u \in RTasks : u # t => tasks'[u] = tasks[u]
  BY <1>0
<1>2. ASSUME NEW u \in RTasks
      PROVE  TaskOK(u)'
  <2>1. CASE u = t
    BY <1>1, <2>1 DEF TaskOK
  <2>2. CASE u # t
    <3>1. /\ tasks[u] \in TaskType /\ ShapeOK(tasks[u])
          /\ LoadOK(tasks[u], file, walletStates, created, overlapped)
          /\ OwnOK(tasks[u], walletStates)
          /\ SignOK(tasks[u], file, created, overlapped, tokens)
          /\ ApiOK(tasks[u], created, tokens)
      BY <1>0 DEF RingInv, TaskOK
    <3>2. /\ Undisturbed(tasks[u], file, walletStates, created, overlapped,
                         file', walletStates', created', overlapped')
          /\ TokensGoOn(tasks[u], tokens, tokens')
      BY <2>2
    <3>3. /\ LoadOK(tasks[u], file', walletStates', created', overlapped')
          /\ OwnOK(tasks[u], walletStates')
          /\ SignOK(tasks[u], file', created', overlapped', tokens')
          /\ ApiOK(tasks[u], created', tokens')
      BY <3>1, <3>2, Bystander, ZenonT(40)
    <3> QED
      BY <1>1, <2>2, <3>1, <3>3 DEF TaskOK
  <2> QED
    BY <2>1, <2>2
<1>3. ASSUME NEW u \in RTasks, NEW v \in RTasks
      PROVE  Apart(u, v)'
  <2>1. Apart(u, v)
    BY DEF RingInv
  <2> QED
    BY <1>1, <2>1 DEF Apart
<1> QED
  BY <1>1, <1>2, <1>3

\* A call may start to create the gate key if there is none and no other call
\* does.
GateStep(t, k) ==
  \/ inflight' = inflight /\ k.pc # "seCreate"
  \/ inflight = None /\ ~gateFile /\ inflight' = t

\* A step that leaves the wallets and the tokens alone.
LEMMA QuietTask ==
    ASSUME RingInv, NEW t \in RTasks, NEW k \in TaskType, tasks' = [tasks EXCEPT ![t] = k],
           UNCHANGED <<storage, gateFile, gateKeys>>, UNCHANGED walletVars,
           opKey' \in Nat, made' \in Nat, boundTo' \in Wallets \cup {None},
           k.op \in Loading => tasks[t].op \in Loading /\ tasks[t].w = k.w,
           k.pc # "store", GateStep(t, k),
           ShapeOK(k), LoadOK(k, file, walletStates, created, overlapped),
           OwnOK(k, walletStates), SignOK(k, file, created, overlapped, tokens),
           ApiOK(k, created, tokens)
    PROVE  RingInv'
<1>1. UNCHANGED <<file, walletStates, object, created, derived, overlapped,
                  apiKeys, tokens, signatures>>
  BY DEF walletVars, apiVars
<1>2. \A u \in RTasks : u # t =>
        /\ Undisturbed(tasks[u], file, walletStates, created, overlapped,
                       file', walletStates', created', overlapped')
        /\ TokensGoOn(tasks[u], tokens, tokens')
        /\ k.op \in Loading /\ tasks[u].op \in Loading /\ tasks[u].w = k.w
           => k.w \in overlapped'
        /\ k.pc = "store" /\ tasks[u].pc = "store" => tasks[u].token # k.token
  BY <1>1 DEF RingInv, Apart, Undisturbed, TokensGoOn
<1>3. /\ LoadOK(k, file', walletStates', created', overlapped')
      /\ OwnOK(k, walletStates') /\ SignOK(k, file', created', overlapped', tokens')
      /\ ApiOK(k, created', tokens') /\ overlapped \subseteq overlapped'
  BY <1>1
<1>4. /\ tasks' \in [RTasks -> TaskType] /\ \A u \in RTasks : TaskOK(u)'
      /\ \A u, v \in RTasks : Apart(u, v)'
  BY <1>2, <1>3, TasksGoOn
<1>5. RingType'
  BY <1>1, <1>4 DEF RingInv, RingType, GateStep
<1>6. GateOK'
  BY KeyRingAssumption DEF RingInv, RingType, GateOK, GateStep
<1>7. ObjectsOK' /\ TokensOK'
  BY <1>1 DEF RingInv, ObjectsOK, TokensOK
<1>8. SignaturesAreEntitled'
  BY <1>1 DEF RingInv, SignaturesAreEntitled
<1>9. \A w \in Wallets : FileOK(w)'
  BY <1>1 DEF RingInv, FileOK
<1> QED
  BY <1>4, <1>5, <1>6, <1>7, <1>8, <1>9 DEF RingInv

\* A call on the operational keys, or none.
Plain(k) ==
  /\ k \in TaskType /\ k.op \notin {"derive", "list", "sign", "apiKey"} /\ k.obj = None
  /\ k.pc \notin {"seed", "update", "write", "list", "resolve", "read", "store"}

\* Nothing is asked of such a call.
LEMMA PlainIsOK ==
    ASSUME NEW k, Plain(k), NEW F, NEW W, NEW C, NEW O, NEW T
    PROVE  /\ ShapeOK(k) /\ LoadOK(k, F, W, C, O) /\ OwnOK(k, W)
           /\ SignOK(k, F, C, O, T) /\ ApiOK(k, C, T)
BY DEF Plain, ShapeOK, LoadOK, OwnOK, SignOK, ApiOK, Loading

\* No call is a call.
LEMMA NoTaskType == NoTask \in TaskType
BY DEF TaskType, NoTask

\* It is a plain one.
LEMMA NoTaskIsPlain == Plain(NoTask)
BY DEF Plain, TaskType, NoTask

\* A step of a call on the operational keys.
LEMMA PlainStep ==
    ASSUME RingInv, NEW t \in RTasks, NEW k, Plain(k), tasks' = [tasks EXCEPT ![t] = k],
           UNCHANGED <<storage, gateFile, gateKeys>>, UNCHANGED walletVars,
           opKey' \in Nat, made' \in Nat, boundTo' \in Wallets \cup {None},
           GateStep(t, k)
    PROVE  RingInv'
<1>1. k \in TaskType /\ k.op \notin Loading /\ k.pc # "store"
  BY DEF Plain, Loading
<1>2. /\ ShapeOK(k) /\ LoadOK(k, file, walletStates, created, overlapped)
      /\ OwnOK(k, walletStates) /\ SignOK(k, file, created, overlapped, tokens)
      /\ ApiOK(k, created, tokens)
  BY PlainIsOK
<1> QED
  BY <1>1, <1>2, QuietTask

\* A call that is not at a step of a load, of a signature or of an API key is
\* plain, and stays so.
LEMMA PlainGoesOn ==
    ASSUME RingInv, NEW t \in RTasks,
           tasks[t].pc \notin {"seed", "update", "write", "list", "resolve", "read", "store"}
    PROVE  /\ Plain(tasks[t])
           /\ \A p \in {"gate", "wait", "seCreate", "touch", "generate", "bind", "key"} :
                Plain([tasks[t] EXCEPT !.pc = p])
<1>1. tasks[t] \in TaskType /\ ShapeOK(tasks[t])
  BY DEF RingInv, RingType, TaskOK
<1>2. Plain(tasks[t])
  BY <1>1 DEF Plain, ShapeOK, Loading, TaskType
<1>3. ASSUME NEW p \in {"gate", "wait", "seCreate", "touch", "generate", "bind", "key"}
      PROVE  Plain([tasks[t] EXCEPT !.pc = p])
  BY <1>1, <1>2 DEF Plain, TaskType
<1> QED
  BY <1>2, <1>3

\* Ending a call that changes nothing else.
LEMMA EndStep ==
    ASSUME RingInv, NEW t \in RTasks, End(t),
           UNCHANGED <<storage, gateFile, inflight, gateKeys>>, UNCHANGED walletVars,
           opKey' \in Nat, made' \in Nat, boundTo' \in Wallets \cup {None}
    PROVE  RingInv'
<1>1. tasks' = [tasks EXCEPT ![t] = NoTask] /\ NoTask.pc # "seCreate"
  BY DEF End, NoTask
<1> QED
  BY <1>1, NoTaskIsPlain, PlainStep DEF GateStep

\* The calls on the operational keys, without the gate key.
LEMMA KeyStepsKeepInv ==
    ASSUME RingInv, NEW t \in RTasks,
           \/ BeginKey(t, "createKey") \/ BeginKey(t, "rotate") \/ Touch(t) \/ Install(t)
           \/ BeginStamp(t) \/ EndStamp(t) \/ BeginInit(t) \/ InitBind(t) \/ InitKey(t)
    PROVE  RingInv'
<1>0. /\ RingType /\ opKey \in Nat /\ made \in Nat /\ boundTo \in Wallets \cup {None}
      /\ tasks \in [RTasks -> TaskType] /\ tasks[t] \in TaskType
  BY DEF RingInv, RingType
<1>1. ASSUME NEW op \in {"createKey", "rotate"}, BeginKey(t, op)
      PROVE  RingInv'
  <2>1. PICK k : k = [NoTask EXCEPT !.op = op, !.pc = "gate"]
    OBVIOUS
  <2>2. Plain(k) /\ k.pc # "seCreate"
    <3>1. k.op = op /\ k.pc = "gate" /\ k.obj = None
      BY <2>1 DEF NoTask
    <3>2. k \in TaskType
      BY <1>0, <2>1, NoTaskType DEF TaskType
    <3> QED
      BY <3>1, <3>2 DEF Plain
  <2>3. tasks' = [tasks EXCEPT ![t] = k] /\ UNCHANGED <<storage, ringVars, walletVars>>
    BY <1>0, <1>1, <2>1 DEF BeginKey, IdleTask
  <2> QED
    BY <1>0, <2>2, <2>3, PlainStep DEF ringVars, GateStep
<1>2. CASE Touch(t)
  <2>1. tasks[t].pc = "touch" /\ UNCHANGED <<storage, ringVars, walletVars>>
        /\ (Step(t, "generate") \/ End(t))
    BY <1>2 DEF Touch
  <2>2. CASE Step(t, "generate")
    <3>1. PICK k : k = [tasks[t] EXCEPT !.pc = "generate"]
      OBVIOUS
    <3>2. Plain(k) /\ k.pc # "seCreate"
      BY <1>0, <2>1, <3>1, PlainGoesOn DEF TaskType
    <3>3. tasks' = [tasks EXCEPT ![t] = k]
      BY <1>0, <2>2, <3>1 DEF Step
    <3> QED
      BY <1>0, <2>1, <3>2, <3>3, PlainStep DEF ringVars, GateStep
  <2>3. CASE End(t)
    BY <1>0, <2>1, <2>3, EndStep DEF ringVars
  <2> QED
    BY <2>1, <2>2, <2>3
<1>3. CASE Install(t)
  <2>1. /\ UNCHANGED <<storage, gateFile, inflight, gateKeys, boundTo>> /\ UNCHANGED walletVars
        /\ End(t) /\ made' \in Nat /\ opKey' \in Nat
    BY <1>0, <1>3 DEF Install
  <2> QED
    BY <1>0, <2>1, EndStep
<1>4. CASE BeginStamp(t)
  <2>1. PICK k : k = [NoTask EXCEPT !.op = "stamp", !.pc = "sign", !.key = opKey]
    OBVIOUS
  <2>2. Plain(k) /\ k.pc # "seCreate"
    <3>1. k.op = "stamp" /\ k.pc = "sign" /\ k.obj = None
      BY <2>1 DEF NoTask
    <3>2. k \in TaskType
      BY <1>0, <2>1, NoTaskType DEF TaskType
    <3> QED
      BY <3>1, <3>2 DEF Plain
  <2>3. tasks' = [tasks EXCEPT ![t] = k] /\ UNCHANGED <<storage, ringVars, walletVars>>
    BY <1>0, <1>4, <2>1 DEF BeginStamp, IdleTask
  <2> QED
    BY <1>0, <2>2, <2>3, PlainStep DEF ringVars, GateStep
<1>5. CASE EndStamp(t)
  BY <1>0, <1>5, EndStep DEF EndStamp
<1>6. CASE BeginInit(t)
  <2>1. PICK k : k = [NoTask EXCEPT !.op = "init", !.pc = "wallet", !.w = boundTo]
    OBVIOUS
  <2>2. Plain(k) /\ k.pc # "seCreate"
    <3>1. k.op = "init" /\ k.pc = "wallet" /\ k.obj = None
      BY <2>1 DEF NoTask
    <3>2. k \in TaskType
      BY <1>0, <2>1, NoTaskType DEF TaskType
    <3> QED
      BY <3>1, <3>2 DEF Plain
  <2>3. tasks' = [tasks EXCEPT ![t] = k] /\ UNCHANGED <<storage, ringVars, walletVars>>
    BY <1>0, <1>6, <2>1 DEF BeginInit, IdleTask
  <2> QED
    BY <1>0, <2>2, <2>3, PlainStep DEF ringVars, GateStep
<1>7. CASE InitBind(t) \/ InitKey(t)
  <2>1. /\ tasks[t].pc \in {"bind", "key"} /\ tasks[t].w \in Wallets \cup {None}
        /\ UNCHANGED <<storage, opKey, made, gateFile, inflight, gateKeys>>
        /\ UNCHANGED walletVars
        /\ boundTo' \in {boundTo, tasks[t].w}
        /\ End(t) \/ \E p \in {"key", "gate"} : Step(t, p)
    BY <1>0, <1>7 DEF InitBind, InitKey, ringVars, TaskType
  <2>2. ASSUME NEW p \in {"key", "gate"}, Step(t, p)
        PROVE  RingInv'
    <3>1. PICK k : k = [tasks[t] EXCEPT !.pc = p]
      OBVIOUS
    <3>2. Plain(k) /\ k.pc # "seCreate"
      BY <1>0, <2>1, <3>1, PlainGoesOn DEF TaskType
    <3>3. tasks' = [tasks EXCEPT ![t] = k]
      BY <1>0, <2>2, <3>1 DEF Step
    <3> QED
      BY <1>0, <2>1, <3>2, <3>3, PlainStep DEF GateStep
  <2> QED
    BY <1>0, <2>1, <2>2, EndStep
<1> QED
  BY <1>1, <1>2, <1>3, <1>4, <1>5, <1>6, <1>7

\* The gate, and the creation of the gate key that prompts share.
LEMMA GateStepsKeepInv ==
    ASSUME RingInv, NEW t \in RTasks, Gate(t) \/ GateKeyEnds(t)
    PROVE  RingInv'
<1>0. /\ RingType /\ opKey \in Nat /\ made \in Nat /\ boundTo \in Wallets \cup {None}
      /\ tasks \in [RTasks -> TaskType] /\ tasks[t] \in TaskType
  BY DEF RingInv, RingType
<1>1. CASE Gate(t)
  <2>1. PICK p \in {"generate", "touch", "wait", "seCreate"} :
           /\ tasks[t].pc = "gate" /\ Step(t, p)
           /\ \/ inflight' = inflight /\ p # "seCreate"
              \/ inflight = None /\ ~gateFile /\ inflight' = t
           /\ UNCHANGED <<storage, opKey, made, gateFile, gateKeys, boundTo>>
           /\ UNCHANGED walletVars
    BY <1>0, <1>1 DEF Gate, RingType
  <2>2. PICK k : k = [tasks[t] EXCEPT !.pc = p]
    OBVIOUS
  <2>3. Plain(k)
    BY <2>1, <2>2, PlainGoesOn
  <2>4. k.pc = p /\ tasks' = [tasks EXCEPT ![t] = k]
    BY <1>0, <2>1, <2>2 DEF Step, TaskType
  <2>5. GateStep(t, k)
    BY <2>1, <2>4 DEF GateStep
  <2> QED
    BY <1>0, <2>1, <2>3, <2>4, <2>5, PlainStep
<1>2. CASE GateKeyEnds(t)
  <2>1. /\ tasks[t].pc = "seCreate" /\ inflight' = None
        /\ UNCHANGED <<storage, opKey, made, boundTo>> /\ UNCHANGED walletVars
        /\ \/ gateFile' = TRUE /\ gateKeys' = gateKeys + 1
           \/ UNCHANGED <<gateFile, gateKeys>>
        /\ tasks' \in [RTasks -> TaskType]
        /\ \A u \in RTasks : /\ Plain(tasks'[u]) \/ (tasks'[u] = tasks[u] /\ u # t)
                             /\ tasks'[u].pc = "seCreate" => tasks[u].pc = "seCreate" /\ u # t
    <3>0. /\ tasks[t].pc = "seCreate" /\ inflight' = None
          /\ UNCHANGED <<storage, opKey, made, boundTo>> /\ UNCHANGED walletVars
          /\ \/ gateFile' = TRUE /\ gateKeys' = gateKeys + 1
             \/ UNCHANGED <<gateFile, gateKeys>>
      BY <1>2 DEF GateKeyEnds
    <3>1. PICK all \in SUBSET RTasks :
            /\ t \in all /\ \A u \in all : u = t \/ tasks[u].pc = "wait"
            /\ \/ tasks' = [u \in RTasks |-> IF u \in all
                              THEN [tasks[u] EXCEPT !.pc = "touch"] ELSE tasks[u]]
               \/ tasks' = [u \in RTasks |-> IF u \in all THEN NoTask ELSE tasks[u]]
      BY <1>2 DEF GateKeyEnds
    <3>2. ASSUME NEW u \in all
          PROVE  /\ Plain([tasks[u] EXCEPT !.pc = "touch"])
                 /\ [tasks[u] EXCEPT !.pc = "touch"].pc = "touch"
      BY <1>0, <3>0, <3>1, <3>2, PlainGoesOn DEF TaskType
    <3>3. Plain(NoTask) /\ NoTask.pc = "idle"
      BY NoTaskIsPlain DEF NoTask
    <3>4. ASSUME NEW u \in RTasks
          PROVE  /\ Plain(tasks'[u]) \/ (tasks'[u] = tasks[u] /\ u # t)
                 /\ tasks'[u].pc = "seCreate" => tasks[u].pc = "seCreate" /\ u # t
      BY <3>1, <3>2, <3>3, ZenonT(30)
    <3>5. \A u \in RTasks : tasks'[u] \in TaskType
      BY <1>0, <3>4 DEF Plain
    <3>6. \E f : tasks' = [u \in RTasks |-> f[u]]
      BY <3>1
    <3>7. tasks' \in [RTasks -> TaskType]
      BY <3>5, <3>6
    <3> QED
      BY <3>0, <3>4, <3>7
  <2>2. UNCHANGED <<file, walletStates, object, created, derived, overlapped,
                    apiKeys, tokens, signatures>>
    BY <2>1 DEF walletVars, apiVars
  <2>3. ASSUME NEW u \in RTasks
        PROVE  TaskOK(u)'
    <3>1. CASE Plain(tasks'[u])
      BY <3>1, PlainIsOK DEF TaskOK
    <3>2. CASE tasks'[u] = tasks[u]
      BY <2>2, <3>2 DEF RingInv, TaskOK
    <3> QED
      BY <2>1, <3>1, <3>2
  <2>4. ASSUME NEW u \in RTasks, NEW v \in RTasks
        PROVE  Apart(u, v)'
    <3>1. CASE Plain(tasks'[u]) \/ Plain(tasks'[v])
      BY <3>1 DEF Plain, Apart, Loading
    <3>2. CASE tasks'[u] = tasks[u] /\ tasks'[v] = tasks[v]
      BY <2>2, <3>2 DEF RingInv, Apart
    <3> QED
      BY <2>1, <3>1, <3>2
  <2>5. GateOK'
    BY <2>1, KeyRingAssumption DEF RingInv, RingType, GateOK
  <2>6. RingType'
    <3>1. gateFile' \in BOOLEAN
      BY <1>0, <2>1, Zenon DEF RingType
    <3>2. gateKeys' \in Nat
      BY <1>0, <2>1 DEF RingType
    <3> QED
      BY <1>0, <2>1, <2>2, <3>1, <3>2 DEF RingType
  <2>7. ObjectsOK' /\ TokensOK'
    BY <2>2 DEF RingInv, ObjectsOK, TokensOK
  <2>8. SignaturesAreEntitled'
    BY <2>2 DEF RingInv, SignaturesAreEntitled
  <2>9. \A w \in Wallets : FileOK(w)'
    BY <2>2 DEF RingInv, FileOK
  <2> QED
    BY <2>3, <2>4, <2>5, <2>6, <2>7, <2>8, <2>9 DEF RingInv
<1> QED
  BY <1>1, <1>2

\* The calls that sign or make an API key begin, and an update reads the file.
LEMMA BeginningsKeepInv ==
    ASSUME RingInv, NEW t \in RTasks,
           \/ \E w \in Wallets, id \in ApiIds : BeginApiKey(t, w, id)
           \/ \E w \in Wallets : BeginSign(t, w)
           \/ \E n \in DOMAIN tokens : BeginSignWithApiKey(t, n)
           \/ Update(t)
    PROVE  RingInv'
<1>0. /\ RingType /\ opKey \in Nat /\ made \in Nat /\ boundTo \in Wallets \cup {None}
      /\ tasks \in [RTasks -> TaskType] /\ tasks[t] \in TaskType /\ tokens \in Seq(Token)
      /\ created \subseteq Wallets
  BY DEF RingInv, RingType
<1>1. ASSUME NEW w \in Wallets, NEW id \in ApiIds, BeginApiKey(t, w, id)
      PROVE  RingInv'
  <2>1. PICK k : k = [NoTask EXCEPT !.op = "apiKey", !.pc = "read", !.w = w, !.api = id]
    OBVIOUS
  <2>2. k.op = "apiKey" /\ k.pc = "read" /\ k.w = w /\ k.obj = None /\ k.api = id
    BY <2>1 DEF NoTask
  <2>3. k \in TaskType
    BY <2>1, NoTaskType DEF TaskType
  <2>4. /\ tasks' = [tasks EXCEPT ![t] = k] /\ UNCHANGED <<storage, ringVars, walletVars>>
        /\ w \in created
    BY <1>0, <1>1, <2>1 DEF BeginApiKey, IdleTask, OnFile, RingInv, FileOK
  <2>5. /\ ShapeOK(k) /\ LoadOK(k, file, walletStates, created, overlapped)
        /\ OwnOK(k, walletStates) /\ SignOK(k, file, created, overlapped, tokens)
        /\ ApiOK(k, created, tokens)
    BY <2>2, <2>4 DEF ShapeOK, LoadOK, OwnOK, SignOK, ApiOK, Loading
  <2> QED
    BY <1>0, <2>2, <2>3, <2>4, <2>5, QuietTask DEF ringVars, GateStep, Loading
<1>2. ASSUME NEW w \in Wallets, BeginSign(t, w)
      PROVE  RingInv'
  <2>0. PICK ok \in BOOLEAN : ok = OnFile(w)
    BY DEF OnFile
  <2>1. PICK k : k = [NoTask EXCEPT !.op = "sign", !.pc = "resolve", !.w = w, !.ok = ok]
    OBVIOUS
  <2>2. /\ k.op = "sign" /\ k.pc = "resolve" /\ k.w = w /\ k.obj = None /\ k.token = 0
        /\ k.ok = ok
    BY <2>1 DEF NoTask
  <2>3. k \in TaskType
    BY <2>1, NoTaskType DEF TaskType
  <2>4. /\ tasks' = [tasks EXCEPT ![t] = k] /\ UNCHANGED <<storage, ringVars, walletVars>>
        /\ w \in created
    BY <1>0, <1>2, <2>0, <2>1 DEF BeginSign, IdleTask
  <2>5. /\ ShapeOK(k) /\ LoadOK(k, file, walletStates, created, overlapped)
        /\ OwnOK(k, walletStates) /\ ApiOK(k, created, tokens)
    BY <2>2 DEF ShapeOK, LoadOK, OwnOK, ApiOK, Loading
  <2>6. SignOK(k, file, created, overlapped, tokens)
    BY <2>0, <2>2, <2>4 DEF SignOK, OnFile
  <2> QED
    BY <1>0, <2>2, <2>3, <2>4, <2>5, <2>6, QuietTask DEF ringVars, GateStep, Loading
<1>3. ASSUME NEW n \in DOMAIN tokens, BeginSignWithApiKey(t, n)
      PROVE  RingInv'
  <2>0. /\ n \in 1 .. Len(tokens) /\ n \in Nat /\ n # 0 /\ tokens[n].wallet \in created
        /\ tokens[n].state \in {"made", "handedOut", "revoked"}
    <3>1. n \in 1 .. Len(tokens) /\ tokens[n] \in Token
      BY <1>0
    <3>2. tokens[n].wallet \in created
      BY <3>1 DEF RingInv, TokensOK
    <3>3. tokens[n].state \in {"made", "handedOut", "revoked"}
      BY <3>1 DEF Token
    <3>4. n \in Nat /\ n # 0
      BY <3>1
    <3> QED
      BY <3>1, <3>2, <3>3, <3>4
  <2>1. PICK ok \in BOOLEAN : ok = (OnFile(tokens[n].wallet) /\ tokens[n].state = "handedOut")
    BY DEF OnFile
  <2>2. PICK k : k = [NoTask EXCEPT !.op = "sign", !.pc = "resolve",
                                    !.w = tokens[n].wallet, !.token = n, !.ok = ok]
    OBVIOUS
  <2>3. /\ k.op = "sign" /\ k.pc = "resolve" /\ k.w = tokens[n].wallet /\ k.obj = None
        /\ k.token = n /\ k.ok = ok
    BY <2>2 DEF NoTask
  <2>4. k \in TaskType
    BY <1>0, <2>0, <2>2, NoTaskType DEF TaskType
  <2>5. /\ tasks' = [tasks EXCEPT ![t] = k] /\ UNCHANGED <<storage, ringVars, walletVars>>
        /\ tokens[n].state # "made"
    BY <1>0, <1>3, <2>1, <2>2 DEF BeginSignWithApiKey, IdleTask
  <2>6. /\ ShapeOK(k) /\ LoadOK(k, file, walletStates, created, overlapped)
        /\ OwnOK(k, walletStates) /\ ApiOK(k, created, tokens)
    BY <2>3 DEF ShapeOK, LoadOK, OwnOK, ApiOK, Loading
  <2>7. SignOK(k, file, created, overlapped, tokens)
    BY <2>0, <2>1, <2>3, <2>5 DEF SignOK, OnFile
  <2> QED
    BY <1>0, <2>3, <2>4, <2>5, <2>6, <2>7, QuietTask DEF ringVars, GateStep, Loading
<1>4. CASE Update(t)
  <2>1. /\ tasks[t].pc = "update" /\ UNCHANGED <<storage, ringVars, walletVars>>
        /\ Step(t, "write") \/ End(t)
    BY <1>4 DEF Update
  <2>2. CASE Step(t, "write")
    <3>1. PICK k : k = [tasks[t] EXCEPT !.pc = "write"]
      OBVIOUS
    <3>2. /\ k.op = tasks[t].op /\ k.pc = "write" /\ k.w = tasks[t].w /\ k.obj = tasks[t].obj
          /\ k.list = tasks[t].list
      BY <1>0, <3>1 DEF TaskType
    <3>3. k \in TaskType
      BY <1>0, <3>1 DEF TaskType
    <3>4. tasks' = [tasks EXCEPT ![t] = k]
      BY <1>0, <2>2, <3>1 DEF Step
    <3>5. TaskOK(t) /\ tasks[t].op = "derive"
      BY <2>1 DEF RingInv, TaskOK, ShapeOK
    <3>6. /\ ShapeOK(k) /\ LoadOK(k, file, walletStates, created, overlapped)
          /\ OwnOK(k, walletStates) /\ SignOK(k, file, created, overlapped, tokens)
          /\ ApiOK(k, created, tokens)
      BY <2>1, <3>2, <3>5 DEF TaskOK, ShapeOK, LoadOK, OwnOK, SignOK, ApiOK, Loading
    <3> QED
      BY <1>0, <2>1, <3>2, <3>3, <3>4, <3>5, <3>6, QuietTask DEF ringVars, GateStep, Loading
  <2>3. CASE End(t)
    BY <1>0, <2>1, <2>3, EndStep DEF ringVars
  <2> QED
    BY <2>1, <2>2, <2>3
<1> QED
  BY <1>1, <1>2, <1>3, <1>4

\* No call steps.
LEMMA TasksStay ==
    ASSUME RingInv, tasks' = tasks, overlapped \subseteq overlapped',
           \A u \in RTasks :
              /\ Undisturbed(tasks[u], file, walletStates, created, overlapped,
                             file', walletStates', created', overlapped')
              /\ TokensGoOn(tasks[u], tokens, tokens')
    PROVE  /\ \A u \in RTasks : TaskOK(u)'
           /\ \A u, v \in RTasks : Apart(u, v)'
<1>0. tasks \in [RTasks -> TaskType]
  BY DEF RingInv, RingType
<1>1. ASSUME NEW u \in RTasks
      PROVE  TaskOK(u)'
  <2>1. /\ tasks[u] \in TaskType /\ ShapeOK(tasks[u])
        /\ LoadOK(tasks[u], file, walletStates, created, overlapped)
        /\ OwnOK(tasks[u], walletStates)
        /\ SignOK(tasks[u], file, created, overlapped, tokens)
        /\ ApiOK(tasks[u], created, tokens)
    BY <1>0 DEF RingInv, TaskOK
  <2>2. /\ LoadOK(tasks[u], file', walletStates', created', overlapped')
        /\ OwnOK(tasks[u], walletStates')
        /\ SignOK(tasks[u], file', created', overlapped', tokens')
        /\ ApiOK(tasks[u], created', tokens')
    <3>1. /\ Undisturbed(tasks[u], file, walletStates, created, overlapped,
                         file', walletStates', created', overlapped')
          /\ TokensGoOn(tasks[u], tokens, tokens')
      OBVIOUS
    <3> QED
      BY <2>1, <3>1, Bystander, ZenonT(40)
  <2> QED
    BY <2>1, <2>2 DEF TaskOK
<1>2. ASSUME NEW u \in RTasks, NEW v \in RTasks
      PROVE  Apart(u, v)'
  <2>1. Apart(u, v)
    BY DEF RingInv
  <2> QED
    BY <2>1 DEF Apart
<1> QED
  BY <1>1, <1>2

\* A step of a call that leaves the wallets and the gate alone, and what it needs
\* to do to the tokens.
LEMMA TokenStep ==
    ASSUME RingInv, NEW t \in RTasks, NEW k \in TaskType, tasks' = [tasks EXCEPT ![t] = k],
           UNCHANGED <<storage, ringVars, file, walletStates, object, created, derived,
                       overlapped>>,
           apiKeys' \in [ApiIds -> Nat], tokens' \in Seq(Token), TokensOK',
           SignaturesAreEntitled',
           k.op \notin Loading, k.pc # "seCreate",
           \A u \in RTasks : u # t =>
              /\ TokensGoOn(tasks[u], tokens, tokens')
              /\ k.pc = "store" /\ tasks[u].pc = "store" => tasks[u].token # k.token,
           ShapeOK(k), LoadOK(k, file, walletStates, created, overlapped),
           OwnOK(k, walletStates), SignOK(k, file, created, overlapped, tokens'),
           ApiOK(k, created, tokens')
    PROVE  RingInv'
<1>1. /\ UNCHANGED <<storage, file, walletStates, object, created, derived, overlapped>>
      /\ UNCHANGED <<opKey, made, gateFile, inflight, gateKeys, boundTo>>
  BY DEF ringVars
<1>2. \A u \in RTasks : u # t =>
        /\ Undisturbed(tasks[u], file, walletStates, created, overlapped,
                       file', walletStates', created', overlapped')
        /\ TokensGoOn(tasks[u], tokens, tokens')
        /\ k.op \in Loading /\ tasks[u].op \in Loading /\ tasks[u].w = k.w
           => k.w \in overlapped'
        /\ k.pc = "store" /\ tasks[u].pc = "store" => tasks[u].token # k.token
  BY <1>1 DEF Undisturbed
<1>3. /\ LoadOK(k, file', walletStates', created', overlapped')
      /\ OwnOK(k, walletStates') /\ SignOK(k, file', created', overlapped', tokens')
      /\ ApiOK(k, created', tokens') /\ overlapped \subseteq overlapped'
  BY <1>1
<1>4. /\ tasks' \in [RTasks -> TaskType] /\ \A u \in RTasks : TaskOK(u)'
      /\ \A u, v \in RTasks : Apart(u, v)'
  BY <1>2, <1>3, TasksGoOn
<1>5. RingType'
  BY <1>1, <1>4 DEF RingInv, RingType
<1>6. GateOK'
  BY <1>1 DEF RingInv, RingType, GateOK
<1>7. ObjectsOK'
  BY <1>1 DEF RingInv, ObjectsOK
<1>8. \A w \in Wallets : FileOK(w)'
  BY <1>1 DEF RingInv, FileOK
<1> QED
  BY <1>4, <1>5, <1>6, <1>7, <1>8 DEF RingInv

\* The account with an index is one.
LEMMA OneAccount ==
    ASSUME NEW l \in Seq(Account), Rising(l), NEW i,
           NEW x \in DOMAIN l, l[x].index = i, NEW y \in DOMAIN l, l[y].index = i
    PROVE  x = y
<1>1. DOMAIN l = 1 .. Len(l) /\ Len(l) \in Nat
  OBVIOUS
<1>2. x \in 1 .. Len(l) /\ y \in 1 .. Len(l) /\ l[x] \in Account
  BY <1>1
<1>3. l[x].index \in Nat
  BY <1>2 DEF Account
<1>4. ~(x < y)
  BY <1>2, <1>3 DEF Rising
<1>5. ~(y < x)
  BY <1>2, <1>3 DEF Rising
<1> QED
  BY <1>2, <1>4, <1>5

\* Being in a set is true or false.
LEMMA MembershipIsATruth == \A x, S : \E b \in BOOLEAN : b = (x \in S)
<1> TAKE x, S
<1>1. CASE x \in S
  <2>1. TRUE \in BOOLEAN /\ TRUE = (x \in S)
    BY <1>1
  <2> QED
    BY <2>1
<1>2. CASE x \notin S
  <2>1. FALSE \in BOOLEAN /\ FALSE = (x \in S)
    BY <1>2
  <2> QED
    BY <2>1
<1> QED
  BY <1>1, <1>2

\* A signature is made.
LEMMA SigningKeepsInv ==
    ASSUME RingInv, NEW t \in RTasks, NEW i, ResolveAndSign(t, i)
    PROVE  RingInv'
<1> DEFINE task == tasks[t]
           o == walletStates[task.w]
           known == {a \in DOMAIN object[o].accounts : object[o].accounts[a].index = i}
           first == CHOOSE a \in known : \A b \in known : a <= b
<1>0. /\ RingType /\ task \in TaskType /\ tokens \in Seq(Token) /\ apiKeys \in [ApiIds -> Nat]
      /\ TaskOK(t) /\ tasks \in [RTasks -> TaskType]
  BY DEF RingInv, RingType
<1>1. /\ task.pc = "resolve" /\ tasks' = [tasks EXCEPT ![t] = NoTask]
      /\ UNCHANGED <<storage, ringVars, file, walletStates, object, created,
                     derived, overlapped, apiKeys, tokens>>
  BY DEF ResolveAndSign, End
<1>2. \/ UNCHANGED signatures
      \/ /\ o # None /\ known # {}
         /\ task.token = 0 => file[task.w] # None
         /\ task.token # 0 => \E id \in ApiIds : apiKeys[id] = task.token
         /\ \E own \in BOOLEAN :
              /\ own = (object[o].accounts[first] \in derived[task.w])
              /\ signatures' = signatures \cup {[wallet |-> task.w, ok |-> task.ok, own |-> own]}
  <2>1. PICK own \in BOOLEAN : own = (object[o].accounts[first] \in derived[task.w])
    BY MembershipIsATruth, Zenon
  <2>2. \/ UNCHANGED signatures
        \/ /\ IF task.token = 0 THEN OnFile(task.w)
              ELSE \E id \in ApiIds : apiKeys[id] = task.token
           /\ o # None /\ known # {}
           /\ signatures' = signatures \cup
                {[wallet |-> task.w, ok |-> task.ok,
                  own |-> object[o].accounts[first] \in derived[task.w]]}
    BY DEF ResolveAndSign
  <2> QED
    BY <2>1, <2>2 DEF OnFile
<1>3. task.op = "sign" /\ task.w \in created /\ task.w \in Wallets
  BY <1>0, <1>1 DEF TaskOK, ShapeOK, SignOK, RingType
<1>4. SignaturesAreEntitled'
  <2>1. CASE UNCHANGED signatures
    BY <1>1, <2>1 DEF RingInv, SignaturesAreEntitled
  <2>2. ASSUME o # None, known # {},
               task.token = 0 => file[task.w] # None,
               task.token # 0 => \E id \in ApiIds : apiKeys[id] = task.token,
               NEW own \in BOOLEAN, own = (object[o].accounts[first] \in derived[task.w]),
               signatures' = signatures \cup {[wallet |-> task.w, ok |-> task.ok, own |-> own]},
               task.w \notin overlapped
        PROVE  task.ok /\ own
    <3>1. /\ file[task.w] # None /\ object[o].accounts = file[task.w] /\ Rising(file[task.w])
          /\ derived[task.w] = {file[task.w][j] : j \in 1 .. Len(file[task.w])}
      BY <1>3, <2>2 DEF RingInv, FileOK
    <3>2. file[task.w] \in Seq(Account)
      BY <1>0, <1>3, <3>1 DEF RingType
    <3>3. first \in 1 .. Len(file[task.w])
      <4>1. known = {a \in DOMAIN file[task.w] : file[task.w][a].index = i}
        BY <3>1
      <4>2. first = CHOOSE x \in known : \A y \in known : x <= y
        OBVIOUS
      <4>3. PICK l \in Seq(Account) : l = file[task.w] /\ Rising(l)
        BY <3>1, <3>2
      <4>4. known = {a \in DOMAIN l : l[a].index = i} /\ known # {}
        BY <2>2, <4>1, <4>3
      <4> HIDE DEF known, first
      <4>5. PICK x \in known : TRUE
        BY <4>4
      <4>6. \A y \in known : y = x
        <5>1. TAKE y \in known
        <5>2. x \in DOMAIN l /\ y \in DOMAIN l /\ l[x].index = i /\ l[y].index = i
          BY <4>4
        <5> QED
          BY <4>3, <5>2, OneAccount
      <4>7. x \in 1 .. Len(l)
        <5>1. x \in DOMAIN l
          BY <4>4
        <5> QED
          BY <5>1
      <4>8. \A y \in known : x <= y
        BY <4>6, <4>7
      <4>9. first \in known
        BY <4>2, <4>8
      <4> QED
        BY <4>3, <4>6, <4>7, <4>9
    <3>4. own
      BY <2>2, <3>1, <3>3
    <3>5. task.token # 0 => tokens[task.token].state = "handedOut"
      BY <2>2 DEF RingInv, TokensOK
    <3>6. task.ok
      BY <1>0, <1>3, <2>2, <3>1, <3>5 DEF TaskOK, SignOK
    <3> QED
      BY <3>4, <3>6
  <2>3. ASSUME NEW own \in BOOLEAN, task.w \notin overlapped => task.ok /\ own,
               signatures' = signatures \cup {[wallet |-> task.w, ok |-> task.ok, own |-> own]},
               NEW s \in signatures', s.wallet \notin overlapped'
        PROVE  s.ok /\ s.own
    <3>1. CASE s \in signatures
      BY <1>1, <2>3, <3>1 DEF RingInv, SignaturesAreEntitled
    <3>2. CASE s = [wallet |-> task.w, ok |-> task.ok, own |-> own]
      <4>1. s.wallet = task.w /\ s.ok = task.ok /\ s.own = own
        BY <3>2
      <4> QED
        BY <1>1, <2>3, <4>1
    <3> QED
      BY <2>3, <3>1, <3>2
  <2> QED
    BY <1>2, <2>1, <2>2, <2>3 DEF SignaturesAreEntitled
<1>5. /\ apiKeys' \in [ApiIds -> Nat] /\ tokens' \in Seq(Token) /\ tokens' = tokens
      /\ TokensOK'
  BY <1>0, <1>1 DEF RingInv, TokensOK
<1>6. NoTask \in TaskType /\ NoTask.op \notin Loading /\ NoTask.pc # "seCreate" /\ NoTask.pc # "store"
  BY NoTaskType DEF NoTask, Loading
<1>7. \A u \in RTasks : TokensGoOn(tasks[u], tokens, tokens')
  BY <1>5 DEF TokensGoOn
<1>8. /\ ShapeOK(NoTask) /\ LoadOK(NoTask, file, walletStates, created, overlapped)
      /\ OwnOK(NoTask, walletStates) /\ SignOK(NoTask, file, created, overlapped, tokens')
      /\ ApiOK(NoTask, created, tokens')
  BY NoTaskIsPlain, PlainIsOK
<1> HIDE DEF task, o, known, first
<1> QED
  BY <1>1, <1>4, <1>5, <1>6, <1>7, <1>8, TokenStep

\* A token is added at the end.
LEMMA TokenAdded ==
    ASSUME RingInv, NEW r \in Token, tokens' = Append(tokens, r)
    PROVE  /\ tokens' \in Seq(Token) /\ Len(tokens) \in Nat /\ Len(tokens') = Len(tokens) + 1
           /\ \A n \in 1 .. Len(tokens) : n \in 1 .. Len(tokens') /\ tokens'[n] = tokens[n]
           /\ tokens'[Len(tokens) + 1] = r
           /\ \A k : TokensGoOn(k, tokens, tokens')
<1>1. tokens \in Seq(Token)
  BY DEF RingInv, RingType
<1>2. /\ tokens' \in Seq(Token) /\ Len(tokens) \in Nat /\ Len(tokens') = Len(tokens) + 1
      /\ tokens'[Len(tokens) + 1] = r
      /\ \A n \in 1 .. Len(tokens) : tokens'[n] = tokens[n]
  BY <1>1
<1>3. \A n \in 1 .. Len(tokens) : n \in 1 .. Len(tokens')
  BY <1>2
<1> QED
  BY <1>2, <1>3 DEF TokensGoOn

\* An API key is encrypted under a new token.
LEMMA EncryptKeepsInv ==
    ASSUME RingInv, NEW t \in RTasks, EncryptApiKey(t)
    PROVE  RingInv'
<1>0. /\ RingType /\ tasks[t] \in TaskType /\ tokens \in Seq(Token) /\ apiKeys \in [ApiIds -> Nat]
      /\ TaskOK(t) /\ tasks \in [RTasks -> TaskType] /\ TokensOK /\ created \subseteq Wallets
      /\ opKey \in Nat /\ made \in Nat /\ boundTo \in Wallets \cup {None}
  BY DEF RingInv, RingType
<1>1. /\ tasks[t].pc = "read"
      /\ UNCHANGED <<storage, ringVars, file, walletStates, object, created,
                     derived, overlapped, signatures>>
  BY DEF EncryptApiKey
<1>2. tasks[t].op = "apiKey" /\ tasks[t].w \in created /\ tasks[t].api \in ApiIds
  BY <1>0, <1>1 DEF TaskOK, ShapeOK, ApiOK
<1>3. CASE End(t) /\ UNCHANGED <<apiKeys, tokens>>
  BY <1>0, <1>1, <1>3, EndStep DEF ringVars, walletVars, apiVars
<1>4. ASSUME NEW st \in {"made", "handedOut"},
             tokens' = Append(tokens, [id |-> tasks[t].api, wallet |-> tasks[t].w,
                                       state |-> st]),
             \/ st = "handedOut" /\ End(t)
                /\ apiKeys' = [apiKeys EXCEPT ![tasks[t].api] = Len(tokens) + 1]
             \/ st = "made" /\ UNCHANGED apiKeys
                /\ tasks' = [tasks EXCEPT ![t].pc = "store", ![t].token = Len(tokens) + 1]
      PROVE  RingInv'
  <2>1. PICK r \in Token : /\ r = [id |-> tasks[t].api, wallet |-> tasks[t].w, state |-> st]
                           /\ r.id = tasks[t].api /\ r.wallet = tasks[t].w /\ r.state = st
    <3>1. [id |-> tasks[t].api, wallet |-> tasks[t].w, state |-> st] \in Token
      BY <1>2, <1>4, <1>0 DEF Token
    <3> QED
      BY <3>1
  <2>2. PICK n \in Nat : n = Len(tokens) + 1
    <3>1. PICK m \in Nat : m = Len(tokens)
      <4>1. tokens \in Seq(Token)
        BY <1>0
      <4> QED
        BY <4>1
    <3>2. m + 1 \in Nat
      OBVIOUS
    <3> QED
      BY <3>1, <3>2
  <2>3. /\ tokens' \in Seq(Token) /\ Len(tokens') = n /\ tokens'[n] = r
        /\ n \in 1 .. Len(tokens') /\ n # 0
        /\ \A m \in 1 .. Len(tokens) : m \in 1 .. Len(tokens') /\ tokens'[m] = tokens[m] /\ m # n
        /\ \A m \in 1 .. Len(tokens') : m = n \/ m \in 1 .. Len(tokens)
        /\ \A k : TokensGoOn(k, tokens, tokens')
    <3>1. /\ tokens' \in Seq(Token) /\ Len(tokens) \in Nat /\ Len(tokens') = Len(tokens) + 1
          /\ \A m \in 1 .. Len(tokens) : m \in 1 .. Len(tokens') /\ tokens'[m] = tokens[m]
          /\ tokens'[Len(tokens) + 1] = r
          /\ \A k : TokensGoOn(k, tokens, tokens')
      BY <1>4, <2>1, TokenAdded
    <3>2. /\ n \in 1 .. Len(tokens') /\ n # 0 /\ \A m \in 1 .. Len(tokens) : m # n
          /\ \A m \in 1 .. Len(tokens') : m = n \/ m \in 1 .. Len(tokens)
      <4>1. PICK m0 \in Nat : m0 = Len(tokens) /\ Len(tokens') = m0 + 1 /\ n = m0 + 1
        BY <2>2, <3>1
      <4>2. n \in 1 .. (m0 + 1) /\ n # 0 /\ \A m \in 1 .. m0 : m # n
        BY <4>1
      <4>3. \A m \in 1 .. (m0 + 1) : m = n \/ m \in 1 .. m0
        BY <4>1
      <4> QED
        BY <4>1, <4>2, <4>3
    <3> QED
      BY <2>2, <3>1, <3>2
  <2>4. apiKeys' \in [ApiIds -> Nat]
        /\ \A id \in ApiIds : \/ apiKeys'[id] = apiKeys[id]
                              \/ apiKeys'[id] = n /\ id = tasks[t].api /\ st = "handedOut"
    BY <1>0, <1>2, <1>4, <2>2
  <2>5. TokensOK'
    <3>1. \A m \in 1 .. Len(tokens') : tokens'[m].wallet \in created'
      BY <1>0, <1>1, <1>2, <2>1, <2>3 DEF TokensOK
    <3>2. ASSUME NEW id \in ApiIds, apiKeys'[id] # 0
          PROVE  /\ apiKeys'[id] \in 1 .. Len(tokens')
                 /\ tokens'[apiKeys'[id]].id = id
                 /\ tokens'[apiKeys'[id]].state = "handedOut"
      <4>1. CASE apiKeys'[id] = apiKeys[id]
        <5>1. PICK m \in 1 .. Len(tokens) :
                 m = apiKeys[id] /\ tokens[m].id = id /\ tokens[m].state = "handedOut"
          BY <1>0, <3>2, <4>1 DEF TokensOK
        <5> QED
          BY <2>3, <4>1, <5>1
      <4>2. CASE apiKeys'[id] = n /\ id = tasks[t].api /\ st = "handedOut"
        BY <2>1, <2>3, <4>2
      <4> QED
        BY <2>4, <4>1, <4>2
    <3> QED
      BY <3>1, <3>2 DEF TokensOK
  <2>6. SignaturesAreEntitled'
    BY <1>1 DEF RingInv, SignaturesAreEntitled
  <2>7. CASE st = "handedOut"
    <3>1. tasks' = [tasks EXCEPT ![t] = NoTask]
      BY <1>4, <2>7 DEF End
    <3>2. NoTask \in TaskType /\ NoTask.op \notin Loading /\ NoTask.pc # "seCreate"
          /\ NoTask.pc # "store"
      BY NoTaskType DEF NoTask, Loading
    <3>3. /\ ShapeOK(NoTask) /\ LoadOK(NoTask, file, walletStates, created, overlapped)
          /\ OwnOK(NoTask, walletStates) /\ SignOK(NoTask, file, created, overlapped, tokens')
          /\ ApiOK(NoTask, created, tokens')
      BY NoTaskIsPlain, PlainIsOK
    <3> QED
      BY <1>1, <2>3, <2>4, <2>5, <2>6, <3>1, <3>2, <3>3, TokenStep
  <2>8. CASE st = "made"
    <3>1. PICK k : k = [tasks[t] EXCEPT !.pc = "store", !.token = n]
      OBVIOUS
    <3>2. /\ k.op = "apiKey" /\ k.pc = "store" /\ k.token = n /\ k.w = tasks[t].w
          /\ k.obj = tasks[t].obj /\ k.api = tasks[t].api
      BY <1>0, <1>2, <3>1 DEF TaskType
    <3>3. k \in TaskType
      BY <1>0, <2>2, <3>1 DEF TaskType
    <3>4. tasks' = [tasks EXCEPT ![t] = k]
      BY <1>0, <1>4, <2>2, <2>8, <3>1
    <3>5. k.obj = None
      BY <1>0, <1>2, <3>2 DEF TaskOK, ShapeOK, Loading
    <3>6. /\ ShapeOK(k) /\ LoadOK(k, file, walletStates, created, overlapped)
          /\ OwnOK(k, walletStates) /\ SignOK(k, file, created, overlapped, tokens')
      BY <3>2, <3>5 DEF ShapeOK, LoadOK, OwnOK, SignOK, Loading
    <3>7. ApiOK(k, created, tokens')
      BY <1>2, <2>1, <2>3, <2>8, <3>2 DEF ApiOK
    <3>8. \A u \in RTasks : tasks[u].pc = "store" => tasks[u].token # k.token
      BY <2>3, <3>2 DEF RingInv, TaskOK, ShapeOK, ApiOK
    <3>9. k.op \notin Loading /\ k.pc # "seCreate"
      BY <3>2 DEF Loading
    <3> QED
      BY <1>1, <2>3, <2>4, <2>5, <2>6, <3>3, <3>4, <3>6, <3>7, <3>8, <3>9, TokenStep
  <2> QED
    BY <2>7, <2>8
<1>5. \/ End(t) /\ UNCHANGED <<apiKeys, tokens>>
      \/ \E st \in {"made", "handedOut"} :
           /\ tokens' = Append(tokens, [id |-> tasks[t].api, wallet |-> tasks[t].w,
                                        state |-> st])
           /\ \/ st = "handedOut" /\ End(t)
                 /\ apiKeys' = [apiKeys EXCEPT ![tasks[t].api] = Len(tokens) + 1]
              \/ st = "made" /\ UNCHANGED apiKeys
                 /\ tasks' = [tasks EXCEPT ![t].pc = "store", ![t].token = Len(tokens) + 1]
  BY DEF EncryptApiKey
<1> QED
  BY <1>3, <1>4, <1>5

\* A change of the states of the tokens.
LEMMA TokensChanged ==
    ASSUME RingInv, NEW s, tokens' = [n \in 1 .. Len(tokens) |-> s[n]],
           \A n \in 1 .. Len(tokens) : s[n] \in Token /\ s[n].wallet = tokens[n].wallet
    PROVE  /\ tokens' \in Seq(Token) /\ Len(tokens') = Len(tokens)
           /\ \A n \in 1 .. Len(tokens) : tokens'[n] = s[n]
           /\ \A n \in 1 .. Len(tokens') : tokens'[n].wallet \in created
<1>1. Len(tokens) \in Nat
  BY DEF RingInv, RingType
<1>2. tokens' \in Seq(Token) /\ Len(tokens') = Len(tokens)
  BY <1>1
<1>3. \A n \in 1 .. Len(tokens) : tokens'[n] = s[n]
  OBVIOUS
<1> QED
  BY <1>2, <1>3 DEF RingInv, TokensOK

\* The file of an API key is written, or the write fails.
LEMMA StoreKeepsInv ==
    ASSUME RingInv, NEW t \in RTasks, ApiKeyStored(t)
    PROVE  RingInv'
<1>0. /\ RingType /\ tasks[t] \in TaskType /\ tokens \in Seq(Token) /\ apiKeys \in [ApiIds -> Nat]
      /\ TaskOK(t) /\ TokensOK
  BY DEF RingInv, RingType
<1>1. /\ tasks[t].pc = "store" /\ tasks' = [tasks EXCEPT ![t] = NoTask]
      /\ UNCHANGED <<storage, ringVars, file, walletStates, object, created,
                     derived, overlapped, signatures>>
  BY DEF ApiKeyStored, End
<1>2. PICK m \in 1 .. Len(tokens) : /\ m = tasks[t].token /\ tokens[m].state = "made"
                                    /\ tokens[m].id = tasks[t].api /\ tasks[t].api \in ApiIds
                                    /\ m # 0 /\ m \in Nat
  BY <1>0, <1>1 DEF TaskOK, ShapeOK, ApiOK
<1>3. /\ apiKeys' \in [ApiIds -> Nat] /\ tokens' \in Seq(Token) /\ TokensOK'
      /\ \A u \in RTasks : u # t => TokensGoOn(tasks[u], tokens, tokens')
  <2>1. CASE /\ apiKeys' = [apiKeys EXCEPT ![tasks[t].api] = m]
             /\ tokens' = [tokens EXCEPT ![m].state = "handedOut"]
    <3>1. PICK s : s = [n \in 1 .. Len(tokens) |->
                          IF n = m THEN [tokens[n] EXCEPT !.state = "handedOut"] ELSE tokens[n]]
      OBVIOUS
    <3>2. \A n \in 1 .. Len(tokens) :
             /\ s[n] \in Token /\ s[n].wallet = tokens[n].wallet /\ s[n].id = tokens[n].id
             /\ s[n].state = IF n = m THEN "handedOut" ELSE tokens[n].state
      <4>1. TAKE n \in 1 .. Len(tokens)
      <4>2. tokens[n] \in Token
        BY <1>0
      <4>3. s[n] = IF n = m THEN [tokens[n] EXCEPT !.state = "handedOut"] ELSE tokens[n]
        BY <3>1
      <4> QED
        BY <4>2, <4>3 DEF Token
    <3>3. tokens' = [n \in 1 .. Len(tokens) |-> s[n]]
      <4>1. DOMAIN tokens = 1 .. Len(tokens) /\ tokens = [n \in 1 .. Len(tokens) |-> tokens[n]]
        BY <1>0
      <4>2. tokens' = [n \in 1 .. Len(tokens) |->
                         IF n = m THEN [tokens[m] EXCEPT !.state = "handedOut"] ELSE tokens[n]]
        BY <1>2, <2>1, <4>1
      <4>3. \A n \in 1 .. Len(tokens) :
               s[n] = IF n = m THEN [tokens[m] EXCEPT !.state = "handedOut"] ELSE tokens[n]
        BY <3>1
      <4> QED
        BY <4>2, <4>3
    <3>4. /\ tokens' \in Seq(Token) /\ Len(tokens') = Len(tokens)
          /\ \A n \in 1 .. Len(tokens) : tokens'[n] = s[n]
          /\ \A n \in 1 .. Len(tokens') : tokens'[n].wallet \in created
      BY <3>2, <3>3, TokensChanged
    <3>5. apiKeys' \in [ApiIds -> Nat] /\ apiKeys'[tasks[t].api] = m
          /\ \A id \in ApiIds : id # tasks[t].api => apiKeys'[id] = apiKeys[id]
      BY <1>0, <1>2, <2>1
    <3>6. ASSUME NEW id \in ApiIds, apiKeys'[id] # 0
          PROVE  /\ apiKeys'[id] \in 1 .. Len(tokens')
                 /\ tokens'[apiKeys'[id]].id = id
                 /\ tokens'[apiKeys'[id]].state = "handedOut"
      <4>1. CASE id = tasks[t].api
        BY <1>2, <3>2, <3>4, <3>5, <4>1
      <4>2. CASE id # tasks[t].api
        <5>1. PICK n \in 1 .. Len(tokens) :
                 n = apiKeys[id] /\ tokens[n].id = id /\ tokens[n].state = "handedOut"
          BY <1>0, <3>5, <3>6, <4>2 DEF TokensOK
        <5>2. n # m
          BY <1>2, <5>1
        <5>3. /\ apiKeys'[id] = n /\ n \in 1 .. Len(tokens') /\ tokens'[n] = s[n]
              /\ s[n].id = tokens[n].id /\ s[n].state = tokens[n].state
          BY <3>2, <3>4, <3>5, <4>2, <5>1, <5>2
        <5> QED
          BY <5>1, <5>3
      <4> QED
        BY <4>1, <4>2
    <3>7. TokensOK'
      BY <1>1, <3>4, <3>6 DEF TokensOK
    <3>8. ASSUME NEW u \in RTasks, u # t
          PROVE  TokensGoOn(tasks[u], tokens, tokens')
      <4>1. tasks[u].pc = "store" => tasks[u].token # m
        BY <1>1, <1>2, <3>8 DEF RingInv, Apart
      <4> QED
        BY <1>2, <3>2, <3>4, <4>1 DEF TokensGoOn
    <3> QED
      BY <3>4, <3>5, <3>7, <3>8
  <2>2. CASE apiKeys' \in {apiKeys, [apiKeys EXCEPT ![tasks[t].api] = 0]} /\ tokens' = tokens
    <3>1. apiKeys' \in [ApiIds -> Nat] /\ \A id \in ApiIds : apiKeys'[id] \in {apiKeys[id], 0}
      BY <1>0, <2>2
    <3>2. TokensOK'
      BY <1>0, <1>1, <2>2, <3>1 DEF TokensOK
    <3> QED
      BY <1>0, <2>2, <3>1, <3>2 DEF TokensGoOn
  <2> QED
    BY <1>2, <2>1, <2>2 DEF ApiKeyStored
<1>4. NoTask \in TaskType /\ NoTask.op \notin Loading /\ NoTask.pc # "seCreate" /\ NoTask.pc # "store"
  BY NoTaskType DEF NoTask, Loading
<1>5. /\ ShapeOK(NoTask) /\ LoadOK(NoTask, file, walletStates, created, overlapped)
      /\ OwnOK(NoTask, walletStates) /\ SignOK(NoTask, file, created, overlapped, tokens')
      /\ ApiOK(NoTask, created, tokens')
  BY NoTaskIsPlain, PlainIsOK
<1>6. SignaturesAreEntitled'
  BY <1>1 DEF RingInv, SignaturesAreEntitled
<1> QED
  BY <1>1, <1>3, <1>4, <1>5, <1>6, TokenStep

\* An API key is revoked.
LEMMA RevokeKeepsInv ==
    ASSUME RingInv, NEW id \in ApiIds, RevokeApiKey(id)
    PROVE  RingInv'
<1>0. /\ RingType /\ tokens \in Seq(Token) /\ apiKeys \in [ApiIds -> Nat] /\ TokensOK
      /\ DOMAIN tokens = 1 .. Len(tokens)
  BY DEF RingInv, RingType
<1>1. /\ tasks' = tasks
      /\ UNCHANGED <<storage, ringVars, file, walletStates, object, created,
                     derived, overlapped, signatures>>
      /\ apiKeys' = [apiKeys EXCEPT ![id] = 0]
  BY DEF RevokeApiKey
<1>2. PICK s : s = [n \in 1 .. Len(tokens) |->
                      IF tokens[n].id = id /\ tokens[n].state = "handedOut"
                      THEN [tokens[n] EXCEPT !.state = "revoked"] ELSE tokens[n]]
  OBVIOUS
<1>3. \A n \in 1 .. Len(tokens) :
         /\ s[n] \in Token /\ s[n].wallet = tokens[n].wallet /\ s[n].id = tokens[n].id
         /\ \/ s[n].state = tokens[n].state
            \/ tokens[n].state = "handedOut" /\ s[n].state = "revoked" /\ tokens[n].id = id
  <2>1. TAKE n \in 1 .. Len(tokens)
  <2>2. tokens[n] \in Token
    BY <1>0
  <2>3. \/ s[n] = tokens[n]
        \/ s[n] = [tokens[n] EXCEPT !.state = "revoked"]
           /\ tokens[n].id = id /\ tokens[n].state = "handedOut"
    BY <1>2
  <2> QED
    BY <2>2, <2>3 DEF Token
<1>4. tokens' = [n \in 1 .. Len(tokens) |-> s[n]]
  BY <1>0, <1>2 DEF RevokeApiKey
<1>5. /\ tokens' \in Seq(Token) /\ Len(tokens') = Len(tokens)
      /\ \A n \in 1 .. Len(tokens) : tokens'[n] = s[n]
      /\ \A n \in 1 .. Len(tokens') : tokens'[n].wallet \in created
  BY <1>3, <1>4, TokensChanged
<1>6. apiKeys' \in [ApiIds -> Nat] /\ apiKeys'[id] = 0
      /\ \A d \in ApiIds : d # id => apiKeys'[d] = apiKeys[d]
  BY <1>0, <1>1
<1>7. TokensOK'
  <2>1. ASSUME NEW d \in ApiIds, apiKeys'[d] # 0
        PROVE  /\ apiKeys'[d] \in 1 .. Len(tokens')
               /\ tokens'[apiKeys'[d]].id = d
               /\ tokens'[apiKeys'[d]].state = "handedOut"
    <3>1. d # id /\ apiKeys'[d] = apiKeys[d]
      BY <1>6, <2>1
    <3>2. PICK n \in 1 .. Len(tokens) :
             n = apiKeys[d] /\ tokens[n].id = d /\ tokens[n].state = "handedOut"
      BY <1>0, <2>1, <3>1 DEF TokensOK
    <3>3. /\ apiKeys'[d] = n /\ n \in 1 .. Len(tokens') /\ tokens'[n] = s[n]
          /\ s[n].id = tokens[n].id /\ s[n].state = tokens[n].state
      BY <1>3, <1>5, <3>1, <3>2
    <3> QED
      BY <3>2, <3>3
  <2> QED
    BY <1>1, <1>5, <2>1 DEF TokensOK
<1>8. \A u \in RTasks : TokensGoOn(tasks[u], tokens, tokens')
  BY <1>3, <1>5 DEF TokensGoOn
<1>9. \A u \in RTasks : Undisturbed(tasks[u], file, walletStates, created, overlapped,
                                    file', walletStates', created', overlapped')
  BY <1>1 DEF Undisturbed
<1>10. (\A u \in RTasks : TaskOK(u)') /\ \A u, v \in RTasks : Apart(u, v)'
  BY <1>1, <1>8, <1>9, TasksStay
<1>11. RingType'
  BY <1>0, <1>1, <1>5, <1>6 DEF RingType, ringVars
<1>12. GateOK' /\ ObjectsOK'
  BY <1>1 DEF RingInv, GateOK, ObjectsOK, ringVars
<1>13. SignaturesAreEntitled'
  BY <1>1 DEF RingInv, SignaturesAreEntitled
<1>14. \A w \in Wallets : FileOK(w)'
  BY <1>1 DEF RingInv, FileOK
<1> QED
  BY <1>7, <1>10, <1>11, <1>12, <1>13, <1>14 DEF RingInv

ObjectType == [nextIndex : Nat, accounts : Seq(Account)]

\* The state read from a file has the accounts of the file and a next index
\* above theirs.
LEMMA LoadedIsOK ==
    ASSUME NEW l \in Seq(Account), Rising(l)
    PROVE  /\ LoadedState(l) \in ObjectType /\ ObjectOK(LoadedState(l))
           /\ LoadedState(l).accounts = l
<1>0. Len(l) \in Nat /\ \A i \in 1 .. Len(l) : l[i] \in Account /\ l[i].index \in Nat
  <2>1. Len(l) \in Nat /\ \A i \in 1 .. Len(l) : l[i] \in Account
    OBVIOUS
  <2>2. \A a \in Account : a.index \in Nat
    BY DEF Account
  <2> QED
    BY <2>1, <2>2
<1>1. LoadedState(l).accounts = l
      /\ LoadedState(l).nextIndex = IF l = <<>> THEN 0 ELSE MaxOf(Indices(l)) + 1
  BY DEF LoadedState
<1>2. CASE l = <<>>
  <2>1. LoadedState(l) = [nextIndex |-> 0, accounts |-> l] /\ Len(l) = 0
    BY <1>2 DEF LoadedState
  <2>2. LoadedState(l) \in ObjectType
    BY <2>1 DEF ObjectType
  <2>3. ObjectOK(LoadedState(l))
    BY <1>1, <2>1 DEF ObjectOK
  <2> QED
    BY <1>1, <2>2, <2>3
<1>3. CASE l # <<>>
  <2>1. PICK z \in Nat : z = Len(l) /\ z \in 1 .. Len(l) /\ l[z].index \in Nat
    BY <1>0, <1>3
  <2>2. \A i \in 1 .. Len(l) : l[i].index <= l[z].index
    <3>1. TAKE i \in 1 .. Len(l)
    <3>2. CASE i = z
      BY <1>0, <3>2
    <3>3. CASE i # z
      <4>1. i < z
        BY <1>0, <2>1, <3>3
      <4> QED
        BY <1>0, <2>1, <4>1 DEF Rising
    <3> QED
      BY <3>2, <3>3
  <2>3. l[z].index \in Indices(l) /\ \A y \in Indices(l) : y <= l[z].index /\ y \in Nat
    BY <1>0, <2>1, <2>2 DEF Indices
  <2>4. PICK m : m = MaxOf(Indices(l))
    OBVIOUS
  <2>5. m \in Indices(l) /\ \A y \in Indices(l) : y <= m
    BY <2>3, <2>4 DEF MaxOf
  <2>6. m \in Nat /\ \A i \in 1 .. Len(l) : l[i].index < m + 1
    <3>1. m \in Nat
      BY <2>3, <2>5
    <3>2. ASSUME NEW i \in 1 .. Len(l)
          PROVE  l[i].index < m + 1
      <4>1. l[i].index \in Indices(l) /\ l[i].index \in Nat
        BY <1>0 DEF Indices
      <4>2. l[i].index <= m
        BY <2>5, <4>1
      <4> QED
        BY <3>1, <4>1, <4>2
    <3> QED
      BY <3>1, <3>2
  <2>7. LoadedState(l) = [nextIndex |-> m + 1, accounts |-> l]
    BY <1>3, <2>4 DEF LoadedState
  <2>8. m + 1 \in Nat
    BY <2>6
  <2>9. LoadedState(l) \in ObjectType
    BY <2>7, <2>8 DEF ObjectType
  <2>10. ObjectOK(LoadedState(l))
    <3>1. LoadedState(l).nextIndex = m + 1
      BY <2>7
    <3> QED
      BY <1>1, <2>6, <3>1 DEF ObjectOK
  <2> QED
    BY <1>1, <2>9, <2>10
<1> QED
  BY <1>2, <1>3

\* The list a derivation writes.
LEMMA GrownIsOK ==
    ASSUME NEW s \in ObjectType, ObjectOK(s), NEW chain \in {"evm", "ed25519"},
           NEW l, l = Append(s.accounts, [index |-> s.nextIndex, chain |-> chain])
    PROVE  l \in Seq(Account) /\ Rising(l) /\ l # <<>> /\ Longer(l, s.accounts)
<1>1. s.accounts \in Seq(Account) /\ s.nextIndex \in Nat
  BY DEF ObjectType
<1>2. PICK a \in Account : a = [index |-> s.nextIndex, chain |-> chain] /\ a.index = s.nextIndex
  BY <1>1 DEF Account
<1>3. PICK n \in Nat : n = Len(s.accounts)
  BY <1>1
<1>4. /\ l \in Seq(Account) /\ Len(l) = n + 1 /\ l[n + 1] = a
      /\ \A i \in 1 .. n : l[i] = s.accounts[i]
  BY <1>1, <1>2, <1>3
<1>5. l # <<>>
  BY <1>3, <1>4
<1>6. Longer(l, s.accounts)
  BY <1>3, <1>4 DEF Longer
<1>7. ASSUME NEW i \in 1 .. Len(l), NEW j \in 1 .. Len(l), i < j
      PROVE  l[i].index < l[j].index
  <2>1. i \in 1 .. n /\ l[i] = s.accounts[i]
    BY <1>3, <1>4, <1>7
  <2>2. CASE j = n + 1
    <3>1. l[j].index = s.nextIndex /\ s.accounts[i].index < s.nextIndex
      BY <1>2, <1>3, <1>4, <2>1, <2>2 DEF ObjectOK
    <3> QED
      BY <2>1, <3>1
  <2>3. CASE j # n + 1
    <3>1. j \in 1 .. n /\ l[j] = s.accounts[j]
      BY <1>3, <1>4, <2>3
    <3> QED
      BY <1>3, <1>7, <2>1, <3>1 DEF ObjectOK, Rising
  <2> QED
    BY <2>2, <2>3
<1> QED
  BY <1>4, <1>5, <1>6, <1>7 DEF Rising

\* A step of a call on the wallets.
LEMMA WalletStep ==
    ASSUME RingInv, NEW t \in RTasks, NEW k \in TaskType, tasks' = [tasks EXCEPT ![t] = k],
           UNCHANGED <<storage, ringVars, apiKeys, tokens, signatures>>,
           file' \in [Wallets -> Seq(Account) \cup {None}],
           walletStates' \in [Wallets -> Objects \cup {None}],
           object' \in [Objects -> ObjectType], derived' \in [Wallets -> SUBSET Account],
           created' \subseteq Wallets, overlapped' \subseteq Wallets,
           created \subseteq created', overlapped \subseteq overlapped',
           \A u \in RTasks : u # t =>
              /\ Undisturbed(tasks[u], file, walletStates, created, overlapped,
                             file', walletStates', created', overlapped')
              /\ k.op \in Loading /\ tasks[u].op \in Loading /\ tasks[u].w = k.w
                 => k.w \in overlapped',
           k.pc # "store", k.pc # "seCreate",
           ShapeOK(k), LoadOK(k, file', walletStates', created', overlapped'),
           OwnOK(k, walletStates'), SignOK(k, file', created', overlapped', tokens),
           ApiOK(k, created', tokens),
           ObjectsOK', \A w \in Wallets : FileOK(w)'
    PROVE  RingInv'
<1>1. UNCHANGED <<storage, apiKeys, tokens, signatures, opKey, made, gateFile, inflight,
                  gateKeys, boundTo>>
  BY DEF ringVars
<1>2. \A u \in RTasks : TokensGoOn(tasks[u], tokens, tokens')
  BY <1>1 DEF TokensGoOn
<1>3. SignOK(k, file', created', overlapped', tokens') /\ ApiOK(k, created', tokens')
  BY <1>1
<1>4. /\ tasks' \in [RTasks -> TaskType] /\ \A u \in RTasks : TaskOK(u)'
      /\ \A u, v \in RTasks : Apart(u, v)'
  BY <1>2, <1>3, TasksGoOn
<1>5. RingType'
  BY <1>1, <1>4 DEF RingInv, RingType, ObjectType
<1>6. GateOK'
  BY <1>1 DEF RingInv, RingType, GateOK
<1>7. TokensOK'
  BY <1>1 DEF RingInv, TokensOK
<1>8. SignaturesAreEntitled'
  BY <1>1 DEF RingInv, SignaturesAreEntitled
<1> QED
  BY <1>4, <1>5, <1>6, <1>7, <1>8 DEF RingInv

\* The wallets change between the steps of the calls.
LEMMA WalletChange ==
    ASSUME RingInv, tasks' = tasks,
           UNCHANGED <<storage, ringVars, apiKeys, tokens, signatures>>,
           file' \in [Wallets -> Seq(Account) \cup {None}],
           walletStates' \in [Wallets -> Objects \cup {None}],
           object' \in [Objects -> ObjectType], derived' \in [Wallets -> SUBSET Account],
           created' \subseteq Wallets, overlapped' \subseteq Wallets,
           created \subseteq created', overlapped \subseteq overlapped',
           \A u \in RTasks : Undisturbed(tasks[u], file, walletStates, created, overlapped,
                                         file', walletStates', created', overlapped'),
           ObjectsOK', \A w \in Wallets : FileOK(w)'
    PROVE  RingInv'
<1>1. UNCHANGED <<storage, apiKeys, tokens, signatures, opKey, made, gateFile, inflight,
                  gateKeys, boundTo>>
  BY DEF ringVars
<1>2. \A u \in RTasks : TokensGoOn(tasks[u], tokens, tokens')
  BY <1>1 DEF TokensGoOn
<1>4. (\A u \in RTasks : TaskOK(u)') /\ \A u, v \in RTasks : Apart(u, v)'
  BY <1>2, TasksStay
<1>5. RingType'
  BY <1>1 DEF RingInv, RingType, ObjectType
<1>6. GateOK'
  BY <1>1 DEF RingInv, GateOK
<1>7. TokensOK'
  BY <1>1 DEF RingInv, TokensOK
<1>8. SignaturesAreEntitled'
  BY <1>1 DEF RingInv, SignaturesAreEntitled
<1> QED
  BY <1>4, <1>5, <1>6, <1>7, <1>8 DEF RingInv

\* A wallet gets an object of its own.
LEMMA FreshObject ==
    ASSUME RingInv, NEW w \in Wallets, NEW o \in Objects, Fresh(o),
           NEW s \in ObjectType, ObjectOK(s),
           walletStates' = [walletStates EXCEPT ![w] = o], object' = [object EXCEPT ![o] = s]
    PROVE  /\ walletStates' \in [Wallets -> Objects \cup {None}]
           /\ object' \in [Objects -> ObjectType] /\ ObjectsOK'
           /\ o # None /\ walletStates'[w] = o /\ object'[o] = s
           /\ \A v \in Wallets : v # w =>
                /\ walletStates'[v] = walletStates[v]
                /\ walletStates[v] # None => object'[walletStates[v]] = object[walletStates[v]]
           /\ \A u \in RTasks : tasks[u].obj # o
           /\ \A v \in Wallets : walletStates'[v] = o => v = w
<1>1. /\ walletStates \in [Wallets -> Objects \cup {None}]
      /\ object \in [Objects -> ObjectType]
  BY DEF RingInv, RingType, ObjectType
<1>2. o # None /\ \A v \in Wallets : walletStates[v] # o
  BY KeyRingAssumption DEF Fresh
<1>3. /\ walletStates' \in [Wallets -> Objects \cup {None}]
      /\ object' \in [Objects -> ObjectType] /\ walletStates'[w] = o /\ object'[o] = s
      /\ \A v \in Wallets : v # w => walletStates'[v] = walletStates[v]
      /\ \A p \in Objects : p # o => object'[p] = object[p]
  BY <1>1
<1>4. \A v \in Wallets : walletStates[v] # None => object'[walletStates[v]] = object[walletStates[v]]
  BY <1>1, <1>2, <1>3
<1>5. ObjectsOK'
  <2>1. \A p \in Objects : ObjectOK(object'[p])
    BY <1>3 DEF RingInv, ObjectsOK
  <2>2. \A v, x \in Wallets : walletStates'[v] = walletStates'[x] /\ walletStates'[v] # None => v = x
    BY <1>2, <1>3 DEF RingInv, ObjectsOK
  <2> QED
    BY <2>1, <2>2 DEF ObjectsOK
<1> QED
  BY <1>2, <1>3, <1>4, <1>5 DEF Fresh

\* A new wallet has an empty file and an object of its own.
LEMMA NewWalletIsOK ==
    ASSUME RingInv, NEW w \in Wallets, NEW o \in Objects, NewWallet(w, o),
           UNCHANGED <<derived, overlapped>>
    PROVE  /\ file' \in [Wallets -> Seq(Account) \cup {None}]
           /\ walletStates' \in [Wallets -> Objects \cup {None}]
           /\ object' \in [Objects -> ObjectType] /\ derived' \in [Wallets -> SUBSET Account]
           /\ created' \subseteq Wallets /\ overlapped' \subseteq Wallets
           /\ created \subseteq created' /\ overlapped \subseteq overlapped'
           /\ ObjectsOK' /\ \A v \in Wallets : FileOK(v)'
           /\ \A u \in RTasks : Undisturbed(tasks[u], file, walletStates, created, overlapped,
                                            file', walletStates', created', overlapped')
<1>0. /\ RingType /\ file \in [Wallets -> Seq(Account) \cup {None}] /\ created \subseteq Wallets
      /\ derived \in [Wallets -> SUBSET Account] /\ overlapped \subseteq Wallets
  BY DEF RingInv, RingType
<1>1. PICK s \in ObjectType : s = [nextIndex |-> 0, accounts |-> <<>>] /\ s.accounts = <<>>
  <2>1. [nextIndex |-> 0, accounts |-> <<>>] \in ObjectType
    BY DEF ObjectType
  <2> QED
    BY <2>1
<1>2. ObjectOK(s)
  BY <1>1 DEF ObjectOK, Rising
<1>3. /\ w \notin created /\ created' = created \cup {w} /\ Fresh(o)
      /\ file' = [file EXCEPT ![w] = <<>>]
      /\ walletStates' = [walletStates EXCEPT ![w] = o] /\ object' = [object EXCEPT ![o] = s]
  BY <1>1 DEF NewWallet
<1>4. /\ walletStates' \in [Wallets -> Objects \cup {None}]
      /\ object' \in [Objects -> ObjectType] /\ ObjectsOK'
      /\ o # None /\ walletStates'[w] = o /\ object'[o] = s
      /\ \A v \in Wallets : v # w =>
           /\ walletStates'[v] = walletStates[v]
           /\ walletStates[v] # None => object'[walletStates[v]] = object[walletStates[v]]
      /\ \A u \in RTasks : tasks[u].obj # o
  BY <1>2, <1>3, FreshObject, ZenonT(30)
<1>5. /\ file' \in [Wallets -> Seq(Account) \cup {None}] /\ file'[w] = <<>>
      /\ \A v \in Wallets : v # w => file'[v] = file[v]
  BY <1>0, <1>3
<1>6. ASSUME NEW v \in Wallets
      PROVE  FileOK(v)'
  <2>1. FileOK(v)
    BY DEF RingInv
  <2>2. CASE v = w
    <3>1. derived'[w] = {} /\ Len(<<>>) = 0
      BY <1>3, <2>1, <2>2 DEF FileOK
    <3>2. {file'[w][i] : i \in 1 .. Len(file'[w])} = {} /\ Rising(file'[w])
      BY <1>5, <3>1 DEF Rising
    <3>3. object'[walletStates'[w]].accounts = file'[w]
      BY <1>1, <1>4, <1>5
    <3>4. file'[w] # None
      <4>1. <<>> \in Seq(Account)
        OBVIOUS
      <4> QED
        BY <1>5, <4>1, KeyRingAssumption DEF Account
    <3> QED
      BY <1>3, <2>2, <3>1, <3>2, <3>3, <3>4 DEF FileOK
  <2>3. CASE v # w
    BY <1>3, <1>4, <1>5, <2>1, <2>3 DEF FileOK
  <2> QED
    BY <2>2, <2>3
<1>7. ASSUME NEW u \in RTasks
      PROVE  Undisturbed(tasks[u], file, walletStates, created, overlapped,
                         file', walletStates', created', overlapped')
  <2>1. tasks[u].op \in Loading => tasks[u].w \in created
    BY DEF RingInv, TaskOK, LoadOK
  <2> QED
    BY <1>0, <1>3, <1>4, <1>5, <2>1 DEF Undisturbed
<1> QED
  BY <1>0, <1>3, <1>4, <1>5, <1>6, <1>7

\* The creation of a wallet and keys.init up to the wallet.
LEMMA CreationKeepsInv ==
    ASSUME RingInv,
           \/ \E w \in Wallets, o \in Objects : CreateWallet(w, o)
           \/ \E t \in RTasks : InitWallet(t)
    PROVE  RingInv'
<1>0. /\ RingType /\ opKey \in Nat /\ made \in Nat /\ boundTo \in Wallets \cup {None}
      /\ tasks \in [RTasks -> TaskType]
  BY DEF RingInv, RingType
<1>1. ASSUME NEW w \in Wallets, NEW o \in Objects, CreateWallet(w, o)
      PROVE  RingInv'
  <2>1. /\ NewWallet(w, o) /\ UNCHANGED <<derived, overlapped>> /\ tasks' = tasks
        /\ UNCHANGED <<storage, ringVars, apiKeys, tokens, signatures>>
    BY <1>1 DEF CreateWallet, apiVars
  <2> QED
    BY <2>1, NewWalletIsOK, WalletChange
<1>2. ASSUME NEW t \in RTasks, InitWallet(t)
      PROVE  RingInv'
  <2>1. tasks[t].pc = "wallet" /\ UNCHANGED <<storage, ringVars>> /\ tasks[t] \in TaskType
    BY <1>0, <1>2 DEF InitWallet
  <2>2. CASE Step(t, "key") /\ UNCHANGED walletVars
    <3>1. PICK k : k = [tasks[t] EXCEPT !.pc = "key"]
      OBVIOUS
    <3>2. Plain(k) /\ k.pc # "seCreate"
      BY <2>1, <3>1, PlainGoesOn DEF TaskType
    <3>3. tasks' = [tasks EXCEPT ![t] = k]
      BY <1>0, <2>2, <3>1 DEF Step
    <3> QED
      BY <1>0, <2>1, <2>2, <3>2, <3>3, PlainStep DEF ringVars, GateStep
  <2>3. CASE End(t) /\ UNCHANGED walletVars
    BY <1>0, <2>1, <2>3, EndStep DEF ringVars
  <2>4. ASSUME NEW w \in Wallets, NEW o \in Objects, NewWallet(w, o),
               tasks' = [tasks EXCEPT ![t].pc = "bind", ![t].w = w],
               UNCHANGED <<derived, overlapped, apiVars>>
        PROVE  RingInv'
    <3>1. PICK k : k = [tasks[t] EXCEPT !.pc = "bind", !.w = w]
      OBVIOUS
    <3>2. tasks' = [tasks EXCEPT ![t] = k]
      BY <1>0, <2>4, <3>1
    <3>3. Plain(k) /\ k.pc = "bind"
      <4>1. k.op = tasks[t].op /\ k.obj = tasks[t].obj /\ k.pc = "bind"
        BY <2>1, <3>1 DEF TaskType
      <4>2. k \in TaskType
        BY <2>1, <3>1 DEF TaskType
      <4>3. Plain(tasks[t])
        BY <2>1, PlainGoesOn
      <4> QED
        BY <4>1, <4>2, <4>3 DEF Plain
    <3>4. k \in TaskType /\ k.op \notin Loading /\ k.pc # "store" /\ k.pc # "seCreate"
      BY <3>3 DEF Plain, Loading
    <3>5. /\ ShapeOK(k) /\ LoadOK(k, file', walletStates', created', overlapped')
          /\ OwnOK(k, walletStates') /\ SignOK(k, file', created', overlapped', tokens)
          /\ ApiOK(k, created', tokens)
      BY <3>3, PlainIsOK
    <3>6. UNCHANGED <<storage, ringVars, apiKeys, tokens, signatures>>
      BY <2>1, <2>4 DEF apiVars
    <3>7. /\ file' \in [Wallets -> Seq(Account) \cup {None}]
          /\ walletStates' \in [Wallets -> Objects \cup {None}]
          /\ object' \in [Objects -> ObjectType] /\ derived' \in [Wallets -> SUBSET Account]
          /\ created' \subseteq Wallets /\ overlapped' \subseteq Wallets
          /\ created \subseteq created' /\ overlapped \subseteq overlapped'
          /\ ObjectsOK' /\ \A v \in Wallets : FileOK(v)'
          /\ \A u \in RTasks : Undisturbed(tasks[u], file, walletStates, created, overlapped,
                                           file', walletStates', created', overlapped')
      BY <2>4, NewWalletIsOK
    <3> QED
      BY <3>2, <3>4, <3>5, <3>6, <3>7, WalletStep
  <2> QED
    BY <1>2, <2>2, <2>3, <2>4 DEF InitWallet
<1> QED
  BY <1>1, <1>2

\* What marking a wallet does.
LEMMA Crossing ==
    ASSUME RingInv, NEW w \in Wallets, overlapped' = Crosses(w)
    PROVE  /\ overlapped' \subseteq Wallets /\ overlapped \subseteq overlapped'
           /\ overlapped' \subseteq overlapped \cup {w}
           /\ \A u \in RTasks : tasks[u].op \in Loading /\ tasks[u].w = w => w \in overlapped'
BY DEF RingInv, RingType, Crosses, Loading

\* A wallet is deleted.
LEMMA DeletionKeepsInv ==
    ASSUME RingInv, NEW w \in Wallets, DeleteWallet(w)
    PROVE  RingInv'
<1>0. /\ RingType /\ file \in [Wallets -> Seq(Account) \cup {None}] /\ created \subseteq Wallets
      /\ derived \in [Wallets -> SUBSET Account]
      /\ walletStates \in [Wallets -> Objects \cup {None}] /\ object \in [Objects -> ObjectType]
  BY DEF RingInv, RingType, ObjectType
<1>1. /\ overlapped' = Crosses(w) /\ tasks' = tasks
      /\ UNCHANGED <<storage, ringVars, apiKeys, tokens, signatures, object, created, derived>>
      /\ file' = [file EXCEPT ![w] = None] /\ walletStates' = [walletStates EXCEPT ![w] = None]
  BY DEF DeleteWallet, apiVars
<1>2. /\ overlapped' \subseteq Wallets /\ overlapped \subseteq overlapped'
      /\ \A u \in RTasks : tasks[u].op \in Loading /\ tasks[u].w = w => w \in overlapped'
  BY <1>1, Crossing
<1>3. /\ file' \in [Wallets -> Seq(Account) \cup {None}]
      /\ walletStates' \in [Wallets -> Objects \cup {None}]
      /\ file'[w] = None /\ walletStates'[w] = None
      /\ \A v \in Wallets : v # w => file'[v] = file[v] /\ walletStates'[v] = walletStates[v]
  BY <1>0, <1>1
<1>4. ASSUME NEW u \in RTasks
      PROVE  Undisturbed(tasks[u], file, walletStates, created, overlapped,
                         file', walletStates', created', overlapped')
  <2>1. tasks[u].op \in Loading => tasks[u].w \in created
    BY DEF RingInv, TaskOK, LoadOK
  <2>2. \A v \in Wallets : walletStates'[v] = walletStates[v] \/ walletStates'[v] # tasks[u].obj
        \/ tasks[u].obj = None
    BY <1>3
  <2> QED
    BY <1>0, <1>1, <1>2, <1>3, <2>1, <2>2 DEF Undisturbed
<1>5. ObjectsOK'
  BY <1>1, <1>3 DEF RingInv, ObjectsOK
<1>6. \A v \in Wallets : FileOK(v)'
  <2>1. TAKE v \in Wallets
  <2>2. FileOK(v)
    BY DEF RingInv
  <2> QED
    BY <1>1, <1>2, <1>3, <2>2 DEF FileOK
<1> QED
  BY <1>0, <1>1, <1>2, <1>3, <1>4, <1>5, <1>6, WalletChange

\* A load looks up the object of the wallet.
LEMMA BeginLoadKeepsInv ==
    ASSUME RingInv, NEW t \in RTasks, NEW w \in Wallets, NEW op \in Loading, BeginLoad(t, op, w)
    PROVE  RingInv'
<1>0. /\ RingType /\ file \in [Wallets -> Seq(Account) \cup {None}] /\ created \subseteq Wallets
      /\ derived \in [Wallets -> SUBSET Account] /\ tasks \in [RTasks -> TaskType]
      /\ walletStates \in [Wallets -> Objects \cup {None}] /\ object \in [Objects -> ObjectType]
  BY DEF RingInv, RingType, ObjectType
<1>1. /\ overlapped' = Crosses(w) /\ tasks[t] = NoTask /\ file[w] # None
      /\ UNCHANGED <<storage, ringVars, apiKeys, tokens, signatures, file, walletStates,
                     object, created, derived>>
  BY DEF BeginLoad, apiVars, IdleTask, OnFile
<1>2. /\ overlapped' \subseteq Wallets /\ overlapped \subseteq overlapped'
      /\ \A u \in RTasks : tasks[u].op \in Loading /\ tasks[u].w = w => w \in overlapped'
  BY <1>1, Crossing
<1>3. PICK p \in {"seed", "list"} : p = IF op = "derive" THEN "seed" ELSE "list"
  OBVIOUS
<1>4. PICK k : k = [NoTask EXCEPT !.op = op, !.w = w, !.obj = walletStates[w], !.pc = p]
  OBVIOUS
<1>5. k.op = op /\ k.pc = p /\ k.w = w /\ k.obj = walletStates[w]
  BY <1>4 DEF NoTask
<1>6. k \in TaskType
  <2>1. walletStates[w] \in Objects \cup {None} /\ op \in {"derive", "list"}
    BY <1>0 DEF Loading
  <2> QED
    BY <1>4, <2>1, NoTaskType DEF TaskType
<1>7. tasks' = [tasks EXCEPT ![t] = k]
  BY <1>0, <1>1, <1>3, <1>4 DEF BeginLoad
<1>8. w \in created /\ FileOK(w)
  BY <1>1 DEF RingInv, FileOK
<1>9. ShapeOK(k) /\ SignOK(k, file', created', overlapped', tokens) /\ ApiOK(k, created', tokens)
  BY <1>3, <1>5 DEF ShapeOK, SignOK, ApiOK, Loading
<1>10. LoadOK(k, file', walletStates', created', overlapped')
  BY <1>1, <1>3, <1>5, <1>8 DEF LoadOK
<1>11. OwnOK(k, walletStates')
  BY <1>1, <1>5 DEF OwnOK, RingInv, ObjectsOK
<1>12. ASSUME NEW u \in RTasks, u # t
       PROVE  /\ Undisturbed(tasks[u], file, walletStates, created, overlapped,
                             file', walletStates', created', overlapped')
              /\ k.op \in Loading /\ tasks[u].op \in Loading /\ tasks[u].w = k.w
                 => k.w \in overlapped'
  BY <1>1, <1>2, <1>5 DEF Undisturbed
<1>13. ObjectsOK'
  BY <1>1 DEF RingInv, ObjectsOK
<1>14. \A v \in Wallets : FileOK(v)'
  <2>1. TAKE v \in Wallets
  <2>2. FileOK(v)
    BY DEF RingInv
  <2> QED
    BY <1>1, <1>2, <2>2 DEF FileOK
<1>15. k.pc # "store" /\ k.pc # "seCreate"
  BY <1>3, <1>5
<1> QED
  BY <1>0, <1>1, <1>2, <1>6, <1>7, <1>9, <1>10, <1>11, <1>12, <1>13, <1>14, <1>15, WalletStep

\* A load fills the object of its wallet from the file.
LEMMA FillKeepsInv ==
    ASSUME RingInv, NEW t \in RTasks, NEW k \in TaskType, tasks' = [tasks EXCEPT ![t] = k],
           NEW w \in Wallets, w = tasks[t].w, tasks[t].op \in Loading, file[w] # None,
           NEW o \in Objects, Fresh(o), object' = [object EXCEPT ![o] = LoadedState(file[w])],
           walletStates' = [walletStates EXCEPT ![w] = o],
           UNCHANGED <<storage, ringVars, file, created, derived, overlapped, apiVars>>,
           \/ k = NoTask
           \/ /\ ShapeOK(k) /\ k.op = "derive" /\ k.pc = "update" /\ k.w = w /\ k.obj = o
              /\ Rising(k.list) /\ k.list # <<>> /\ Longer(k.list, file[w])
    PROVE  RingInv'
<1>0. /\ RingType /\ file \in [Wallets -> Seq(Account) \cup {None}] /\ created \subseteq Wallets
      /\ derived \in [Wallets -> SUBSET Account] /\ tasks \in [RTasks -> TaskType]
      /\ overlapped \subseteq Wallets
  BY DEF RingInv, RingType
<1>1. PICK l \in Seq(Account) : l = file[w] /\ Rising(l)
  BY <1>0 DEF RingInv, FileOK
<1>2. PICK s \in ObjectType : s = LoadedState(l) /\ ObjectOK(s) /\ s.accounts = l
  BY <1>1, LoadedIsOK
<1>3. /\ walletStates' \in [Wallets -> Objects \cup {None}]
      /\ object' \in [Objects -> ObjectType] /\ ObjectsOK'
      /\ o # None /\ walletStates'[w] = o /\ object'[o] = s
      /\ \A v \in Wallets : v # w =>
           /\ walletStates'[v] = walletStates[v]
           /\ walletStates[v] # None => object'[walletStates[v]] = object[walletStates[v]]
      /\ \A u \in RTasks : tasks[u].obj # o
      /\ \A v \in Wallets : walletStates'[v] = o => v = w
  <2>1. object' = [object EXCEPT ![o] = s]
    BY <1>1, <1>2
  <2>2. /\ ObjectOK(s) /\ Fresh(o) /\ walletStates' = [walletStates EXCEPT ![w] = o]
    BY <1>2
  <2> QED
    BY <2>1, <2>2, FreshObject, ZenonT(40)
<1>4. w \in created
  BY DEF RingInv, TaskOK, LoadOK
<1>5. UNCHANGED <<storage, ringVars, file, created, derived, overlapped, apiKeys, tokens,
                  signatures>>
  BY DEF apiVars
<1>6. \A v \in Wallets : FileOK(v)'
  <2>1. TAKE v \in Wallets
  <2>2. FileOK(v)
    BY DEF RingInv
  <2>3. CASE v = w
    BY <1>1, <1>2, <1>3, <1>4, <1>5, <2>2, <2>3 DEF FileOK
  <2>4. CASE v # w
    BY <1>3, <1>5, <2>2, <2>4 DEF FileOK
  <2> QED
    BY <2>3, <2>4
<1>7. ASSUME NEW u \in RTasks, u # t
      PROVE  /\ Undisturbed(tasks[u], file, walletStates, created, overlapped,
                            file', walletStates', created', overlapped')
             /\ tasks[u].op \in Loading /\ tasks[u].w = w => w \in overlapped
  <2>1. tasks[u].op \in Loading /\ tasks[u].w = w => w \in overlapped
    BY <1>7 DEF RingInv, Apart
  <2>2. tasks[u].op \in Loading => tasks[u].w \in Wallets
    BY <1>0 DEF RingInv, TaskOK, LoadOK
  <2> QED
    BY <1>3, <1>5, <2>1, <2>2 DEF Undisturbed
<1>8. /\ ShapeOK(k) /\ LoadOK(k, file', walletStates', created', overlapped')
      /\ OwnOK(k, walletStates') /\ SignOK(k, file', created', overlapped', tokens)
      /\ ApiOK(k, created', tokens) /\ k.pc # "store" /\ k.pc # "seCreate"
      /\ k.op \in Loading => k.w = w
  <2>1. CASE k = NoTask
    <3>1. NoTask.pc # "store" /\ NoTask.pc # "seCreate" /\ NoTask.op \notin Loading
      BY DEF NoTask, Loading
    <3> QED
      BY <2>1, <3>1, NoTaskIsPlain, PlainIsOK
  <2>2. CASE /\ ShapeOK(k) /\ k.op = "derive" /\ k.pc = "update" /\ k.w = w /\ k.obj = o
             /\ Rising(k.list) /\ k.list # <<>> /\ Longer(k.list, file[w])
    <3>1. LoadOK(k, file', walletStates', created', overlapped')
      BY <1>3, <1>4, <1>5, <2>2 DEF LoadOK
    <3>2. OwnOK(k, walletStates')
      BY <1>3, <2>2 DEF OwnOK
    <3> QED
      BY <2>2, <3>1, <3>2 DEF SignOK, ApiOK
  <2> QED
    BY <2>1, <2>2
<1>9. \A u \in RTasks : u # t =>
         /\ Undisturbed(tasks[u], file, walletStates, created, overlapped,
                        file', walletStates', created', overlapped')
         /\ k.op \in Loading /\ tasks[u].op \in Loading /\ tasks[u].w = k.w
            => k.w \in overlapped'
  BY <1>5, <1>7, <1>8
<1>10. /\ file' \in [Wallets -> Seq(Account) \cup {None}]
       /\ derived' \in [Wallets -> SUBSET Account]
       /\ created' \subseteq Wallets /\ overlapped' \subseteq Wallets
       /\ created \subseteq created' /\ overlapped \subseteq overlapped'
       /\ UNCHANGED <<storage, ringVars, apiKeys, tokens, signatures>>
  BY <1>0, <1>5
<1> QED
  BY <1>3, <1>6, <1>8, <1>9, <1>10, WalletStep

\* The accounts are listed, or the new one is derived.
LEMMA LoadsKeepInv ==
    ASSUME RingInv, NEW t \in RTasks,
           ListAccounts(t) \/ \E chain \in {"evm", "ed25519"} : Derive(t, chain)
    PROVE  RingInv'
<1>0. /\ RingType /\ file \in [Wallets -> Seq(Account) \cup {None}] /\ created \subseteq Wallets
      /\ tasks \in [RTasks -> TaskType] /\ tasks[t] \in TaskType
      /\ walletStates \in [Wallets -> Objects \cup {None}] /\ object \in [Objects -> ObjectType]
      /\ opKey \in Nat /\ made \in Nat /\ boundTo \in Wallets \cup {None} /\ TaskOK(t)
  BY DEF RingInv, RingType, ObjectType
<1>1. tasks[t].op \in Loading /\ tasks[t].w \in created /\ tasks[t].w \in Wallets
  <2>1. tasks[t].pc \in {"seed", "list"}
    BY DEF ListAccounts, Derive
  <2>2. tasks[t].op \in Loading
    BY <1>0, <2>1 DEF TaskOK, ShapeOK, Loading
  <2> QED
    BY <1>0, <2>2 DEF TaskOK, LoadOK
<1>2. CASE ListAccounts(t)
  <2>1. /\ End(t) /\ tasks' = [tasks EXCEPT ![t] = NoTask]
        /\ UNCHANGED <<storage, ringVars, file, created, derived, overlapped, apiVars>>
    BY <1>2 DEF ListAccounts, End
  <2>2. CASE UNCHANGED <<walletStates, object>>
    BY <1>0, <2>1, <2>2, EndStep DEF ringVars, walletVars
  <2>3. ASSUME NEW o \in Objects, Fresh(o), file[tasks[t].w] # None,
               object' = [object EXCEPT ![o] = LoadedState(file[tasks[t].w])],
               walletStates' = [walletStates EXCEPT ![tasks[t].w] = o]
        PROVE  RingInv'
    BY <1>1, <2>1, <2>3, NoTaskType, FillKeepsInv
  <2> QED
    BY <1>2, <2>2, <2>3 DEF ListAccounts, OnFile
<1>3. ASSUME NEW chain \in {"evm", "ed25519"}, Derive(t, chain)
      PROVE  RingInv'
  <2>1. /\ tasks[t].pc = "seed"
        /\ UNCHANGED <<storage, ringVars, file, created, derived, overlapped, apiVars>>
    BY <1>3 DEF Derive
  <2>2. CASE End(t) /\ UNCHANGED <<walletStates, object>>
    BY <1>0, <2>1, <2>2, EndStep DEF ringVars, walletVars
  <2>3. CASE /\ tasks[t].obj # None /\ file[tasks[t].w] # None
             /\ tasks' = [tasks EXCEPT ![t].pc = "update",
                  ![t].list = Append(object[tasks[t].obj].accounts,
                               [index |-> object[tasks[t].obj].nextIndex, chain |-> chain])]
             /\ UNCHANGED <<walletStates, object>>
    <3>1. PICK s \in ObjectType : s = object[tasks[t].obj] /\ ObjectOK(s)
      <4>1. tasks[t].obj \in Objects
        BY <1>0, <2>3 DEF TaskType
      <4> QED
        BY <1>0, <4>1 DEF RingInv, ObjectsOK
    <3>2. PICK l : l = Append(s.accounts, [index |-> s.nextIndex, chain |-> chain])
      OBVIOUS
    <3>3. l \in Seq(Account) /\ Rising(l) /\ l # <<>> /\ Longer(l, s.accounts)
      BY <3>1, <3>2, GrownIsOK
    <3>4. PICK k : k = [tasks[t] EXCEPT !.pc = "update", !.list = l]
      OBVIOUS
    <3>5. /\ k.op = tasks[t].op /\ k.pc = "update" /\ k.w = tasks[t].w /\ k.obj = tasks[t].obj
          /\ k.list = l
      BY <1>0, <3>4 DEF TaskType
    <3>6. k \in TaskType
      BY <1>0, <3>3, <3>4 DEF TaskType
    <3>7. tasks' = [tasks EXCEPT ![t] = k]
      BY <1>0, <2>3, <3>1, <3>2, <3>4
    <3>8. tasks[t].op = "derive"
      BY <1>0, <2>1 DEF TaskOK, ShapeOK
    <3>9. ShapeOK(k) /\ SignOK(k, file, created, overlapped, tokens) /\ ApiOK(k, created, tokens)
      BY <3>5, <3>8 DEF ShapeOK, SignOK, ApiOK, Loading
    <3>10. OwnOK(k, walletStates)
      BY <1>0, <3>5 DEF TaskOK, OwnOK
    <3>11. LoadOK(k, file, walletStates, created, overlapped)
      <4>1. tasks[t].w \notin overlapped =>
               /\ file[tasks[t].w] # None /\ walletStates[tasks[t].w] = tasks[t].obj
               /\ s.accounts = file[tasks[t].w]
        BY <1>0, <1>1, <2>3, <3>1 DEF TaskOK, LoadOK, RingInv, FileOK
      <4> QED
        BY <1>1, <2>3, <3>3, <3>5, <4>1 DEF LoadOK
    <3>12. k.pc # "store" /\ GateStep(t, k) /\ UNCHANGED <<storage, gateFile, gateKeys>>
           /\ UNCHANGED walletVars /\ opKey' \in Nat /\ made' \in Nat
           /\ boundTo' \in Wallets \cup {None}
      BY <1>0, <2>1, <2>3, <3>5 DEF GateStep, ringVars, walletVars
    <3>13. k.op \in Loading => tasks[t].op \in Loading /\ tasks[t].w = k.w
      BY <3>5
    <3> QED
      BY <3>6, <3>7, <3>9, <3>10, <3>11, <3>12, <3>13, QuietTask
  <2>4. ASSUME NEW o \in Objects, Fresh(o), file[tasks[t].w] # None, tasks[t].obj = None,
               object' = [object EXCEPT ![o] = LoadedState(file[tasks[t].w])],
               walletStates' = [walletStates EXCEPT ![tasks[t].w] = o],
               tasks' = [tasks EXCEPT ![t].pc = "update", ![t].obj = o,
                  ![t].list = Append(LoadedState(file[tasks[t].w]).accounts,
                               [index |-> LoadedState(file[tasks[t].w]).nextIndex,
                                chain |-> chain])]
        PROVE  RingInv'
    <3>1. PICK f \in Seq(Account) : f = file[tasks[t].w] /\ Rising(f)
      BY <1>0, <1>1, <2>4 DEF RingInv, FileOK
    <3>2. PICK s \in ObjectType : s = LoadedState(f) /\ ObjectOK(s) /\ s.accounts = f
      BY <3>1, LoadedIsOK
    <3>3. PICK l : l = Append(s.accounts, [index |-> s.nextIndex, chain |-> chain])
      OBVIOUS
    <3>4. l \in Seq(Account) /\ Rising(l) /\ l # <<>> /\ Longer(l, f)
      BY <3>2, <3>3, GrownIsOK
    <3>5. PICK k : k = [tasks[t] EXCEPT !.pc = "update", !.obj = o, !.list = l]
      OBVIOUS
    <3>6. k.op = tasks[t].op /\ k.pc = "update" /\ k.w = tasks[t].w /\ k.obj = o /\ k.list = l
      BY <1>0, <3>5 DEF TaskType
    <3>7. k \in TaskType
      BY <1>0, <3>4, <3>5 DEF TaskType
    <3>8. tasks' = [tasks EXCEPT ![t] = k]
      BY <1>0, <2>4, <3>1, <3>2, <3>3, <3>5
    <3>9. tasks[t].op = "derive"
      BY <1>0, <2>1 DEF TaskOK, ShapeOK
    <3>10. ShapeOK(k)
      BY <3>6, <3>9 DEF ShapeOK, Loading
    <3>11. Longer(k.list, file[tasks[t].w])
      BY <3>1, <3>4, <3>6
    <3> QED
      BY <1>1, <2>1, <2>4, <3>4, <3>6, <3>7, <3>8, <3>9, <3>10, <3>11, FillKeepsInv
  <2> QED
    BY <1>3, <2>2, <2>3, <2>4 DEF Derive, OnFile
<1> QED
  BY <1>2, <1>3

\* The account is on file.
LEMMA DerivedKeepsInv ==
    ASSUME RingInv, NEW t \in RTasks, tasks[t].pc \in {"update", "write"}, Derived(t)
    PROVE  RingInv'
<1>0. /\ RingType /\ file \in [Wallets -> Seq(Account) \cup {None}] /\ created \subseteq Wallets
      /\ tasks \in [RTasks -> TaskType] /\ tasks[t] \in TaskType
      /\ derived \in [Wallets -> SUBSET Account] /\ overlapped \subseteq Wallets
      /\ walletStates \in [Wallets -> Objects \cup {None}] /\ object \in [Objects -> ObjectType]
      /\ TaskOK(t)
  BY DEF RingInv, RingType, ObjectType
<1>1. tasks[t].op = "derive"
  BY <1>0 DEF TaskOK, ShapeOK
<1>2. PICK w \in Wallets : w = tasks[t].w /\ w \in created
  BY <1>0, <1>1 DEF TaskOK, LoadOK, Loading
<1>3. PICK o \in Objects : o = tasks[t].obj /\ o # None
  BY <1>0, <1>1 DEF TaskOK, LoadOK, Loading, TaskType
<1>4. PICK l \in Seq(Account) : l = tasks[t].list /\ Rising(l) /\ l # <<>>
  BY <1>0, <1>1 DEF TaskOK, LoadOK, Loading, TaskType
<1>5. w \notin overlapped => /\ file[w] # None /\ walletStates[w] = o /\ Longer(l, file[w])
  BY <1>0, <1>1, <1>2, <1>3, <1>4 DEF TaskOK, LoadOK, Loading
<1>6. \A v \in Wallets : v # w => walletStates[v] # o
  BY <1>0, <1>2, <1>3 DEF TaskOK, OwnOK
<1>7. PICK n \in Nat : n = Len(l) /\ n # 0 /\ n \in 1 .. Len(l)
  <2>1. Len(l) \in Nat /\ Len(l) # 0
    BY <1>4
  <2> QED
    BY <2>1
<1>8. PICK a \in Account : a = l[n] /\ a.index \in Nat
  <2>1. l[n] \in Account
    BY <1>7
  <2> QED
    BY <2>1 DEF Account
<1>9. PICK s \in ObjectType : /\ s = [nextIndex |-> a.index + 1, accounts |-> l]
                              /\ s.nextIndex = a.index + 1 /\ s.accounts = l
  <2>1. PICK m \in Nat : m = a.index + 1
    BY <1>8
  <2>2. [nextIndex |-> m, accounts |-> l] \in ObjectType
    BY DEF ObjectType
  <2> QED
    BY <2>1, <2>2
<1>10. ObjectOK(s)
  <2>1. ASSUME NEW i \in 1 .. Len(l)
        PROVE  l[i].index < a.index + 1
    <3>1. l[i] \in Account /\ l[i].index \in Nat
      <4>1. l[i] \in Account
        OBVIOUS
      <4> QED
        BY <4>1 DEF Account
    <3>2. CASE i = n
      BY <1>8, <3>1, <3>2
    <3>3. CASE i # n
      <4>1. i < n
        BY <1>7, <3>3
      <4>2. l[i].index < l[n].index
        BY <1>4, <1>7, <4>1 DEF Rising
      <4> QED
        BY <1>8, <3>1, <4>2
    <3> QED
      BY <3>2, <3>3
  <2> QED
    BY <1>4, <1>9, <2>1 DEF ObjectOK
<1>11. /\ file' = [file EXCEPT ![w] = l] /\ object' = [object EXCEPT ![o] = s]
       /\ derived' = [derived EXCEPT ![w] = @ \cup {a}] /\ tasks' = [tasks EXCEPT ![t] = NoTask]
       /\ UNCHANGED <<storage, ringVars, walletStates, created, overlapped>>
       /\ UNCHANGED <<apiKeys, tokens, signatures>>
  BY <1>2, <1>3, <1>4, <1>7, <1>8, <1>9 DEF Derived, End, apiVars
<1>12. /\ file' \in [Wallets -> Seq(Account) \cup {None}] /\ file'[w] = l
       /\ \A v \in Wallets : v # w => file'[v] = file[v] /\ derived'[v] = derived[v]
       /\ object' \in [Objects -> ObjectType] /\ object'[o] = s
       /\ \A p \in Objects : p # o => object'[p] = object[p]
       /\ derived' \in [Wallets -> SUBSET Account] /\ derived'[w] = derived[w] \cup {a}
  <2>1. /\ file' \in [Wallets -> Seq(Account) \cup {None}] /\ file'[w] = l
        /\ \A v \in Wallets : v # w => file'[v] = file[v]
    BY <1>0, <1>11
  <2>2. /\ object' \in [Objects -> ObjectType] /\ object'[o] = s
        /\ \A p \in Objects : p # o => object'[p] = object[p]
    BY <1>0, <1>11
  <2>3. /\ derived' \in [Wallets -> SUBSET Account] /\ derived'[w] = derived[w] \cup {a}
        /\ \A v \in Wallets : v # w => derived'[v] = derived[v]
    BY <1>0, <1>11
  <2> QED
    BY <2>1, <2>2, <2>3
<1>13. ObjectsOK'
  BY <1>10, <1>11, <1>12 DEF RingInv, ObjectsOK
<1>14. l # None
  BY <1>4, KeyRingAssumption DEF Account
<1>15. \A v \in Wallets : FileOK(v)'
  <2>1. TAKE v \in Wallets
  <2>2. FileOK(v)
    BY DEF RingInv
  <2>3. CASE v # w
    <3>1. walletStates[v] # None => object'[walletStates[v]] = object[walletStates[v]]
      BY <1>0, <1>6, <1>12, <2>3
    <3> QED
      BY <1>11, <1>12, <2>2, <2>3, <3>1 DEF FileOK
  <2>4. CASE v = w
    <3>1. ASSUME w \notin overlapped
          PROVE  derived'[w] = {l[i] : i \in 1 .. Len(l)}
      <4>1. PICK f \in Seq(Account) : f = file[w] /\ Longer(l, f)
        BY <1>0, <1>5, <3>1
      <4>2. PICK m \in Nat : m = Len(f) /\ n = m + 1 /\ \A i \in 1 .. m : l[i] = f[i]
        <5>1. Len(f) \in Nat
          OBVIOUS
        <5> QED
          BY <1>7, <4>1, <5>1 DEF Longer
      <4>3. derived[w] = {f[i] : i \in 1 .. m}
        BY <1>5, <2>2, <2>4, <3>1, <4>1, <4>2 DEF FileOK
      <4>4. \A i \in 1 .. n : i \in 1 .. m \/ i = n
        BY <4>2
      <4>5. \A i \in 1 .. m : i \in 1 .. n
        BY <4>2
      <4>6. ASSUME NEW x \in derived'[w]
            PROVE  \E i \in 1 .. Len(l) : x = l[i]
        BY <1>7, <1>8, <1>12, <4>2, <4>3, <4>5, <4>6
      <4>7. ASSUME NEW i \in 1 .. Len(l)
            PROVE  l[i] \in derived'[w]
        BY <1>7, <1>8, <1>12, <4>2, <4>3, <4>4, <4>7
      <4> QED
        BY <4>6, <4>7
    <3>2. w \notin overlapped /\ walletStates[w] # None => object'[walletStates[w]].accounts = l
      BY <1>5, <1>9, <1>12
    <3>3. /\ file'[v] = l /\ l # None /\ v \in created' /\ Rising(file'[v])
          /\ overlapped' = overlapped /\ walletStates' = walletStates
      BY <1>2, <1>4, <1>11, <1>12, <1>14, <2>4
    <3>4. v \notin overlapped' =>
             /\ derived'[v] = {file'[v][i] : i \in 1 .. Len(file'[v])}
             /\ walletStates'[v] # None => object'[walletStates'[v]].accounts = file'[v]
      BY <2>4, <3>1, <3>2, <3>3
    <3> QED
      BY <3>3, <3>4 DEF FileOK
  <2> QED
    BY <2>3, <2>4
<1>16. ASSUME NEW u \in RTasks, u # t
       PROVE  Undisturbed(tasks[u], file, walletStates, created, overlapped,
                          file', walletStates', created', overlapped')
  <2>1. tasks[u].op \in Loading /\ tasks[u].w = w => w \in overlapped
    BY <1>1, <1>2, <1>16 DEF RingInv, Apart, Loading
  <2>2. tasks[u].op \in Loading => tasks[u].w \in Wallets
    BY <1>0 DEF RingInv, TaskOK, LoadOK
  <2> QED
    BY <1>0, <1>5, <1>11, <1>12, <2>1, <2>2 DEF Undisturbed
<1>17. /\ NoTask \in TaskType /\ NoTask.op \notin Loading
       /\ NoTask.pc # "seCreate" /\ NoTask.pc # "store"
  BY NoTaskType DEF NoTask, Loading
<1>18. /\ ShapeOK(NoTask) /\ LoadOK(NoTask, file', walletStates', created', overlapped')
       /\ OwnOK(NoTask, walletStates') /\ SignOK(NoTask, file', created', overlapped', tokens)
       /\ ApiOK(NoTask, created', tokens)
  BY NoTaskIsPlain, PlainIsOK
<1>19. /\ walletStates' \in [Wallets -> Objects \cup {None}]
       /\ created' \subseteq Wallets /\ overlapped' \subseteq Wallets
       /\ created \subseteq created' /\ overlapped \subseteq overlapped'
       /\ UNCHANGED <<storage, ringVars, apiKeys, tokens, signatures>>
  BY <1>0, <1>11
<1> QED
  BY <1>11, <1>12, <1>13, <1>15, <1>16, <1>17, <1>18, <1>19, WalletStep

\* The write of the account list ends, one way or another.
LEMMA UpdatesKeepInv ==
    ASSUME RingInv, NEW t \in RTasks, UpdateWritten(t) \/ UpdateMemory(t) \/ UpdateFails(t)
    PROVE  RingInv'
<1>0. /\ RingType /\ file \in [Wallets -> Seq(Account) \cup {None}] /\ created \subseteq Wallets
      /\ tasks \in [RTasks -> TaskType] /\ tasks[t] \in TaskType
      /\ derived \in [Wallets -> SUBSET Account] /\ overlapped \subseteq Wallets
      /\ walletStates \in [Wallets -> Objects \cup {None}] /\ object \in [Objects -> ObjectType]
      /\ opKey \in Nat /\ made \in Nat /\ boundTo \in Wallets \cup {None} /\ TaskOK(t)
  BY DEF RingInv, RingType, ObjectType
<1>1. CASE UpdateWritten(t)
  BY <1>1, DerivedKeepsInv DEF UpdateWritten
<1>2. CASE UpdateMemory(t)
  <2>1. CASE Derived(t)
    BY <1>2, <2>1, DerivedKeepsInv DEF UpdateMemory
  <2>2. CASE End(t) /\ UNCHANGED <<storage, ringVars, walletVars>>
    BY <1>0, <2>2, EndStep DEF ringVars
  <2> QED
    BY <1>2, <2>1, <2>2 DEF UpdateMemory
<1>3. CASE UpdateFails(t)
  <2>1. /\ tasks[t].pc = "write" /\ End(t)
        /\ UNCHANGED <<storage, ringVars, walletStates, object, created, derived>>
        /\ UNCHANGED <<apiKeys, tokens, signatures>>
    BY <1>3 DEF UpdateFails, apiVars
  <2>2. CASE UNCHANGED <<file, overlapped>>
    BY <1>0, <2>1, <2>2, EndStep DEF ringVars, walletVars, apiVars
  <2>3. CASE /\ file' = [file EXCEPT ![tasks[t].w] = None]
             /\ overlapped' = overlapped \cup {tasks[t].w}
    <3>1. PICK w \in Wallets : w = tasks[t].w
      BY <1>0, <2>1 DEF TaskOK, ShapeOK, LoadOK, Loading
    <3>2. /\ file' \in [Wallets -> Seq(Account) \cup {None}]
          /\ \A v \in Wallets : v # w => file'[v] = file[v]
          /\ file'[w] = None /\ w \in overlapped'
          /\ overlapped' \subseteq Wallets /\ overlapped \subseteq overlapped'
      BY <1>0, <2>3, <3>1
    <3>3. \A v \in Wallets : FileOK(v)'
      <4>1. TAKE v \in Wallets
      <4>2. FileOK(v)
        BY DEF RingInv
      <4> QED
        BY <2>1, <3>2, <4>2 DEF FileOK
    <3>4. ASSUME NEW u \in RTasks, u # t
          PROVE  Undisturbed(tasks[u], file, walletStates, created, overlapped,
                             file', walletStates', created', overlapped')
      <4>1. tasks[u].op \in Loading => tasks[u].w \in Wallets
        BY <1>0 DEF RingInv, TaskOK, LoadOK
      <4> QED
        BY <1>0, <2>1, <3>2, <4>1 DEF Undisturbed
    <3>5. /\ NoTask \in TaskType /\ NoTask.op \notin Loading
          /\ NoTask.pc # "seCreate" /\ NoTask.pc # "store"
      BY NoTaskType DEF NoTask, Loading
    <3>6. /\ ShapeOK(NoTask) /\ LoadOK(NoTask, file', walletStates', created', overlapped')
          /\ OwnOK(NoTask, walletStates') /\ SignOK(NoTask, file', created', overlapped', tokens)
          /\ ApiOK(NoTask, created', tokens)
      BY NoTaskIsPlain, PlainIsOK
    <3>7. /\ walletStates' \in [Wallets -> Objects \cup {None}] /\ object' \in [Objects -> ObjectType]
          /\ derived' \in [Wallets -> SUBSET Account]
          /\ created' \subseteq Wallets /\ created \subseteq created'
          /\ UNCHANGED <<storage, ringVars, apiKeys, tokens, signatures>>
          /\ tasks' = [tasks EXCEPT ![t] = NoTask]
      BY <1>0, <2>1 DEF End
    <3>8. ObjectsOK'
      BY <2>1 DEF RingInv, ObjectsOK
    <3> QED
      BY <3>2, <3>3, <3>4, <3>5, <3>6, <3>7, <3>8, WalletStep
  <2> QED
    BY <1>3, <2>2, <2>3 DEF UpdateFails
<1> QED
  BY <1>1, <1>2, <1>3

\* The process starts again.
LEMMA RestartKeepsInv ==
    ASSUME RingInv, Restart
    PROVE  RingInv'
<1>0. /\ RingType /\ file \in [Wallets -> Seq(Account) \cup {None}] /\ overlapped \subseteq Wallets
      /\ tasks \in [RTasks -> TaskType] /\ apiKeys \in [ApiIds -> Nat]
  BY DEF RingInv, RingType
<1>1. /\ opKey' = 0 /\ inflight' = None /\ walletStates' = [w \in Wallets |-> None]
      /\ tasks' = [t \in RTasks |-> NoTask]
      /\ UNCHANGED <<storage, made, gateFile, gateKeys, boundTo, object, stamps, created,
                     derived, tokens, signatures>>
  BY DEF Restart
<1>2. PICK cut : /\ cut \subseteq Wallets /\ overlapped' = overlapped \cup cut
                 /\ file' = [w \in Wallets |-> IF w \in cut THEN None ELSE file[w]]
  <2>1. PICK cut \in SUBSET {tasks[t].w : t \in {u \in RTasks : tasks[u].pc = "write"}} :
           /\ overlapped' = overlapped \cup cut
           /\ file' = [w \in Wallets |-> IF w \in cut THEN None ELSE file[w]]
    BY DEF Restart
  <2>2. \A u \in RTasks : tasks[u].pc = "write" => tasks[u].w \in Wallets
    BY <1>0 DEF RingInv, RingType, TaskOK, ShapeOK, LoadOK, Loading
  <2>3. cut \subseteq Wallets
    BY <2>2
  <2> QED
    BY <2>1, <2>3
<1>3. apiKeys' \in [ApiIds -> Nat] /\ \A id \in ApiIds : apiKeys'[id] \in {0, apiKeys[id]}
  BY <1>0 DEF Restart
<1>4. /\ file' \in [Wallets -> Seq(Account) \cup {None}] /\ overlapped' \subseteq Wallets
      /\ \A v \in Wallets : file'[v] = None \/ file'[v] = file[v]
  BY <1>0, <1>2
<1>5. tasks' \in [RTasks -> TaskType] /\ walletStates' \in [Wallets -> Objects \cup {None}]
  BY <1>1, NoTaskType
<1>6. RingType'
  BY <1>0, <1>1, <1>3, <1>4, <1>5 DEF RingType
<1>7. NoTask.pc = "idle" /\ NoTask.op \notin Loading
  BY DEF NoTask, Loading
<1>8. GateOK' /\ ObjectsOK'
  BY <1>1, <1>7 DEF RingInv, GateOK, ObjectsOK
<1>9. TokensOK'
  <2>1. ASSUME NEW id \in ApiIds, apiKeys'[id] # 0
        PROVE  /\ apiKeys'[id] \in 1 .. Len(tokens')
               /\ tokens'[apiKeys'[id]].id = id
               /\ tokens'[apiKeys'[id]].state = "handedOut"
    BY <1>1, <1>3, <2>1 DEF RingInv, TokensOK
  <2> QED
    BY <1>1, <2>1 DEF RingInv, TokensOK
<1>10. SignaturesAreEntitled'
  BY <1>1, <1>2 DEF RingInv, SignaturesAreEntitled
<1>11. \A u \in RTasks : TaskOK(u)'
  BY <1>1, NoTaskIsPlain, PlainIsOK DEF TaskOK
<1>12. \A u, v \in RTasks : Apart(u, v)'
  BY <1>1, <1>7 DEF Apart
<1>13. \A v \in Wallets : FileOK(v)'
  <2>1. TAKE v \in Wallets
  <2>2. FileOK(v) /\ walletStates'[v] = None /\ (v \notin overlapped' => v \notin overlapped)
    BY <1>1, <1>2 DEF RingInv
  <2> QED
    BY <1>1, <1>4, <2>2 DEF FileOK
<1> QED
  BY <1>6, <1>8, <1>9, <1>10, <1>11, <1>12, <1>13 DEF RingInv

\* It holds at the start.
LEMMA RInitIsOK == RInit => RingInv
<1> SUFFICES ASSUME RInit PROVE RingInv
  OBVIOUS
<1>1. /\ storage \in {"memory", "file"} /\ opKey = 0 /\ made = 0
      /\ gateFile = FALSE /\ inflight = None /\ gateKeys = 0 /\ boundTo = None
      /\ file = [w \in Wallets |-> None] /\ walletStates = [w \in Wallets |-> None]
      /\ object = [o \in Objects |-> LoadedState(<<>>)]
      /\ tasks = [t \in RTasks |-> NoTask] /\ derived = [w \in Wallets |-> {}]
      /\ created = {} /\ overlapped = {}
      /\ apiKeys = [id \in ApiIds |-> 0] /\ tokens = <<>> /\ signatures = {}
  BY DEF RInit
<1>2. LoadedState(<<>>) \in ObjectType /\ ObjectOK(LoadedState(<<>>))
  <2>1. <<>> \in Seq(Account) /\ Rising(<<>>)
    BY DEF Rising
  <2> QED
    BY <2>1, LoadedIsOK
<1>3. RingType
  <2>1. tasks \in [RTasks -> TaskType] /\ object \in [Objects -> ObjectType]
    BY <1>1, <1>2, NoTaskType
  <2>2. tokens \in Seq(Token) /\ derived \in [Wallets -> SUBSET Account]
    BY <1>1
  <2> QED
    BY <1>1, <2>1, <2>2 DEF RingType, ObjectType
<1>4. NoTask.pc = "idle" /\ NoTask.op \notin Loading
  BY DEF NoTask, Loading
<1>5. GateOK
  BY <1>1, <1>4 DEF GateOK
<1>6. ObjectsOK
  BY <1>1, <1>2 DEF ObjectsOK
<1>7. TokensOK
  BY <1>1 DEF TokensOK
<1>8. SignaturesAreEntitled
  BY <1>1 DEF SignaturesAreEntitled
<1>9. \A u \in RTasks : TaskOK(u)
  BY <1>1, NoTaskIsPlain, PlainIsOK DEF TaskOK
<1>10. \A u, v \in RTasks : Apart(u, v)
  BY <1>1, <1>4 DEF Apart
<1>11. \A v \in Wallets : FileOK(v)
  BY <1>1 DEF FileOK
<1> QED
  BY <1>3, <1>5, <1>6, <1>7, <1>8, <1>9, <1>10, <1>11 DEF RingInv

\* Every step keeps it.
LEMMA RingStepsKeepInv == RingInv /\ [RNext]_rvars => RingInv'
<1> SUFFICES ASSUME RingInv, [RNext]_rvars PROVE RingInv'
  OBVIOUS
<1>1. ASSUME NEW t \in RTasks,
             \/ BeginKey(t, "createKey") \/ BeginKey(t, "rotate") \/ Touch(t) \/ Install(t)
             \/ BeginStamp(t) \/ EndStamp(t) \/ BeginInit(t) \/ InitBind(t) \/ InitKey(t)
      PROVE  RingInv'
  BY <1>1, KeyStepsKeepInv
<1>2. ASSUME NEW t \in RTasks, Gate(t) \/ GateKeyEnds(t)
      PROVE  RingInv'
  BY <1>2, GateStepsKeepInv
<1>3. ASSUME NEW t \in RTasks,
             \/ \E w \in Wallets, id \in ApiIds : BeginApiKey(t, w, id)
             \/ \E w \in Wallets : BeginSign(t, w)
             \/ \E n \in DOMAIN tokens : BeginSignWithApiKey(t, n)
             \/ Update(t)
      PROVE  RingInv'
  BY <1>3, BeginningsKeepInv
<1>4. ASSUME NEW t \in RTasks, NEW w \in Wallets, NEW op \in Loading, BeginLoad(t, op, w)
      PROVE  RingInv'
  BY <1>4, BeginLoadKeepsInv
<1>5. ASSUME NEW t \in RTasks,
             ListAccounts(t) \/ \E chain \in {"evm", "ed25519"} : Derive(t, chain)
      PROVE  RingInv'
  BY <1>5, LoadsKeepInv
<1>6. ASSUME NEW t \in RTasks, EncryptApiKey(t) \/ ApiKeyStored(t)
      PROVE  RingInv'
  BY <1>6, EncryptKeepsInv, StoreKeepsInv
<1>7. ASSUME NEW t \in RTasks, NEW i, ResolveAndSign(t, i)
      PROVE  RingInv'
  BY <1>7, SigningKeepsInv
<1>8. ASSUME NEW t \in RTasks, UpdateWritten(t) \/ UpdateMemory(t) \/ UpdateFails(t)
      PROVE  RingInv'
  BY <1>8, UpdatesKeepInv
<1>9. ASSUME \/ \E w \in Wallets, o \in Objects : CreateWallet(w, o)
             \/ \E t \in RTasks : InitWallet(t)
      PROVE  RingInv'
  BY <1>9, CreationKeepsInv
<1>10. ASSUME NEW w \in Wallets, DeleteWallet(w)
       PROVE  RingInv'
  BY <1>10, DeletionKeepsInv
<1>11. ASSUME NEW id \in ApiIds, RevokeApiKey(id)
       PROVE  RingInv'
  BY <1>11, RevokeKeepsInv
<1>12. CASE Restart
  BY <1>12, RestartKeepsInv
<1>13. CASE UNCHANGED rvars
  <2>1. /\ UNCHANGED <<storage, ringVars, apiKeys, tokens, signatures>>
        /\ UNCHANGED <<file, walletStates, object, tasks, created, derived, overlapped>>
    BY <1>13 DEF rvars, ringVars
  <2>2. \A u \in RTasks : Undisturbed(tasks[u], file, walletStates, created, overlapped,
                                      file', walletStates', created', overlapped')
    BY <2>1 DEF Undisturbed
  <2>3. ObjectsOK' /\ \A w \in Wallets : FileOK(w)'
    <3>1. ObjectsOK'
      BY <2>1 DEF RingInv, ObjectsOK
    <3>2. \A w \in Wallets : FileOK(w)'
      BY <2>1 DEF RingInv, FileOK
    <3> QED
      BY <3>1, <3>2
  <2>4. /\ file' \in [Wallets -> Seq(Account) \cup {None}]
        /\ walletStates' \in [Wallets -> Objects \cup {None}]
        /\ object' \in [Objects -> ObjectType] /\ derived' \in [Wallets -> SUBSET Account]
        /\ created' \subseteq Wallets /\ overlapped' \subseteq Wallets
        /\ created \subseteq created' /\ overlapped \subseteq overlapped'
    BY <2>1 DEF RingInv, RingType, ObjectType
  <2> QED
    BY <2>1, <2>2, <2>3, <2>4, WalletChange
<1>14. CASE \E t \in RTasks :
              \/ \E w \in Wallets :
                    \/ \E op \in {"derive", "list"} : BeginLoad(t, op, w)
                    \/ \E id \in ApiIds : BeginApiKey(t, w, id)
                    \/ BeginSign(t, w)
              \/ \E i \in 0 .. MaxAccounts : ResolveAndSign(t, i)
  BY <1>3, <1>4, <1>7, <1>14 DEF Loading
<1> QED
  BY <1>1, <1>2, <1>3, <1>5, <1>6, <1>8, <1>9, <1>10, <1>11, <1>12, <1>13, <1>14 DEF RNext

\* So it always holds.
LEMMA RingKeepsInv == RSpec => []RingInv
<1>1. RInit => RingInv
  BY RInitIsOK
<1>2. RingInv /\ [RNext]_rvars => RingInv'
  BY RingStepsKeepInv
<1> QED
  BY <1>1, <1>2, PTL DEF RSpec

\* Whatever overlaps, fails or restarts, every account that deriveAccount handed
\* out is in the wallet's file, unless loads of that wallet overlapped or its
\* file was cut off in a write.
THEOREM DerivedIsAlwaysKept == RSpec => []DerivedIsKept
<1>1. RingInv => DerivedIsKept
  <2> SUFFICES ASSUME RingInv, NEW w \in Wallets \ overlapped, OnFile(w), NEW a \in derived[w]
               PROVE  \E i \in 1 .. Len(file[w]) : file[w][i] = a
    BY DEF DerivedIsKept
  <2>1. derived[w] = {file[w][i] : i \in 1 .. Len(file[w])}
    BY DEF RingInv, FileOK, OnFile
  <2> QED
    BY <2>1
<1> QED
  BY <1>1, RingKeepsInv, PTL

\* Signatures are made with accounts of the wallet and by those entitled to
\* them when they asked, and overlapping prompts share one gate key.
THEOREM KeysAreAlwaysEntitled == RSpec => []KeysAreEntitled
<1>1. RingInv => KeysAreEntitled
  <2>1. RingInv => OneGateKey
    BY DEF RingInv, GateOK, OneGateKey
  <2>2. RingInv => SignaturesAreEntitled
    BY DEF RingInv
  <2> QED
    BY <2>1, <2>2 DEF KeysAreEntitled
<1> QED
  BY <1>1, RingKeepsInv, PTL

=============================================================================
