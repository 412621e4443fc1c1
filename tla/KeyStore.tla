------------------------------ MODULE KeyStore ------------------------------
(***************************************************************************)
(* What the key manager keeps on disk (packages/keys/src): the vault       *)
(* secret, resolved by the Secure Enclave or the software provider, the    *)
(* file vault encrypted under it, the legacy kv entries that a read moves  *)
(* into the vault, the keys that are created on first use and the admin    *)
(* key pair.                                                               *)
(*                                                                         *)
(* A process opens the store (createKeyManager, then initialize) and runs  *)
(* calls that interleave at their awaits.  Bun.write is not atomic: a write*)
(* that fails or is cut off by a crash leaves the old file, the new one or *)
(* a torn one.  Secret values and private keys are numbered in the order   *)
(* they are generated.                                                     *)
(***************************************************************************)
EXTENDS Integers, FiniteSets

CONSTANTS
    Calls,          \* names for calls under way
    MaxGen,         \* bound: secrets and keys generated
    MaxCrashes      \* bound: crashes of the process

ASSUME KeyStoreAssumption == MaxGen \in Nat /\ MaxCrashes \in Nat

VARIABLES
    files,      \* the files of the vault secret providers
    vault,      \* dataDir/secrets: name -> entry
    legacy,     \* dataDir/kv: name -> value
    signet,       \* the process that has the data directory open
    calls,      \* the calls under way
    gen,        \* history: values generated so far
    crashes,    \* history: crashes so far
    promised,   \* history: name -> the value callers were told it has
    disputed,   \* history: names two calls used at the same time, or whose
                \* old value was unreadable when it was replaced
    handed      \* history: the keys created on first use that were returned

kvars == <<files, vault, legacy, signet, calls, gen, crashes, promised,
           disputed, handed>>

Absent == 0
Torn == -1

\* The kv names: the admin pair, a key created on first use (a database or
\* an XMTP identity key) and a name callers set themselves.
Names == {"admin-key", "admin-key-pub", "db-key", "user"}

SecretFiles == {"vault.key", "vault-passphrase", "se-vault-keyref",
                "se-vault-pubkey", "vault-sealed-box"}

NoEntry == [val |-> Absent, key |-> Absent]
TornEntry == [val |-> Torn, key |-> Absent]

NoCall == [op |-> "none", pc |-> "idle", name |-> "user", val |-> Absent]

Down == [phase |-> "down", provider |-> "none", file |-> "none",
         cached |-> Absent, adminPub |-> Absent, adminPriv |-> Absent]

-----------------------------------------------------------------------------
(* The vault secret.                                                       *)

Exists(f) == files[f] # Absent

\* detectPlatform and findSignerBinary: either may answer otherwise when the
\* signer is installed, moved or broken between two starts.
Platforms == {"secure-enclave", "software-vault"}
SignerFound == BOOLEAN

\* runSigner: a parsed answer, or a timeout, a cancellation, an exit code, an
\* answer that does not parse or a process that does not start.
SignerAnswers == {"ok", "error"}

\* validateSeVaultArtifacts
ArtifactState ==
    IF Exists("se-vault-keyref") /\ Exists("vault-sealed-box")
    THEN "existing"
    ELSE IF \A f \in {"se-vault-keyref", "vault-sealed-box",
                      "se-vault-pubkey"} : ~Exists(f)
         THEN "fresh"
         ELSE "incomplete"

\* Mutant: the platform decides even where a software secret exists.
ProviderByPlatform(platform, signerFound) ==
    IF platform = "secure-enclave" /\ signerFound THEN "secure-enclave"
    ELSE "software"

\* resolveVaultSecretProvider: the files decide before the platform does.
Provider(platform, signerFound) ==
    IF Exists("vault.key") \/ Exists("vault-passphrase") THEN "software"
    ELSE CASE ArtifactState = "incomplete" -> "error"
           [] ArtifactState = "existing" ->
                 IF signerFound THEN "secure-enclave" ELSE "error"
           [] ArtifactState = "fresh" ->
                 IF platform = "secure-enclave" /\ signerFound
                 THEN "secure-enclave" ELSE "software"

\* createKeyManager picks the provider.  The platform and the signer binary
\* may differ from one start to the next; an error provider fails the start.
OpenVault(platform, signerFound) ==
    /\ signet.phase = "down"
    /\ Provider(platform, signerFound) # "error"
    /\ signet' = [Down EXCEPT !.phase = "secret",
                            !.provider = Provider(platform, signerFound)]
    /\ UNCHANGED <<files, vault, legacy, calls, gen, crashes, promised,
                   disputed, handed>>

\* The file the software provider reads: vault.key first.
SecretFile == IF Exists("vault.key") THEN "vault.key" ELSE "vault-passphrase"

\* getSecret of the software provider with a file; a malformed one is an error.
ReadSecret ==
    /\ signet.phase = "secret" /\ signet.provider = "software"
    /\ Exists(SecretFile)
    /\ signet' = IF files[SecretFile] = Torn THEN Down
                 ELSE [signet EXCEPT !.phase = "opened",
                                 !.cached = files[SecretFile]]
    /\ UNCHANGED <<files, vault, legacy, calls, gen, crashes, promised,
                   disputed, handed>>

\* getSecret of the software provider on a fresh directory: the secret is
\* cached, then written.
GenerateSecret ==
    /\ signet.phase = "secret" /\ signet.provider = "software"
    /\ ~Exists(SecretFile)
    /\ gen < MaxGen
    /\ gen' = gen + 1
    /\ signet' = [signet EXCEPT !.phase = "write", !.file = "vault-passphrase",
                            !.cached = gen + 1]
    /\ UNCHANGED <<files, vault, legacy, calls, crashes, promised, disputed,
                   handed>>

\* getSecret of the Secure Enclave provider with both artifacts: seDecrypt
\* opens the box, or the signer fails, times out or is cancelled.
DecryptSecret ==
    /\ signet.phase = "secret" /\ signet.provider = "secure-enclave"
    /\ ArtifactState = "existing"
    /\ \E answer \in SignerAnswers :
          IF answer = "error" THEN signet' = Down ELSE
          /\ files["se-vault-keyref"] # Torn /\ files["vault-sealed-box"] # Torn
          /\ signet' = [signet EXCEPT !.phase = "opened",
                                  !.cached = files["vault-sealed-box"]]
    /\ UNCHANGED <<files, vault, legacy, calls, gen, crashes, promised,
                   disputed, handed>>

\* seCreate on a fresh directory: the enclave makes a key, or fails.
CreateEnclaveKey ==
    /\ signet.phase = "secret" /\ signet.provider = "secure-enclave"
    /\ ArtifactState = "fresh"
    /\ \E answer \in SignerAnswers :
          IF answer = "error" THEN signet' = Down /\ UNCHANGED gen ELSE
          /\ gen < MaxGen
          /\ gen' = gen + 1
          /\ signet' = [signet EXCEPT !.phase = "write", !.file = "se-vault-keyref",
                                  !.cached = gen + 1]
    /\ UNCHANGED <<files, vault, legacy, calls, crashes, promised, disputed,
                   handed>>

\* The files of a fresh secret in the order they are written.
NextFile(f) ==
    CASE f = "se-vault-keyref" -> "se-vault-pubkey"
      [] f = "se-vault-pubkey" -> "vault-sealed-box"
      [] OTHER -> "none"

\* One of those writes ends: the next one starts, or the failure is returned
\* and createKeyManager with it.
WriteSecretFile ==
    /\ signet.phase = "write"
    /\ \/ /\ files' = [files EXCEPT ![signet.file] = signet.cached]
          /\ signet' = [signet EXCEPT
                        !.file = NextFile(signet.file),
                        !.phase = IF NextFile(signet.file) = "none"
                                  THEN "opened" ELSE "write"]
       \/ /\ \E left \in {Absent, Torn} :
                files' = [files EXCEPT ![signet.file] = left]
          /\ signet' = Down
    /\ UNCHANGED <<vault, legacy, calls, gen, crashes, promised, disputed,
                   handed>>

-----------------------------------------------------------------------------
(* The calls and what they do with the answers of the kv store.            *)

NamesOf(op) ==
    CASE op \in {"initialize", "create"} -> {"admin-key", "admin-key-pub"}
      [] op = "getOrCreate" -> {"db-key"}
      [] op \in {"set", "get", "delete"} -> {"user"}
      [] op = "none" -> {}

Begin(c, call) ==
    /\ calls[c] = NoCall
    /\ calls' = [calls EXCEPT ![c] = call]
    /\ disputed' = disputed \cup
          UNION {NamesOf(call.op) \cap NamesOf(calls[d].op) : d \in Calls}

\* initialize, which every entry point awaits before it uses the manager
Initialize(c) ==
    /\ signet.phase = "opened"
    /\ Begin(c, [op |-> "initialize", pc |-> "get", name |-> "admin-key-pub",
                 val |-> Absent])
    /\ signet' = [signet EXCEPT !.phase = "init"]
    /\ UNCHANGED <<files, vault, legacy, gen, crashes, promised, handed>>

\* getOrCreateDbKey, getOrCreateXmtpIdentityKey
GetOrCreate(c) ==
    /\ signet.phase = "up"
    /\ Begin(c, [op |-> "getOrCreate", pc |-> "get", name |-> "db-key",
                 val |-> Absent])
    /\ UNCHANGED <<files, vault, legacy, signet, gen, crashes, promised, handed>>

VaultGet(c) ==
    /\ signet.phase = "up"
    /\ Begin(c, [op |-> "get", pc |-> "get", name |-> "user", val |-> Absent])
    /\ UNCHANGED <<files, vault, legacy, signet, gen, crashes, promised, handed>>

\* vaultSet: the old value is given up when the write over it starts.
VaultSet(c) ==
    /\ signet.phase = "up" /\ gen < MaxGen
    /\ gen' = gen + 1
    /\ Begin(c, [op |-> "set", pc |-> "write", name |-> "user",
                 val |-> gen + 1])
    /\ promised' = [promised EXCEPT !["user"] = Absent]
    /\ UNCHANGED <<files, vault, legacy, signet, crashes, handed>>

\* vaultDelete: the vault's file first, the legacy file after the await.
VaultDelete(c) ==
    /\ signet.phase = "up"
    /\ Begin(c, [op |-> "delete", pc |-> "unlink", name |-> "user",
                 val |-> Absent])
    /\ vault' = [vault EXCEPT !["user"] = NoEntry]
    /\ promised' = [promised EXCEPT !["user"] = Absent]
    /\ UNCHANGED <<files, legacy, signet, gen, crashes, handed>>

VaultDeleteEnds(c) ==
    /\ calls[c].pc = "unlink"
    /\ legacy' = [legacy EXCEPT !["user"] = Absent]
    /\ calls' = [calls EXCEPT ![c] = NoCall]
    /\ UNCHANGED <<files, vault, signet, gen, crashes, promised, disputed,
                   handed>>

\* admin.create, up to its gate
AdminCreate(c) ==
    /\ signet.phase = "up" /\ signet.adminPub = Absent
    /\ Begin(c, [op |-> "create", pc |-> "gate", name |-> "admin-key",
                 val |-> Absent])
    /\ UNCHANGED <<files, vault, legacy, signet, gen, crashes, promised, handed>>

\* The gate answers; the pair is in memory before it is on disk.  initialize
\* takes a public key it cannot read for a missing one, so that the new pair
\* may replace an older one.
AdminGenerate(c) ==
    /\ calls[c].pc = "gate"
    /\ \/ /\ calls' = [calls EXCEPT ![c] = NoCall]
          /\ UNCHANGED <<signet, gen, disputed>>
       \/ /\ gen < MaxGen
          /\ gen' = gen + 1
          /\ disputed' = IF vault["admin-key-pub"] = NoEntry
                            /\ legacy["admin-key-pub"] = Absent
                         THEN disputed ELSE disputed \cup NamesOf("create")
          /\ signet' = [signet EXCEPT !.adminPub = gen + 1, !.adminPriv = gen + 1]
          /\ calls' = [calls EXCEPT ![c].pc = "write", ![c].val = gen + 1]
    /\ UNCHANGED <<files, vault, legacy, crashes, promised, handed>>

\* What a call does with the answer of kv.get: Absent for a missing entry,
\* Torn for an error.
Answer(c, r) ==
    CASE calls[c].op = "initialize" /\ calls[c].name = "admin-key-pub" ->
            /\ signet' = IF r \in {Absent, Torn} THEN signet
                         ELSE [signet EXCEPT !.adminPub = r]
            /\ calls' = [calls EXCEPT ![c].name = "admin-key", ![c].pc = "get"]
            /\ UNCHANGED <<gen, promised, handed>>
      [] calls[c].op = "initialize" /\ calls[c].name = "admin-key" ->
            /\ signet' = [signet EXCEPT !.phase = "up",
                          !.adminPriv = IF r \in {Absent, Torn} THEN @ ELSE r]
            /\ calls' = [calls EXCEPT ![c] = NoCall]
            /\ UNCHANGED <<gen, promised, handed>>
      [] calls[c].op = "getOrCreate" /\ r = Absent ->
            /\ gen < MaxGen
            /\ gen' = gen + 1
            /\ calls' = [calls EXCEPT ![c].pc = "write", ![c].val = gen + 1]
            /\ UNCHANGED <<signet, promised, handed>>
      [] calls[c].op = "getOrCreate" /\ r # Absent ->
            /\ handed' = IF r = Torn THEN handed ELSE handed \cup {r}
            /\ calls' = [calls EXCEPT ![c] = NoCall]
            /\ UNCHANGED <<gen, signet, promised>>
      [] calls[c].op = "get" ->
            /\ calls' = [calls EXCEPT ![c] = NoCall]
            /\ UNCHANGED <<gen, signet, promised, handed>>

\* What a call does once the write of its own value has succeeded.
Written(c) ==
    CASE calls[c].op = "create" /\ calls[c].name = "admin-key" ->
            /\ calls' = [calls EXCEPT ![c].name = "admin-key-pub",
                                      ![c].val = signet.adminPub]
            /\ UNCHANGED <<promised, handed>>
      [] calls[c].op = "create" /\ calls[c].name = "admin-key-pub" ->
            /\ calls' = [calls EXCEPT ![c] = NoCall]
            /\ promised' = [promised EXCEPT !["admin-key"] = calls[c].val,
                                            !["admin-key-pub"] = calls[c].val]
            /\ UNCHANGED handed
      [] calls[c].op \in {"getOrCreate", "set"} ->
            /\ calls' = [calls EXCEPT ![c] = NoCall]
            /\ promised' = [promised EXCEPT ![calls[c].name] = calls[c].val]
            /\ handed' = IF calls[c].op = "set" THEN handed
                         ELSE handed \cup {calls[c].val}

-----------------------------------------------------------------------------
(* createCompatSecretStore over the file vault.                            *)

Writing(n) == {d \in Calls : calls[d].pc \in {"migrate", "write"}
                             /\ calls[d].name = n}

\* decryptSecret: AES-GCM rejects a torn file and another secret's ciphertext.
Decrypts(n) == vault[n].val # Torn /\ vault[n].key = signet.cached

\* vault.get: a file that does not decrypt is an error, and so may be one that
\* is being written.
Readings(n) ==
    {CASE vault[n].val = Absent -> Absent
       [] Decrypts(n) -> vault[n].val
       [] OTHER -> Torn}
    \cup (IF Writing(n) = {} THEN {} ELSE {Torn})

\* kv.get: the vault, then the legacy file, which it starts to migrate.
KvGet(c) ==
    LET n == calls[c].name IN
    /\ calls[c].pc = "get"
    /\ \E r \in Readings(n) :
          IF r = Absent /\ legacy[n] # Absent
          THEN /\ calls' = [calls EXCEPT ![c].pc = "migrate",
                                         ![c].val = legacy[n]]
               /\ UNCHANGED <<gen, signet, promised, handed>>
          ELSE Answer(c, r)
    /\ UNCHANGED <<files, vault, legacy, crashes, disputed>>

\* vault.set of a migration or of the call's own value ends: the legacy file
\* goes only after the vault has the value.
KvWritten(c) ==
    LET n == calls[c].name IN
    /\ calls[c].pc \in {"migrate", "write"}
    /\ vault' = [vault EXCEPT ![n] = [val |-> calls[c].val,
                                      key |-> signet.cached]]
    /\ legacy' = [legacy EXCEPT ![n] = Absent]
    /\ IF calls[c].pc = "migrate" THEN Answer(c, calls[c].val)
       ELSE Written(c) /\ UNCHANGED <<gen, signet>>
    /\ UNCHANGED <<files, crashes, disputed>>

\* Mutant: the legacy file is removed although the migration failed.
KvWriteFailsForgetting(c) ==
    /\ calls[c].pc = "migrate"
    /\ legacy' = [legacy EXCEPT ![calls[c].name] = Absent]
    /\ Answer(c, Torn)
    /\ UNCHANGED <<files, vault, crashes, disputed>>

\* vault.set fails and the call returns the error.
KvWriteFails(c) ==
    LET n == calls[c].name IN
    /\ calls[c].pc \in {"migrate", "write"}
    /\ \E left \in {vault[n], TornEntry} : vault' = [vault EXCEPT ![n] = left]
    /\ IF calls[c].pc = "migrate" THEN Answer(c, Torn)
       ELSE /\ calls' = [calls EXCEPT ![c] = NoCall]
            /\ UNCHANGED <<gen, signet, promised, handed>>
    /\ UNCHANGED <<files, legacy, crashes, disputed>>

\* What a crash may leave of a file that is being written.
Leftovers(n) == {vault[n], TornEntry}
    \cup {[val |-> calls[d].val, key |-> signet.cached] : d \in Writing(n)}

CrashKeys ==
    LET busy == {n \in Names : Writing(n) # {}}
    IN /\ signet.phase # "down" /\ crashes < MaxCrashes
       /\ crashes' = crashes + 1
       /\ \E left \in [busy -> UNION {Leftovers(n) : n \in busy}] :
             /\ \A n \in busy : left[n] \in Leftovers(n)
             /\ vault' = [n \in Names |->
                            IF n \in busy THEN left[n] ELSE vault[n]]
       /\ \E v \in {Absent, Torn, signet.cached} :
             files' = IF signet.phase = "write"
                      THEN [files EXCEPT ![signet.file] = v] ELSE files
       /\ signet' = Down
       /\ calls' = [c \in Calls |-> NoCall]
       /\ UNCHANGED <<legacy, gen, promised, disputed, handed>>

\* close, when the process ends in order
Close ==
    /\ signet.phase = "up" /\ \A c \in Calls : calls[c] = NoCall
    /\ signet' = Down
    /\ UNCHANGED <<files, vault, legacy, calls, gen, crashes, promised,
                   disputed, handed>>

-----------------------------------------------------------------------------
(* A data directory is fresh, or an earlier release left its secret in     *)
(* vault.key and its entries, or some of them, in kv.                      *)
KInit ==
    /\ \E old \in {Absent, 1} :
          /\ files = [f \in SecretFiles |->
                        IF f = "vault.key" THEN old ELSE Absent]
          /\ \E kept \in SUBSET {"db-key", "user", "admin-key"} :
                /\ old = Absent => kept = {}
                /\ legacy = [n \in Names |->
                     IF n \in kept THEN 2
                     ELSE IF n = "admin-key-pub" /\ "admin-key" \in kept THEN 2
                     ELSE Absent]
          /\ gen = IF old = Absent THEN 0 ELSE 2
    /\ vault = [n \in Names |-> NoEntry]
    /\ signet = Down
    /\ calls = [c \in Calls |-> NoCall]
    /\ crashes = 0
    /\ promised = legacy
    /\ disputed = {}
    /\ handed = {legacy["db-key"]} \ {Absent}

Opening ==
    \/ \E p \in Platforms, s \in SignerFound : OpenVault(p, s)
    \/ ReadSecret
    \/ GenerateSecret
    \/ DecryptSecret
    \/ CreateEnclaveKey
    \/ WriteSecretFile

KNext ==
    \/ Opening
    \/ \E c \in Calls :
          \/ Initialize(c)
          \/ GetOrCreate(c)
          \/ VaultGet(c)
          \/ VaultSet(c)
          \/ VaultDelete(c)
          \/ VaultDeleteEnds(c)
          \/ AdminCreate(c)
          \/ AdminGenerate(c)
          \/ KvGet(c)
          \/ KvWritten(c)
          \/ KvWriteFails(c)
    \/ CrashKeys
    \/ Close

KSpec == KInit /\ [][KNext]_kvars

-----------------------------------------------------------------------------
(* Properties.                                                             *)

Files == -1 .. MaxGen

KTypeOK ==
    /\ files \in [SecretFiles -> Files]
    /\ vault \in [Names -> [val : Files, key : 0 .. MaxGen]]
    /\ legacy \in [Names -> 0 .. MaxGen]
    /\ gen \in 0 .. MaxGen /\ crashes \in 0 .. MaxCrashes
    /\ signet.phase \in {"down", "secret", "write", "opened", "init", "up"}
    /\ \A c \in Calls : calls[c].pc \in {"idle", "get", "migrate", "write",
                                         "gate", "unlink"}

\* Whatever was stored can be read: the secret an opened key manager works
\* with is the one every complete entry of the vault is encrypted under, over
\* crashes in the middle of the first start and starts with another platform
\* or without the signer (resolveVaultSecretProvider, createVault).
VaultIsReadable ==
    signet.phase \in {"opened", "init", "up"} =>
        \A n \in Names : vault[n].val > 0 => vault[n].key = signet.cached

Held(n, v) == vault[n].val = v \/ legacy[n] = v

\* A value that an earlier release left, or that a call reported as stored, is
\* in the vault or still in its legacy file, whatever crash or failed write
\* happened to the calls that read and migrated it (createCompatSecretStore).
StoredIsKept ==
    \A n \in Names \ disputed : promised[n] # Absent => Held(n, promised[n])

\* While its calls do not overlap, the key that is created on first use is the
\* same for every caller and in every later process (getOrCreateDbKey).
OneFirstUseKey == "db-key" \in disputed \/ Cardinality(handed) <= 1

\* A readable public admin key has its private half behind it, on disk and in
\* memory, at every point a crash can hit admin.create or a migration.
AdminPairMatches ==
    "admin-key" \in disputed \/
    /\ vault["admin-key-pub"].val > 0 =>
          Held("admin-key", vault["admin-key-pub"].val)
    /\ signet.adminPub # Absent /\ signet.adminPriv # Absent =>
          signet.adminPub = signet.adminPriv

\* What a caller was told is stored, or was handed out, is what a later call
\* finds, over restarts, crashes and failed writes.
EntriesAreKept == StoredIsKept /\ OneFirstUseKey /\ AdminPairMatches

=============================================================================
