------------------------------ MODULE KeyRing ------------------------------
(***************************************************************************)
(* The keys the key manager works with (packages/keys/src): operational    *)
(* keys, created and rotated behind the biometric gate, the seals stamped  *)
(* with them, and the wallets with the accounts derived from them.         *)
(*                                                                         *)
(* Calls interleave at their awaits.  A wallet file holds the encrypted    *)
(* mnemonic and the account list; the backend keeps a state object per     *)
(* wallet that it fills on first use.                                      *)
(***************************************************************************)
EXTENDS Naturals, Sequences, FiniteSets

CONSTANTS
    RTasks,          \* names for calls under way
    Wallets,        \* wallet ids
    Objects,        \* names for WalletState objects
    None,           \* no wallet, no object, no file, no task
    Gated,          \* the gated operations switched on in the configuration
    ApiIds,         \* ids of API keys (credential ids)
    MaxKeys,        \* bound: operational keys generated
    MaxAccounts,    \* bound: accounts of a wallet
    MaxTokens       \* bound: API key tokens generated

ASSUME KeyRingAssumption ==
    /\ None \notin RTasks \cup Wallets \cup Objects
    /\ None \notin Seq([index : Nat, chain : {"evm", "ed25519"}])
    /\ Gated \subseteq {"agentCreation", "operationalKeyRotation"}
    /\ MaxKeys \in Nat /\ MaxAccounts \in Nat /\ MaxTokens \in Nat

VARIABLES
    storage,    \* "memory" or "file": which vault createVault returned
    opKey,      \* the operational key of the identity, 0 if it has none
    made,       \* history: operational keys generated
    gateFile,   \* whether se-gate-keyref exists
    inflight,   \* the task that is creating the gate key
    gateKeys,   \* history: gate keys made in the enclave and not lost
    boundTo,    \* the walletId of the operator's record
    file,       \* wallet -> its account list, or None
    walletStates, \* wallet -> object
    object,     \* object -> nextIndex and accounts
    tasks,      \* the calls under way
    stamps,     \* history: the key that signed and the key that was named
    created,    \* history: wallets created; an id is never used again
    derived,    \* history: wallet -> accounts deriveAccount returned
    overlapped, \* history: wallets with overlapping loads or a lost file
    apiKeys,    \* API key id -> the token its file was made with, 0 if none
    tokens,     \* the tokens generated: [id, wallet, state]
    signatures  \* history: what was signed, and whether it should have been

rvars == <<storage, opKey, made, gateFile, inflight, gateKeys, boundTo, file,
           walletStates, object, tasks, stamps, created, derived, overlapped,
           apiKeys, tokens, signatures>>

ringVars == <<opKey, made, gateFile, inflight, gateKeys, boundTo, stamps>>
apiVars == <<apiKeys, tokens, signatures>>
walletVars == <<file, walletStates, object, created, derived, overlapped, apiVars>>

NoTask == [op |-> "none", pc |-> "idle", w |-> None, obj |-> None,
           key |-> 0, list |-> <<>>, api |-> None, token |-> 0, ok |-> FALSE]

Step(t, pc) == tasks' = [tasks EXCEPT ![t].pc = pc]
End(t) == tasks' = [tasks EXCEPT ![t] = NoTask]
IdleTask(t) == tasks[t] = NoTask

\* The operation a task asks the gate about.
GateOf(op) == IF op = "rotate" THEN "operationalKeyRotation"
              ELSE "agentCreation"

\* createBiometricGate: an operation that is not switched on passes.
Passes(op) == GateOf(op) \notin Gated

-----------------------------------------------------------------------------
(* Operational keys.                                                       *)

\* createOperationalKey and rotateOperationalKey, up to the gate
BeginKey(t, op) ==
    /\ IdleTask(t)
    /\ op = "rotate" => opKey # 0
    /\ tasks' = [tasks EXCEPT ![t].op = op, ![t].pc = "gate"]
    /\ UNCHANGED <<storage, ringVars, walletVars>>

\* For a gated operation the prompter takes the gate key of the file, waits for
\* the task that creates it, or creates it.
Gate(t) ==
    /\ tasks[t].pc = "gate"
    /\ IF Passes(tasks[t].op)
       THEN Step(t, "generate") /\ UNCHANGED inflight
       ELSE IF gateFile THEN Step(t, "touch") /\ UNCHANGED inflight
       ELSE IF inflight # None THEN Step(t, "wait") /\ UNCHANGED inflight
       ELSE Step(t, "seCreate") /\ inflight' = t
    /\ UNCHANGED <<storage, opKey, made, gateFile, gateKeys, boundTo, stamps,
                   walletVars>>

\* ensureGateKey ends: every task that waited gets its result.
GateKeyEnds(t) ==
    LET all == {u \in RTasks : u = t \/ tasks[u].pc = "wait"} IN
    /\ tasks[t].pc = "seCreate"
    /\ inflight' = None
    /\ \/ /\ gateFile' = TRUE /\ gateKeys' = gateKeys + 1
          /\ tasks' = [u \in RTasks |-> IF u \in all
                          THEN [tasks[u] EXCEPT !.pc = "touch"] ELSE tasks[u]]
       \/ /\ UNCHANGED <<gateFile, gateKeys>>
          /\ tasks' = [u \in RTasks |-> IF u \in all THEN NoTask ELSE tasks[u]]
    /\ UNCHANGED <<storage, opKey, made, boundTo, stamps, walletVars>>

\* seSign of the challenge: confirmed, or cancelled, timed out or failed.
Touch(t) ==
    /\ tasks[t].pc = "touch"
    /\ Step(t, "generate") \/ End(t)
    /\ UNCHANGED <<storage, ringVars, walletVars>>

\* createOperationalKeyRecord: the new key takes the place of the old one.
Install(t) ==
    /\ tasks[t].pc = "generate"
    /\ made < MaxKeys
    /\ made' = made + 1
    /\ opKey' = made + 1
    /\ End(t)
    /\ UNCHANGED <<storage, gateFile, inflight, gateKeys, boundTo, stamps,
                   walletVars>>

\* createSealStamperCompat: the key signs; the name is looked up afterwards.
BeginStamp(t) ==
    /\ IdleTask(t) /\ opKey # 0
    /\ tasks' = [tasks EXCEPT ![t].op = "stamp", ![t].pc = "sign",
                              ![t].key = opKey]
    /\ UNCHANGED <<storage, ringVars, walletVars>>

EndStamp(t) ==
    /\ tasks[t].pc = "sign"
    /\ stamps' = stamps \cup {[signedBy |-> tasks[t].key, keyId |-> opKey]}
    /\ End(t)
    /\ UNCHANGED <<storage, opKey, made, gateFile, inflight, gateKeys, boundTo,
                   walletVars>>

-----------------------------------------------------------------------------
(* Wallets.                                                                *)

OnFile(w) == file[w] # None
Fresh(o) == /\ \A w \in Wallets : walletStates[w] # o
            /\ \A t \in RTasks : tasks[t].obj # o

NewWallet(w, o) ==
    /\ w \notin created /\ Fresh(o)
    /\ created' = created \cup {w}
    /\ file' = [file EXCEPT ![w] = <<>>]
    /\ walletStates' = [walletStates EXCEPT ![w] = o]
    /\ object' = [object EXCEPT ![o] = [nextIndex |-> 0, accounts |-> <<>>]]

CreateWallet(w, o) ==
    /\ NewWallet(w, o)
    /\ UNCHANGED <<storage, ringVars, tasks, derived, overlapped, apiVars>>

\* Calls that read a wallet and set its state overlap on w.
Crosses(w) == IF \E t \in RTasks : tasks[t].op \in {"derive", "list"} /\ tasks[t].w = w
              THEN overlapped \cup {w} ELSE overlapped

\* Mutant: the state of the wallet stays in memory.
DeleteWalletKeepingState(w) ==
    /\ OnFile(w)
    /\ file' = [file EXCEPT ![w] = None]
    /\ overlapped' = Crosses(w)
    /\ UNCHANGED <<storage, ringVars, walletStates, object, tasks, created, derived,
                   apiVars>>

DeleteWallet(w) ==
    /\ OnFile(w)
    /\ file' = [file EXCEPT ![w] = None]
    /\ walletStates' = [walletStates EXCEPT ![w] = None]
    /\ overlapped' = Crosses(w)
    /\ UNCHANGED <<storage, ringVars, object, tasks, created, derived, apiVars>>

\* ensureWalletState, for deriveAccount, listAccounts and getXmtpIdentityKey:
\* the cached object is looked up before the wallet is read.
BeginLoad(t, op, w) ==
    /\ IdleTask(t) /\ OnFile(w)
    /\ tasks' = [tasks EXCEPT ![t].op = op, ![t].w = w, ![t].obj = walletStates[w],
                              ![t].pc = IF op = "derive" THEN "seed" ELSE "list"]
    /\ overlapped' = Crosses(w)
    /\ UNCHANGED <<storage, ringVars, file, walletStates, object, created, derived, apiVars>>

Indices(accounts) == {accounts[i].index : i \in 1 .. Len(accounts)}
MaxOf(S) == CHOOSE x \in S : \A y \in S : y <= x

\* Mutant: a state object starts empty whatever the file holds.
LoadedEmpty(accounts) == [nextIndex |-> Len(accounts), accounts |-> <<>>]

\* ensureWalletState: what a state object is filled with from the file
LoadedState(accounts) ==
    [nextIndex |-> IF accounts = <<>> THEN 0 ELSE MaxOf(Indices(accounts)) + 1,
     accounts |-> accounts]

\* The wallet is read (and the state filled if there was none); the new
\* account takes the next index and goes to the end of the list.
Derive(t, chain) ==
    LET w == tasks[t].w
        add(o) == Append(o.accounts, [index |-> o.nextIndex, chain |-> chain])
    IN /\ tasks[t].pc = "seed"
       /\ IF ~OnFile(w) THEN End(t) /\ UNCHANGED <<walletStates, object>>
          ELSE IF tasks[t].obj # None
          THEN /\ Len(object[tasks[t].obj].accounts) < MaxAccounts
               /\ tasks' = [tasks EXCEPT ![t].pc = "update",
                              ![t].list = add(object[tasks[t].obj])]
               /\ UNCHANGED <<walletStates, object>>
          ELSE \E o \in Objects :
               /\ Fresh(o) /\ Len(file[w]) < MaxAccounts
               /\ object' = [object EXCEPT ![o] = LoadedState(file[w])]
               /\ walletStates' = [walletStates EXCEPT ![w] = o]
               /\ tasks' = [tasks EXCEPT ![t].pc = "update", ![t].obj = o,
                              ![t].list = add(LoadedState(file[w]))]
       /\ UNCHANGED <<storage, ringVars, file, created, derived, overlapped, apiVars>>

\* listAccounts and getXmtpIdentityKey only fill the state.
ListAccounts(t) ==
    LET w == tasks[t].w IN
    /\ tasks[t].pc = "list"
    /\ End(t)
    /\ IF ~OnFile(w) \/ tasks[t].obj # None
       THEN UNCHANGED <<walletStates, object>>
       ELSE \E o \in Objects :
            /\ Fresh(o)
            /\ object' = [object EXCEPT ![o] = LoadedState(file[w])]
            /\ walletStates' = [walletStates EXCEPT ![w] = o]
    /\ UNCHANGED <<storage, ringVars, file, created, derived, overlapped, apiVars>>

\* updateWalletAccounts reads the file; the write over it comes after an await.
Update(t) ==
    /\ tasks[t].pc = "update" /\ storage = "file"
    /\ IF OnFile(tasks[t].w) THEN Step(t, "write") ELSE End(t)
    /\ UNCHANGED <<storage, ringVars, walletVars>>

\* The account is on file and deriveAccount returns it.
Derived(t) ==
    LET w == tasks[t].w
        list == tasks[t].list
        new == list[Len(list)]
    IN /\ file' = [file EXCEPT ![w] = list]
       /\ object' = [object EXCEPT ![tasks[t].obj] =
                       [nextIndex |-> new.index + 1, accounts |-> list]]
       /\ derived' = [derived EXCEPT ![w] = @ \cup {new}]
       /\ End(t)
       /\ UNCHANGED <<storage, ringVars, walletStates, created, overlapped, apiVars>>

UpdateWritten(t) == tasks[t].pc = "write" /\ Derived(t)

\* updateWalletAccounts of createMemoryVault: read and replaced in one go
UpdateMemory(t) ==
    /\ tasks[t].pc = "update" /\ storage = "memory"
    /\ IF OnFile(tasks[t].w) THEN Derived(t)
       ELSE End(t) /\ UNCHANGED <<storage, ringVars, walletVars>>

\* The write fails and leaves the file as it was, or torn: a file that does
\* not parse is no wallet, and its mnemonic is gone with it.
UpdateFails(t) ==
    LET w == tasks[t].w IN
    /\ tasks[t].pc = "write"
    /\ End(t)
    /\ \/ UNCHANGED <<file, overlapped>>
       \/ /\ file' = [file EXCEPT ![w] = None]
          /\ overlapped' = overlapped \cup {w}
    /\ UNCHANGED <<storage, ringVars, walletStates, object, created, derived,
                   apiVars>>

-----------------------------------------------------------------------------
(* Signing, and the API keys that sign without the passphrase.             *)

\* createApiKey of the backend, up to the wallet.
BeginApiKey(t, w, id) ==
    /\ IdleTask(t) /\ OnFile(w)
    /\ tasks' = [tasks EXCEPT ![t].op = "apiKey", ![t].pc = "read", ![t].w = w,
                              ![t].api = id]
    /\ UNCHANGED <<storage, ringVars, walletVars>>

\* The mnemonic is read and a token generated; the memory vault stores the
\* copy at once, the file vault after an await.
EncryptApiKey(t) ==
    LET n == Len(tokens) + 1
        add(state) == tokens' = Append(tokens, [id |-> tasks[t].api,
                                                wallet |-> tasks[t].w, state |-> state])
    IN /\ tasks[t].pc = "read"
       /\ IF ~OnFile(tasks[t].w) THEN End(t) /\ UNCHANGED <<apiKeys, tokens>>
          ELSE /\ n <= MaxTokens
               /\ IF storage = "memory"
                  THEN /\ apiKeys' = [apiKeys EXCEPT ![tasks[t].api] = n]
                       /\ add("handedOut") /\ End(t)
                  ELSE /\ tasks' = [tasks EXCEPT ![t].pc = "store", ![t].token = n]
                       /\ add("made") /\ UNCHANGED apiKeys
       /\ UNCHANGED <<storage, ringVars, file, walletStates, object, created,
                      derived, overlapped, signatures>>

\* The file is written and the token returned, or the write fails and may leave
\* a file that does not parse.
ApiKeyStored(t) ==
    LET task == tasks[t] IN
    /\ task.pc = "store"
    /\ End(t)
    /\ \/ /\ apiKeys' = [apiKeys EXCEPT ![task.api] = task.token]
          /\ tokens' = [tokens EXCEPT ![task.token].state = "handedOut"]
       \/ /\ apiKeys' \in {apiKeys, [apiKeys EXCEPT ![task.api] = 0]}
          /\ UNCHANGED tokens
    /\ UNCHANGED <<storage, ringVars, file, walletStates, object, created,
                   derived, overlapped, signatures>>

\* revokeApiKey removes the copy of the mnemonic, whichever token it is for.
RevokeApiKey(id) ==
    /\ apiKeys[id] # 0
    /\ apiKeys' = [apiKeys EXCEPT ![id] = 0]
    /\ tokens' = [n \in DOMAIN tokens |->
                    IF tokens[n].id = id /\ tokens[n].state = "handedOut"
                    THEN [tokens[n] EXCEPT !.state = "revoked"] ELSE tokens[n]]
    /\ UNCHANGED <<storage, ringVars, tasks, file, walletStates, object, created,
                   derived, overlapped, signatures>>

\* sign and signWithApiKey, with what they are asked with.
BeginSign(t, w) ==
    /\ IdleTask(t) /\ w \in created
    /\ tasks' = [tasks EXCEPT ![t].op = "sign", ![t].pc = "resolve", ![t].w = w,
                              ![t].ok = OnFile(w)]
    /\ UNCHANGED <<storage, ringVars, walletVars>>

BeginSignWithApiKey(t, n) ==
    /\ IdleTask(t) /\ tokens[n].state # "made"
    /\ tasks' = [tasks EXCEPT ![t].op = "sign", ![t].pc = "resolve",
                    ![t].w = tokens[n].wallet, ![t].token = n,
                    ![t].ok = /\ OnFile(tokens[n].wallet)
                              /\ tokens[n].state = "handedOut"]
    /\ UNCHANGED <<storage, ringVars, walletVars>>

\* getSeed or readApiKey, then resolveAndSign: the account is looked for in
\* the state the backend holds, not in the file.
ResolveAndSign(t, i) ==
    LET task == tasks[t]
        seed == IF task.token = 0 THEN OnFile(task.w)
                ELSE \E id \in ApiIds : apiKeys[id] = task.token
        known == {a \in DOMAIN object[walletStates[task.w]].accounts :
                    object[walletStates[task.w]].accounts[a].index = i}
    IN /\ task.pc = "resolve"
       /\ End(t)
       /\ IF seed /\ walletStates[task.w] # None /\ known # {}
          THEN signatures' = signatures \cup
                 {[wallet |-> task.w, ok |-> task.ok,
                   own |-> object[walletStates[task.w]].accounts[
                             CHOOSE a \in known : \A b \in known : a <= b]
                           \in derived[task.w]]}
          ELSE UNCHANGED signatures
       /\ UNCHANGED <<storage, ringVars, file, walletStates, object, created,
                      derived, overlapped, apiKeys, tokens>>

-----------------------------------------------------------------------------
(* keys.init of the key actions, for the one operator.                     *)

BeginInit(t) ==
    /\ IdleTask(t)
    /\ tasks' = [tasks EXCEPT ![t].op = "init", ![t].pc = "wallet",
                              ![t].w = boundTo]
    /\ UNCHANGED <<storage, ringVars, walletVars>>

\* The operator's wallet is looked up, or one is created; the operator found
\* at the start decides.
InitWallet(t) ==
    /\ tasks[t].pc = "wallet"
    /\ \/ /\ tasks[t].w # None
          /\ IF OnFile(tasks[t].w) THEN Step(t, "key") ELSE End(t)
          /\ UNCHANGED walletVars
       \/ /\ tasks[t].w = None
          /\ \E w \in Wallets, o \in Objects :
                /\ NewWallet(w, o)
                /\ tasks' = [tasks EXCEPT ![t].pc = "bind", ![t].w = w]
          /\ UNCHANGED <<derived, overlapped, apiVars>>
    /\ UNCHANGED <<storage, ringVars>>

\* operatorManager.update with the new wallet
InitBind(t) ==
    /\ tasks[t].pc = "bind"
    /\ \/ boundTo' = tasks[t].w /\ Step(t, "key")
       \/ End(t) /\ UNCHANGED boundTo
    /\ UNCHANGED <<storage, opKey, made, gateFile, inflight, gateKeys, stamps,
                   walletVars>>

\* An operational key is created only if the operator has none.
InitKey(t) ==
    /\ tasks[t].pc = "key"
    /\ IF opKey # 0 THEN End(t) ELSE Step(t, "gate")
    /\ UNCHANGED <<storage, ringVars, walletVars>>

\* The process ends and starts again: what is on disk stays.
Restart ==
    /\ storage = "file"
    /\ opKey' = 0
    /\ inflight' = None
    /\ walletStates' = [w \in Wallets |-> None]
    /\ tasks' = [t \in RTasks |-> NoTask]
    /\ \E cut \in SUBSET {tasks[t].w : t \in {u \in RTasks :
                                                 tasks[u].pc = "write"}} :
          /\ file' = [w \in Wallets |-> IF w \in cut THEN None ELSE file[w]]
          /\ overlapped' = overlapped \cup cut
    /\ \E cut \in SUBSET {tasks[t].api : t \in {u \in RTasks :
                                                 tasks[u].pc = "store"}} :
          apiKeys' = [id \in ApiIds |-> IF id \in cut THEN 0 ELSE apiKeys[id]]
    /\ UNCHANGED <<storage, made, gateFile, gateKeys, boundTo, object, stamps,
                   created, derived, tokens, signatures>>

-----------------------------------------------------------------------------
RInit ==
    /\ storage \in {"memory", "file"}
    /\ opKey = 0 /\ made = 0
    /\ gateFile = FALSE /\ inflight = None /\ gateKeys = 0
    /\ boundTo = None
    /\ file = [w \in Wallets |-> None]
    /\ walletStates = [w \in Wallets |-> None]
    /\ object = [o \in Objects |-> LoadedState(<<>>)]
    /\ tasks = [t \in RTasks |-> NoTask]
    /\ stamps = {}
    /\ derived = [w \in Wallets |-> {}]
    /\ created = {} /\ overlapped = {}
    /\ apiKeys = [id \in ApiIds |-> 0] /\ tokens = <<>> /\ signatures = {}

RNext ==
    \/ \E t \in RTasks :
          \/ BeginKey(t, "createKey") \/ BeginKey(t, "rotate")
          \/ Gate(t) \/ GateKeyEnds(t) \/ Touch(t) \/ Install(t)
          \/ BeginStamp(t) \/ EndStamp(t)
          \/ \E w \in Wallets :
                \/ \E op \in {"derive", "list"} : BeginLoad(t, op, w)
                \/ \E id \in ApiIds : BeginApiKey(t, w, id)
                \/ BeginSign(t, w)
          \/ ListAccounts(t)
          \/ EncryptApiKey(t) \/ ApiKeyStored(t)
          \/ \E n \in DOMAIN tokens : BeginSignWithApiKey(t, n)
          \/ \E i \in 0 .. MaxAccounts : ResolveAndSign(t, i)
          \/ \E chain \in {"evm", "ed25519"} : Derive(t, chain)
          \/ Update(t) \/ UpdateWritten(t) \/ UpdateMemory(t) \/ UpdateFails(t)
          \/ BeginInit(t) \/ InitWallet(t) \/ InitBind(t) \/ InitKey(t)
    \/ \E w \in Wallets, o \in Objects : CreateWallet(w, o)
    \/ \E w \in Wallets : DeleteWallet(w)
    \/ \E id \in ApiIds : RevokeApiKey(id)
    \/ Restart

RSpec == RInit /\ [][RNext]_rvars

-----------------------------------------------------------------------------
(* Properties.                                                             *)

\* Prompts that overlap share one gate key: the enclave never holds a second
\* one the prompter would use (ensureGateKey and its inflightKeyRef).
OneGateKey == gateKeys <= 1

\* Every account deriveAccount returned is in the wallet's file, over restarts
\* and failed writes, unless derivations of the wallet overlapped or its file
\* was cut off (deriveAccount, ensureWalletState, updateWalletAccounts).
DerivedIsKept ==
    \A w \in Wallets \ overlapped :
        OnFile(w) => \A a \in derived[w] :
            \E i \in 1 .. Len(file[w]) : file[w][i] = a

\* A signature of a wallet is made only for an account it derived, and only
\* when it was asked for while the wallet existed and, with an API key, before
\* the key was revoked, although the account is looked up in the memory of the
\* backend and the key file holds a copy of the mnemonic that outlives the
\* wallet (resolveAndSign, signWithApiKey, deleteWallet).
SignaturesAreEntitled ==
    \A s \in signatures : s.wallet \notin overlapped => s.ok /\ s.own

\* Keys are used for those they were made for, and prompts share theirs.
KeysAreEntitled == SignaturesAreEntitled /\ OneGateKey

\* A stamped seal names the key that signed it.
StampNamesSigner == \A s \in stamps : s.signedBy = s.keyId

=============================================================================
