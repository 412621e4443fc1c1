----------------------------- MODULE MCRuntime -----------------------------
(***************************************************************************)
(* The daemon as a process, the network core inside it, the admin's read   *)
(* elevations and the two halves of the key manager: what it keeps on disk *)
(* and the keys it works with.  They meet in a few calls that each module  *)
(* states from its own side, so a behaviour follows one of them; focus     *)
(* says which.  Entries of the key store under different names meet only   *)
(* in the secret, and wallets meet operational keys only in keys.init.     *)
(***************************************************************************)
EXTENDS SignetCore, DaemonRuntime, ReadElevation, KeyStore, KeyRing, TLC

VARIABLE focus

StoreOps == [user |-> {"initialize", "set", "get", "delete"},
             firstUse |-> {"initialize", "getOrCreate"},
             admin |-> {"initialize", "create"}]

RingOps == [keys |-> {"createKey", "rotate", "stamp", "init"},
            wallets |-> {"derive", "list"},
            signing |-> {"derive", "apiKey", "sign"}]

RuntimeInit ==
    /\ focus \in {"daemon", "core", "elevation"} \cup DOMAIN StoreOps \cup DOMAIN RingOps
    /\ DInit /\ CInit /\ EInit /\ KInit /\ RInit
    /\ \A i \in Ids : bound[i] = NoGroup <=> i \notin Stored
    /\ focus \notin DOMAIN RingOps => storage = "file"
    /\ focus \notin DOMAIN StoreOps => files["vault.key"] = Absent

RuntimeNext ==
    \/ focus = "daemon" /\ DNext /\ UNCHANGED <<focus, cvars, evars, kvars, rvars>>
    \/ focus = "core" /\ CNext /\ UNCHANGED <<focus, dvars, evars, kvars, rvars>>
    \/ focus = "elevation" /\ ENext /\ UNCHANGED <<focus, dvars, cvars, kvars, rvars>>
    \/ /\ focus \in DOMAIN StoreOps
       /\ KNext
       /\ \A c \in Calls : calls'[c].op \in StoreOps[focus] \cup {"none"}
       /\ UNCHANGED <<focus, dvars, cvars, evars, rvars>>
    \/ /\ focus \in DOMAIN RingOps
       /\ RNext
       /\ \A t \in RTasks : tasks'[t].op \in RingOps[focus] \cup {"none"}
       /\ focus = "signing" => /\ \A w \in Wallets : Cardinality(derived'[w]) <= 1
                               /\ \A t \in RTasks : Len(tasks'[t].list) <= 1
       /\ UNCHANGED <<focus, dvars, cvars, evars, kvars>>

RuntimeSpec == RuntimeInit /\ [][RuntimeNext]_<<focus, dvars, cvars, evars, kvars, rvars>>

\* Processes, tasks, sessions and calls share their two names: a behaviour follows
\* one part, so permuting them all at once permutes that part's.
Interchangeable == Permutations(Procs)

=============================================================================
