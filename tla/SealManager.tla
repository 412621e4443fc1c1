---------------------------- MODULE SealManager ----------------------------
(***************************************************************************)
(* The seal manager (packages/seals/src/manager.ts) with the two callers   *)
(* the daemon gives it (packages/cli/src/start.ts): the hook that revokes  *)
(* the seals of a revoked credential, and the hook that refreshes the      *)
(* seals of a chat when an admin read elevation changes its disclosure.    *)
(*                                                                         *)
(* Every method is asynchronous: it checks, signs, publishes and only then *)
(* updates the maps.  Each await is a step boundary here, so that calls    *)
(* interleave as the event loop lets them.  Signing and publishing may     *)
(* fail; a publication may also reach the chat and still report an error.  *)
(*                                                                         *)
(* Seal ids are 1, 2, ... in the order buildSeal generates them (so they   *)
(* are also in the order of issuedAt); 0 stands for "none".                *)
(***************************************************************************)
EXTENDS Integers, Sequences, FiniteSets

CONSTANTS
    Credentials,  \* credential ids
    Chats,        \* chat ids (each credential covers all of them)
    Inputs,       \* seal inputs: what resolveInput may return
    MayFail,      \* may signing and publishing fail
    Callers,      \* bound: calls in progress at the same time, one per caller
    MaxStarts,    \* bound: calls ever started
    MaxSeals      \* bound: seals ever built

ASSUME BoundsAssumption ==
    /\ MayFail \in BOOLEAN
    /\ MaxStarts \in Nat
    /\ MaxSeals \in Nat

VARIABLES
    payload,       \* the seals built so far: what each one says
    built,         \* the number of seals built
    tracked,       \* the keys of sealsById
    current,       \* currentSeals: pair -> seal id, or 0
    revokedPairs,  \* revokedPairs
    published,     \* the messages that reached the chats, in order
    call,          \* the calls in progress
    started        \* the number of calls started

vars == <<payload, built, tracked, current, revokedPairs, published, call, started>>

Pairs == Credentials \X Chats
SealIds == 1..MaxSeals

\* SealPayload: the pair, the input it was built from and the predecessor.
Payload == [pair : Pairs, input : Inputs, previous : 0..MaxSeals]

Message == [kind : {"seal", "revocation"}, pair : Pairs, seal : SealIds]

\* A call in progress.
\*   at   - what it waits for: the input ("resolve"), the current seal
\*          ("look"), the signature ("sign"), the chat ("publish"), the answer
\*          of a publication that has reached the chat ("answer"); "next" is
\*          the head of a hook's loop, "idle" no call
\*   kind - what it signs and publishes
\*   hook - the start.ts loop it runs in, with the chats and seals still to do
CallState ==
    [at    : {"idle", "resolve", "look", "next", "sign", "publish", "answer"},
     kind  : {"none", "seal", "revocation"},
     hook  : {"none", "revoked", "disclosed"},
     cred  : Credentials \cup {"any"},
     pair  : Pairs \cup {<<>>},
     seal  : 0..MaxSeals,
     chats : SUBSET Chats,
     todo  : SUBSET SealIds]

NoCall == [at |-> "idle", kind |-> "none", hook |-> "none", cred |-> "any",
           pair |-> <<>>, seal |-> 0, chats |-> {}, todo |-> {}]

Init ==
    /\ payload = << >>
    /\ built = 0
    /\ tracked = {}
    /\ current = [p \in Pairs |-> 0]
    /\ revokedPairs = {}
    /\ published = << >>
    /\ call = [c \in Callers |-> NoCall]
    /\ started = 0

-----------------------------------------------------------------------------
\* A new call takes an idle slot.
Start(c) ==
    /\ call[c].at = "idle"
    /\ started < MaxStarts
    /\ started' = started + 1

\* Variant: the revocation hook stops at the first chat without a seal.
ReturnOnlyIfOk(c, ok) ==
    IF call[c].hook \in {"revoked", "disclosed"} /\ ok
    THEN [call[c] EXCEPT !.at = "next", !.kind = "none"]
    ELSE NoCall

\* What a call does once its method has returned: the revocation hook goes on
\* with the next chat, the disclosure hook too unless it met an error.
Return(c, ok) ==
    IF call[c].hook = "revoked" \/ (call[c].hook = "disclosed" /\ ok)
    THEN [call[c] EXCEPT !.at = "next", !.kind = "none"]
    ELSE NoCall

\* Variant: the predecessor is the seal built last, published or not.
BuildOnLast(c, w, p, input, previous) ==
    /\ built < MaxSeals
    /\ built' = built + 1
    /\ payload' = Append(payload, [pair |-> p, input |-> input, previous |-> built])
    /\ call' = [call EXCEPT ![c] = [w EXCEPT !.at = "sign", !.kind = "seal",
                                             !.pair = p, !.seal = built + 1]]

\* buildSeal, up to the await of the signature.
Build(c, w, p, input, previous) ==
    /\ built < MaxSeals
    /\ built' = built + 1
    /\ payload' = Append(payload, [pair |-> p, input |-> input, previous |-> previous])
    /\ call' = [call EXCEPT ![c] = [w EXCEPT !.at = "sign", !.kind = "seal",
                                             !.pair = p, !.seal = built + 1]]

\* issue, up to the await of resolveInput.
Issue(c, p) ==
    /\ Start(c)
    /\ call' = [call EXCEPT ![c] = [NoCall EXCEPT !.at = "resolve", !.pair = p]]
    /\ UNCHANGED <<payload, built, tracked, current, revokedPairs, published>>

\* Variant: issue does not look at revokedPairs.
ResolvedUnchecked(c, input) ==
    LET p == call[c].pair
        unchanged == current[p] # 0 /\ payload[current[p]].input = input
    IN
    /\ call[c].at = "resolve"
    /\ \/ /\ unchanged
          /\ call' = [call EXCEPT ![c] = NoCall]
          /\ UNCHANGED <<payload, built>>
       \/ /\ ~unchanged
          /\ Build(c, call[c], p, input, current[p])
    /\ UNCHANGED <<tracked, current, revokedPairs, published, started>>

\* The input is there: refuse a revoked pair, return the current seal when
\* nothing changed, build a successor of the current seal otherwise.
Resolved(c, input) ==
    LET p == call[c].pair
        unchanged == current[p] # 0 /\ payload[current[p]].input = input
    IN
    /\ call[c].at = "resolve"
    /\ \/ /\ p \in revokedPairs \/ unchanged
          /\ call' = [call EXCEPT ![c] = NoCall]
          /\ UNCHANGED <<payload, built>>
       \/ /\ ~(p \in revokedPairs \/ unchanged)
          /\ Build(c, call[c], p, input, current[p])
    /\ UNCHANGED <<tracked, current, revokedPairs, published, started>>

\* resolveInput fails.
ResolveFailed(c) ==
    /\ call[c].at = "resolve"
    /\ call' = [call EXCEPT ![c] = NoCall]
    /\ UNCHANGED <<payload, built, tracked, current, revokedPairs, published, started>>

\* refresh's checks: the head of a pair that is not revoked.
Refreshable(s) ==
    /\ s \in tracked
    /\ current[payload[s].pair] = s
    /\ payload[s].pair \notin revokedPairs

\* refresh: a successor with the input of the seal.
Refresh(c, s) ==
    /\ Start(c)
    /\ Refreshable(s)
    /\ Build(c, NoCall, payload[s].pair, payload[s].input, s)
    /\ UNCHANGED <<tracked, current, revokedPairs, published>>

\* revoke's check: the seal is known and its pair is not revoked yet.
Revocable(s) == s \in tracked /\ payload[s].pair \notin revokedPairs

\* revoke, up to the await of the signature.
RevokeCall(w, s) ==
    [w EXCEPT !.at = "sign", !.kind = "revocation",
              !.pair = payload[s].pair, !.seal = s]

Revoke(c, s) ==
    /\ Start(c)
    /\ Revocable(s)
    /\ call' = [call EXCEPT ![c] = RevokeCall(NoCall, s)]
    /\ UNCHANGED <<payload, built, tracked, current, revokedPairs, published>>

\* The signature is there.
Signed(c) ==
    /\ call[c].at = "sign"
    /\ call' = [call EXCEPT ![c].at = "publish"]
    /\ UNCHANGED <<payload, built, tracked, current, revokedPairs, published, started>>

\* The message reaches the chat.
Delivered(c) ==
    /\ call[c].at = "publish"
    /\ published' = Append(published, [kind |-> call[c].kind, pair |-> call[c].pair,
                                       seal |-> call[c].seal])
    /\ call' = [call EXCEPT ![c].at = "answer"]
    /\ UNCHANGED <<payload, built, tracked, current, revokedPairs, started>>

\* The publication is confirmed: update the maps, without a second check.
Recorded(c) ==
    LET w == call[c] IN
    /\ w.at = "answer"
    /\ \/ /\ w.kind = "seal"
          /\ current' = [current EXCEPT ![w.pair] = w.seal]
          /\ tracked' = tracked \cup {w.seal}
          /\ UNCHANGED revokedPairs
       \/ /\ w.kind = "revocation"
          /\ current' = [current EXCEPT ![w.pair] = 0]
          /\ revokedPairs' = revokedPairs \cup {w.pair}
          /\ UNCHANGED tracked
    /\ call' = [call EXCEPT ![c] = Return(c, TRUE)]
    /\ UNCHANGED <<payload, built, published, started>>

\* Signing or publishing reports an error; the maps stay as they are.
Failed(c) ==
    /\ MayFail
    /\ call[c].at \in {"sign", "publish", "answer"}
    /\ call' = [call EXCEPT ![c] = Return(c, FALSE)]
    /\ UNCHANGED <<payload, built, tracked, current, revokedPairs, published, started>>

-----------------------------------------------------------------------------
\* onCredentialRevoked: go through the chats of the credential.
CredentialRevoked(c, cr) ==
    /\ Start(c)
    /\ call' = [call EXCEPT ![c] = [NoCall EXCEPT !.at = "next", !.hook = "revoked",
                                                  !.cred = cr, !.chats = Chats]]
    /\ UNCHANGED <<payload, built, tracked, current, revokedPairs, published>>

\* The next chat: read the current seal, and wait for the answer.
RevokedNext(c, chat) ==
    /\ call[c].at = "next" /\ call[c].hook = "revoked"
    /\ chat \in call[c].chats
    /\ call' = [call EXCEPT ![c].at = "look", ![c].chats = @ \ {chat},
                            ![c].pair = <<call[c].cred, chat>>,
                            ![c].seal = current[<<call[c].cred, chat>>]]
    /\ UNCHANGED <<payload, built, tracked, current, revokedPairs, published, started>>

\* The answer: revoke the seal that was current, or go on.
RevokedLook(c) ==
    LET w == call[c] IN
    /\ w.at = "look"
    /\ call' = [call EXCEPT ![c] = IF w.seal # 0 /\ Revocable(w.seal)
                                   THEN RevokeCall(w, w.seal)
                                   ELSE Return(c, FALSE)]
    /\ UNCHANGED <<payload, built, tracked, current, revokedPairs, published, started>>

\* onDisclosureChanged: go through the chats whose disclosure changed.
DisclosureChanged(c, chats) ==
    /\ Start(c)
    /\ call' = [call EXCEPT ![c] = [NoCall EXCEPT !.at = "next", !.hook = "disclosed",
                                                  !.chats = chats]]
    /\ UNCHANGED <<payload, built, tracked, current, revokedPairs, published>>

\* The next chat: list its current seals.
DisclosedList(c, chat) ==
    /\ call[c].at = "next" /\ call[c].hook = "disclosed"
    /\ call[c].todo = {}
    /\ chat \in call[c].chats
    /\ call' = [call EXCEPT
                  ![c].chats = @ \ {chat},
                  ![c].todo = {current[<<cr, chat>>] : cr \in Credentials} \ {0}]
    /\ UNCHANGED <<payload, built, tracked, current, revokedPairs, published, started>>

\* The newest seal of the list: refresh it; give up when that is refused
\* because the head moved or the pair was revoked since the list was taken.
DisclosedRefresh(c, s) ==
    LET w == [call[c] EXCEPT !.todo = @ \ {s}] IN
    /\ call[c].at = "next" /\ call[c].hook = "disclosed"
    /\ s \in call[c].todo
    /\ \A t \in call[c].todo : t <= s
    /\ \/ Refreshable(s) /\ Build(c, w, payload[s].pair, payload[s].input, s)
       \/ /\ ~Refreshable(s)
          /\ call' = [call EXCEPT ![c] = NoCall]
          /\ UNCHANGED <<payload, built>>
    /\ UNCHANGED <<tracked, current, revokedPairs, published, started>>

\* A hook that has nothing left to do ends.
HookDone(c) ==
    /\ call[c].at = "next"
    /\ call[c].chats = {} /\ call[c].todo = {}
    /\ call' = [call EXCEPT ![c] = NoCall]
    /\ UNCHANGED <<payload, built, tracked, current, revokedPairs, published, started>>

-----------------------------------------------------------------------------
\* The steps that continue a call.
Continue(c) ==
    \/ \E input \in Inputs : Resolved(c, input)
    \/ ResolveFailed(c)
    \/ Signed(c) \/ Delivered(c) \/ Recorded(c) \/ Failed(c)
    \/ \E chat \in Chats : RevokedNext(c, chat) \/ DisclosedList(c, chat)
    \/ RevokedLook(c)
    \/ \E s \in SealIds : DisclosedRefresh(c, s)
    \/ HookDone(c)

Next ==
    \E c \in Callers :
        \/ \E p \in Pairs : Issue(c, p)
        \/ \E s \in tracked : Refresh(c, s) \/ Revoke(c, s)
        \/ \E cr \in Credentials : CredentialRevoked(c, cr)
        \/ \E chats \in (SUBSET Chats) \ {{}} : DisclosureChanged(c, chats)
        \/ Continue(c)

Spec == Init /\ [][Next]_vars

\* Every promise a call waits for settles, so a call in progress goes on.
FairSpec == Spec /\ \A c \in Callers : WF_vars(Continue(c))

-----------------------------------------------------------------------------
(***************************************************************************)
(* history(): the chain of a pair, newest first, from the current seal or, *)
(* when there is none, from a tracked seal that no tracked seal names as   *)
(* its predecessor (the first stored one, if there are several).           *)
(***************************************************************************)
TrackedOf(p) == {s \in tracked : payload[s].pair = p}

Heads(p) == {s \in TrackedOf(p) : \A t \in TrackedOf(p) : payload[t].previous # s}

HistoryHead(p) ==
    IF current[p] # 0 THEN current[p]
    ELSE IF Heads(p) = {} THEN 0
    ELSE CHOOSE s \in Heads(p) : \A t \in Heads(p) : s <= t

History(p) ==
    LET from[s \in 0..built] ==
            IF s = 0 \/ s \notin tracked THEN << >>
            ELSE Append(from[payload[s].previous], s)
    IN from[HistoryHead(p)]

-----------------------------------------------------------------------------
(***************************************************************************)
(* Properties                                                              *)
(***************************************************************************)

\* Type correctness of the maps, the chat log and the calls.
TypeOK ==
    /\ built \in 0..MaxSeals
    /\ payload \in Seq(Payload) /\ Len(payload) = built
    /\ tracked \subseteq 1..built
    /\ current \in [Pairs -> 0..built]
    /\ revokedPairs \subseteq Pairs
    /\ published \in Seq(Message)
    /\ call \in [Callers -> CallState]
    /\ started \in 0..MaxStarts

\* A seal of the chain never dangles: whatever failed or overtook it, every
\* seal the manager knows, and the one it calls current, has been published
\* for its own pair, and its predecessor is a known seal of the same pair.
ChainIsRooted ==
    /\ \A s \in tracked :
          /\ \E k \in DOMAIN published :
                published[k] = [kind |-> "seal", pair |-> payload[s].pair, seal |-> s]
          /\ payload[s].previous # 0 =>
                /\ payload[s].previous \in tracked
                /\ payload[payload[s].previous].pair = payload[s].pair
    /\ \A p \in Pairs :
          current[p] # 0 => current[p] \in tracked /\ payload[current[p]].pair = p

\* A reader of the chat can follow the chain as it arrives: a seal is never
\* published before its predecessor, in whatever order calls settle, and a
\* revocation only follows a seal of its pair that it can name.
PredecessorIsPublishedFirst ==
    \A k \in DOMAIN published :
        LET m == published[k]
            before == IF m.kind = "seal" THEN payload[m.seal].previous ELSE m.seal
        IN before # 0 =>
              \E j \in 1..(k - 1) :
                  published[j] = [kind |-> "seal", pair |-> m.pair, seal |-> before]

\* The manager refuses a pair only once its members can see why: a pair is
\* marked revoked only after its revocation has reached the chat, even when
\* publications fail.
MarkedOnceVisible ==
    \A p \in revokedPairs :
        \E k \in DOMAIN published :
            published[k].kind = "revocation" /\ published[k].pair = p

\* What members can rely on however calls overlap and whatever fails: the
\* chain is rooted, arrives in order, and is refused only once they know.
ChatTellsTheChain == ChainIsRooted /\ PredecessorIsPublishedFirst /\ MarkedOnceVisible

\* The manager keeps one chain per pair: exactly one of the seals it knows is
\* not the predecessor of another one (the comment of findHistoryHead relies
\* on it).  True as long as calls do not overlap.
OneHistoryHead ==
    \A p \in Pairs : Cardinality(Heads(p)) <= 1

\* "marks credential+chat as revoked (terminal)" (seals manager test): a
\* revoked pair has no current seal.  True as long as calls do not overlap.
RevokedIsTerminal ==
    \A p \in revokedPairs : current[p] = 0

\* What the manager promises, when calls do not overlap: history() is a
\* linear chain that only grows at its end until the pair is revoked.
Abstract == INSTANCE SealChain WITH
    chain <- [p \in Pairs |-> History(p)], closed <- revokedPairs

ImplementsSealChain == Abstract!Spec

\* The revocation hook gets to every chat: a pair with a current seal that is
\* still on its list is tried in the end, although the revocation of another
\* pair failed, and whatever other calls run meanwhile.
RevocationHookTriesEveryPair ==
    \A p \in Pairs :
        (\E c \in Callers :
            /\ call[c].hook = "revoked" /\ call[c].at = "next"
            /\ call[c].cred = p[1] /\ p[2] \in call[c].chats
            /\ current[p] # 0)
        ~> (\/ p \in revokedPairs
            \/ \E c \in Callers : /\ call[c].hook = "revoked"
                                  /\ call[c].pair = p /\ call[c].at = "sign")
=============================================================================
