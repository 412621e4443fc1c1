------------------------- MODULE SealManagerProofs -------------------------
(***************************************************************************)
(* What members of a chat can rely on, for any number of callers, seals    *)
(* and chats: ChatTellsTheChain of SealManager.  It is not inductive as it *)
(* stands, since what a call publishes was decided steps earlier; CallsFit *)
(* says what still holds of a call while it signs and publishes.           *)
(*                                                                         *)
(* For calls that do not overlap: one chain per pair, and the refinement   *)
(* of SealChain.                                                           *)
(***************************************************************************)
EXTENDS SealManager, FiniteSetTheorems, WellFoundedInduction, TLAPS

Signing == {"sign", "publish", "answer"}

InChat(m) == \E k \in DOMAIN published : published[k] = m

\* The predecessor of a seal is known, and of the same pair.
Rooted(s) ==
    payload[s].previous # 0 =>
        /\ payload[s].previous \in tracked
        /\ payload[payload[s].previous].pair = payload[s].pair

\* A call that signs or publishes names a seal of its pair: one it has built on
\* a known predecessor, or a known one it revokes.
CallFits(c) ==
    /\ call[c].at \in Signing =>
          /\ call[c].kind # "none"
          /\ call[c].seal \in 1..built
          /\ call[c].pair = payload[call[c].seal].pair
          /\ call[c].kind = "seal" => Rooted(call[c].seal)
          /\ call[c].kind = "revocation" => call[c].seal \in tracked
    /\ call[c].at = "answer" =>
          InChat([kind |-> call[c].kind, pair |-> call[c].pair, seal |-> call[c].seal])
    /\ call[c].at = "resolve" => call[c].pair \in Pairs
    /\ call[c].hook = "revoked" => call[c].cred \in Credentials

CallsFit == \A c \in Callers : CallFits(c)

\* A message names a seal that has been built.
MessagesNameSeals == \A k \in DOMAIN published : published[k].seal \in 1..built

IInv == TypeOK /\ ChatTellsTheChain /\ MessagesNameSeals /\ CallsFit

-----------------------------------------------------------------------------
\* What appending does to the log and to the payloads.
LEMMA Appended ==
    ASSUME NEW S, NEW s \in Seq(S), NEW x \in S
    PROVE  /\ Append(s, x) \in Seq(S)
           /\ Len(Append(s, x)) = Len(s) + 1
           /\ DOMAIN Append(s, x) = 1..(Len(s) + 1)
           /\ \A i \in 1..Len(s) : Append(s, x)[i] = s[i]
           /\ Append(s, x)[Len(s) + 1] = x
  OBVIOUS

\* A call that starts to sign and publish is a call.
LEMMA SigningIsACall ==
    ASSUME NEW w \in CallState, NEW k \in {"seal", "revocation"}, NEW p \in Pairs,
           NEW s \in 0..MaxSeals
    PROVE  /\ [w EXCEPT !.at = "sign", !.kind = k, !.pair = p, !.seal = s] \in CallState
           /\ [w EXCEPT !.at = "sign", !.kind = k, !.pair = p, !.seal = s].hook = w.hook
           /\ [w EXCEPT !.at = "sign", !.kind = k, !.pair = p, !.seal = s].cred = w.cred
  BY DEF CallState

\* A step that changes one call, and nothing the calls share.
LEMMA CallOnly ==
    ASSUME IInv, NEW c \in Callers, NEW w \in CallState,
           call' = [call EXCEPT ![c] = w],
           UNCHANGED <<payload, built, tracked, current, revokedPairs, published>>,
           started' \in 0..MaxStarts,
           CallFits(c)'
    PROVE  IInv'
<1>1. TypeOK'
  BY DEF IInv, TypeOK
<1>2. ChatTellsTheChain'
  BY DEF IInv, ChatTellsTheChain, ChainIsRooted, PredecessorIsPublishedFirst,
         MarkedOnceVisible
<1>3. CallsFit'
  <2> SUFFICES ASSUME NEW d \in Callers, d # c
               PROVE  CallFits(d)'
    BY DEF CallsFit
  <2>1. call'[d] = call[d]
    BY DEF IInv, TypeOK
  <2> QED
    BY <2>1 DEF IInv, CallsFit, CallFits, Rooted, InChat
<1>4. MessagesNameSeals'
  BY DEF IInv, MessagesNameSeals
<1> QED
  BY <1>1, <1>2, <1>3, <1>4 DEF IInv

\* A call builds a seal on a known one of its pair, or on none.
LEMMA BuildKeeps ==
    ASSUME IInv, NEW c \in Callers, NEW w \in CallState,
           NEW p \in Pairs, NEW input \in Inputs, NEW previous \in 0..built,
           previous # 0 => previous \in tracked /\ payload[previous].pair = p,
           w.hook = "revoked" => w.cred \in Credentials,
           Build(c, w, p, input, previous),
           UNCHANGED <<tracked, current, revokedPairs, published>>,
           started' \in 0..MaxStarts
    PROVE  IInv'
<1> DEFINE x == [pair |-> p, input |-> input, previous |-> previous]
           v == [w EXCEPT !.at = "sign", !.kind = "seal", !.pair = p,
                          !.seal = built + 1]
<1>1. /\ built \in Nat /\ built < MaxSeals /\ built' = built + 1
      /\ payload \in Seq(Payload) /\ Len(payload) = built
      /\ payload' = Append(payload, x)
      /\ call' = [call EXCEPT ![c] = v]
  BY DEF IInv, TypeOK, Build
<1>2. x \in Payload
  BY <1>1, BoundsAssumption DEF Payload
<1>3. /\ payload' \in Seq(Payload) /\ Len(payload') = built'
      /\ \A s \in 1..built : payload'[s] = payload[s]
      /\ payload'[built + 1] = x
  BY <1>1, <1>2, Appended
<1>4. v \in CallState
  <2>1. built + 1 \in 0..MaxSeals
    BY <1>1, BoundsAssumption
  <2> QED
    BY <2>1, SigningIsACall
<1>5. TypeOK'
  BY <1>1, <1>3, <1>4, BoundsAssumption DEF IInv, TypeOK
<1>6. \A s \in tracked : /\ s \in 1..built
                         /\ payload[s].previous \in 0..MaxSeals
                         /\ payload'[s] = payload[s]
  <2> SUFFICES ASSUME NEW s \in tracked
               PROVE  /\ s \in 1..built
                      /\ payload[s].previous \in 0..MaxSeals
                      /\ payload'[s] = payload[s]
    OBVIOUS
  <2>1. s \in 1..built
    BY DEF IInv, TypeOK
  <2>2. payload[s] \in Payload
    BY <1>1, <2>1
  <2> QED
    BY <1>3, <2>1, <2>2 DEF Payload
<1>7. \A s \in 1..built : Rooted(s) => Rooted(s)'
  BY <1>3, <1>6 DEF Rooted
<1>8. ChainIsRooted'
  <2>1. /\ \A s \in tracked : payload'[s] = payload[s]
        /\ \A q \in Pairs : current[q] # 0 => current[q] \in tracked
        /\ \A s \in tracked : payload[s].previous # 0 => payload[s].previous \in tracked
    BY <1>6 DEF IInv, ChatTellsTheChain, ChainIsRooted
  <2> QED
    BY <2>1 DEF IInv, ChatTellsTheChain, ChainIsRooted
<1>9. PredecessorIsPublishedFirst'
  <2>1. \A k \in DOMAIN published :
           payload'[published[k].seal] = payload[published[k].seal]
    BY <1>3 DEF IInv, MessagesNameSeals
  <2> QED
    BY <2>1 DEF IInv, ChatTellsTheChain, PredecessorIsPublishedFirst
<1>10. MarkedOnceVisible'
  BY DEF IInv, ChatTellsTheChain, MarkedOnceVisible
<1>11. MessagesNameSeals'
  BY <1>1 DEF IInv, MessagesNameSeals
<1>12. CallFits(c)'
  <2>1. call'[c] = v
    BY <1>1 DEF IInv, TypeOK
  <2>2. /\ v.at = "sign" /\ v.kind = "seal" /\ v.pair = p /\ v.seal = built + 1
        /\ v.hook = w.hook /\ v.cred = w.cred
    BY DEF CallState
  <2>3. previous # 0 => /\ previous \in 1..built
                        /\ payload'[previous] = payload[previous]
    BY <1>1, <1>3
  <2>4. payload'[built'].previous = previous /\ payload'[built'].pair = p
    BY <1>1, <1>3
  <2>5. Rooted(built)'
    BY <2>3, <2>4 DEF Rooted
  <2>6. call'[c].seal = built' /\ built' \in 1..built'
    <3>1. built' = built + 1 /\ built' \in 1..built'
      BY <1>1
    <3> HIDE DEF v
    <3> QED
      BY <3>1, <2>1, <2>2
  <2> QED
    BY <2>1, <2>2, <2>4, <2>5, <2>6 DEF CallFits, Signing
<1>13. CallsFit'
  <2> SUFFICES ASSUME NEW d \in Callers, d # c
               PROVE  CallFits(d)'
    BY <1>12 DEF CallsFit
  <2>1. call'[d] = call[d] /\ CallFits(d)
    BY <1>1 DEF IInv, TypeOK, CallsFit
  <2>2. call[d].at \in Signing =>
           /\ payload'[call[d].seal] = payload[call[d].seal]
           /\ call[d].seal \in 1..built'
           /\ Rooted(call[d].seal) => Rooted(call[d].seal)'
    BY <1>1, <1>3, <1>7, <2>1 DEF CallFits
  <2> QED
    BY <2>1, <2>2 DEF CallFits, InChat, Rooted
<1> QED
  BY <1>5, <1>8, <1>9, <1>10, <1>11, <1>13 DEF IInv, ChatTellsTheChain

\* A publication that reaches the chat: the log tells what the call fits.
LEMMA DeliveredKeeps ==
    ASSUME IInv, NEW c \in Callers, Delivered(c)
    PROVE  IInv'
<1> DEFINE m == [kind |-> call[c].kind, pair |-> call[c].pair, seal |-> call[c].seal]
           v == [call[c] EXCEPT !.at = "answer"]
<1>1. /\ call[c] \in CallState /\ call[c].at = "publish" /\ CallFits(c)
      /\ published \in Seq(Message) /\ published' = Append(published, m)
      /\ call' = [call EXCEPT ![c] = v]
      /\ built \in 0..MaxSeals
      /\ UNCHANGED <<payload, built, tracked, current, revokedPairs, started>>
  BY DEF IInv, TypeOK, CallsFit, Delivered
<1>2. /\ call[c].kind \in {"seal", "revocation"}
      /\ call[c].seal \in 1..built
      /\ call[c].pair = payload[call[c].seal].pair
      /\ call[c].kind = "seal" => Rooted(call[c].seal)
      /\ call[c].kind = "revocation" => call[c].seal \in tracked
  BY <1>1 DEF CallFits, Signing, CallState
<1>3. payload[call[c].seal] \in Payload
  BY <1>2 DEF IInv, TypeOK
<1>4. m \in Message
  BY <1>1, <1>2, <1>3, BoundsAssumption DEF Message, Payload, SealIds
<1>5. /\ published' \in Seq(Message)
      /\ DOMAIN published = 1..Len(published)
      /\ DOMAIN published' = 1..(Len(published) + 1)
      /\ Len(published) \in Nat
      /\ \A k \in DOMAIN published : k \in DOMAIN published' /\ published'[k] = published[k]
      /\ published'[Len(published) + 1] = m
  BY <1>1, <1>4, Appended
<1>6. /\ v \in CallState
      /\ v.at = "answer" /\ v.kind = call[c].kind /\ v.pair = call[c].pair
      /\ v.seal = call[c].seal /\ v.hook = call[c].hook /\ v.cred = call[c].cred
  BY <1>1 DEF CallState
<1>7. TypeOK'
  BY <1>1, <1>5, <1>6 DEF IInv, TypeOK
<1>8. ASSUME NEW n, InChat(n)
      PROVE  InChat(n)'
  BY <1>5, <1>8 DEF InChat
<1>9. ChainIsRooted'
  <2>1. ASSUME NEW s \in tracked
        PROVE  InChat([kind |-> "seal", pair |-> payload[s].pair, seal |-> s])
    BY DEF IInv, ChatTellsTheChain, ChainIsRooted, InChat
  <2>2. ASSUME NEW s \in tracked
        PROVE  \E k \in DOMAIN published' :
                  published'[k] = [kind |-> "seal", pair |-> payload[s].pair, seal |-> s]
    BY <2>1, <1>8 DEF InChat
  <2> QED
    BY <1>1, <2>2 DEF IInv, ChatTellsTheChain, ChainIsRooted
<1>10. PredecessorIsPublishedFirst'
  <2> DEFINE Before(n) == IF n.kind = "seal" THEN payload[n.seal].previous ELSE n.seal
  <2>1. ASSUME NEW k \in DOMAIN published, Before(published[k]) # 0
        PROVE  \E j \in 1..(k - 1) :
                  published'[j] = [kind |-> "seal", pair |-> published[k].pair,
                                   seal |-> Before(published[k])]
    <3>1. PICK j \in 1..(k - 1) :
             published[j] = [kind |-> "seal", pair |-> published[k].pair,
                             seal |-> Before(published[k])]
      BY <2>1 DEF IInv, ChatTellsTheChain, PredecessorIsPublishedFirst
    <3>2. j \in DOMAIN published
      BY <1>5
    <3> QED
      BY <1>5, <3>1, <3>2
  <2>2. ASSUME Before(m) # 0
        PROVE  \E j \in 1..Len(published) :
                  published'[j] = [kind |-> "seal", pair |-> m.pair, seal |-> Before(m)]
    <3>1. Before(m) \in tracked /\ payload[Before(m)].pair = m.pair
      BY <1>2, <2>2 DEF Rooted
    <3>2. PICK j \in DOMAIN published :
             published[j] = [kind |-> "seal", pair |-> m.pair, seal |-> Before(m)]
      BY <3>1 DEF IInv, ChatTellsTheChain, ChainIsRooted
    <3> QED
      BY <1>5, <3>2
  <2> SUFFICES ASSUME NEW k \in DOMAIN published', Before(published'[k]) # 0
               PROVE  \E j \in 1..(k - 1) :
                         published'[j] = [kind |-> "seal", pair |-> published'[k].pair,
                                          seal |-> Before(published'[k])]
    BY <1>1 DEF PredecessorIsPublishedFirst
  <2>3. CASE k \in DOMAIN published
    BY <1>5, <2>1, <2>3
  <2>4. CASE k = Len(published) + 1
    <3>1. published'[k] = m /\ k - 1 = Len(published)
      BY <1>5, <2>4
    <3> QED
      BY <2>2, <3>1
  <2> QED
    BY <1>5, <2>3, <2>4
<1>11. MarkedOnceVisible'
  BY <1>1, <1>5 DEF IInv, ChatTellsTheChain, MarkedOnceVisible
<1>12. MessagesNameSeals'
  <2> SUFFICES ASSUME NEW k \in DOMAIN published'
               PROVE  published'[k].seal \in 1..built
    BY <1>1 DEF MessagesNameSeals
  <2>1. CASE k \in DOMAIN published
    BY <1>5, <2>1 DEF IInv, MessagesNameSeals
  <2>2. CASE k = Len(published) + 1
    BY <1>2, <1>5, <2>2
  <2> QED
    BY <1>5, <2>1, <2>2
<1>13. CallFits(c)'
  <2>1. call'[c] = v
    BY <1>1 DEF IInv, TypeOK
  <2>2. \E k \in DOMAIN published' : published'[k] = m
    BY <1>5
  <2>3. InChat([kind |-> call[c].kind, pair |-> call[c].pair, seal |-> call[c].seal])'
    BY <1>6, <2>1, <2>2 DEF InChat
  <2> QED
    BY <1>1, <1>2, <1>6, <2>1, <2>3 DEF CallFits, Signing, Rooted
<1>14. CallsFit'
  <2> SUFFICES ASSUME NEW d \in Callers, d # c
               PROVE  CallFits(d)'
    BY <1>13 DEF CallsFit
  <2>1. call'[d] = call[d] /\ CallFits(d)
    BY <1>1 DEF IInv, TypeOK, CallsFit
  <2>2. call[d].at = "answer" =>
           InChat([kind |-> call[d].kind, pair |-> call[d].pair, seal |-> call[d].seal])'
    BY <2>1, <1>8 DEF CallFits
  <2> QED
    BY <1>1, <2>1, <2>2 DEF CallFits, Rooted
<1> QED
  BY <1>7, <1>9, <1>10, <1>11, <1>12, <1>14 DEF IInv, ChatTellsTheChain

\* What a call is once its method has returned: a hook goes on, another call ends.
LEMMA ReturnIsACall ==
    ASSUME IInv, NEW c \in Callers, NEW ok \in BOOLEAN
    PROVE  /\ Return(c, ok) \in CallState
           /\ Return(c, ok).at \in {"idle", "next"}
           /\ Return(c, ok).hook = "revoked" => Return(c, ok).cred \in Credentials
<1>1. call[c] \in CallState /\ CallFits(c)
  BY DEF IInv, TypeOK, CallsFit
<1>2. NoCall \in CallState /\ NoCall.at = "idle" /\ NoCall.hook = "none"
  BY BoundsAssumption DEF NoCall, CallState
<1> DEFINE v == [call[c] EXCEPT !.at = "next", !.kind = "none"]
<1>3. /\ v \in CallState /\ v.at = "next"
      /\ v.hook = call[c].hook /\ v.cred = call[c].cred
  BY <1>1 DEF CallState
<1>4. v.hook = "revoked" => v.cred \in Credentials
  BY <1>1, <1>3 DEF CallFits
<1>5. Return(c, ok) = v \/ Return(c, ok) = NoCall
  BY DEF Return
<1> HIDE DEF v
<1> QED
  BY <1>2, <1>3, <1>4, <1>5

\* The maps follow a publication the chat has.
LEMMA RecordedKeeps ==
    ASSUME IInv, NEW c \in Callers, Recorded(c)
    PROVE  IInv'
<1> DEFINE s == call[c].seal
           p == call[c].pair
           v == Return(c, TRUE)
<1>1. /\ call[c] \in CallState /\ call[c].at = "answer" /\ CallFits(c)
      /\ call' = [call EXCEPT ![c] = v]
      /\ UNCHANGED <<payload, built, published, started>>
  BY DEF IInv, TypeOK, CallsFit, Recorded
<1>2. /\ s \in 1..built /\ p = payload[s].pair
      /\ call[c].kind = "seal" => Rooted(s)
      /\ InChat([kind |-> call[c].kind, pair |-> p, seal |-> s])
  BY <1>1 DEF CallFits, Signing
<1>3. payload[s] \in Payload /\ p \in Pairs
  <2>1. payload[s] \in Payload
    BY <1>2 DEF IInv, TypeOK
  <2> QED
    BY <1>2, <2>1 DEF Payload
<1>4. \/ /\ call[c].kind = "seal"
         /\ current' = [current EXCEPT ![p] = s]
         /\ tracked' = tracked \cup {s}
         /\ revokedPairs' = revokedPairs
      \/ /\ call[c].kind = "revocation"
         /\ current' = [current EXCEPT ![p] = 0]
         /\ revokedPairs' = revokedPairs \cup {p}
         /\ tracked' = tracked
  BY DEF Recorded
<1>5. /\ tracked \subseteq tracked'
      /\ \A t \in tracked' : t \in tracked \/ (t = s /\ call[c].kind = "seal")
      /\ \A q \in revokedPairs' : q \in revokedPairs \/ (q = p /\ call[c].kind = "revocation")
  BY <1>4
<1>6. current \in [Pairs -> 0..built] /\ built \in Nat
  BY DEF IInv, TypeOK
<1>7. \A q \in Pairs : \/ current'[q] = current[q]
                       \/ current'[q] = 0
                       \/ q = p /\ current'[q] = s /\ s \in tracked'
  BY <1>3, <1>4, <1>6
<1>8. TypeOK'
  <2>1. current' \in [Pairs -> 0..built]
    BY <1>2, <1>3, <1>4, <1>6
  <2>2. tracked' \subseteq 1..built /\ revokedPairs' \subseteq Pairs
    BY <1>2, <1>3, <1>5 DEF IInv, TypeOK
  <2>3. call' \in [Callers -> CallState]
    BY <1>1, ReturnIsACall DEF IInv, TypeOK
  <2> QED
    BY <1>1, <2>1, <2>2, <2>3 DEF IInv, TypeOK
<1>9. ChainIsRooted'
  <2>1. ASSUME NEW t \in tracked'
        PROVE  /\ \E k \in DOMAIN published :
                     published[k] = [kind |-> "seal", pair |-> payload[t].pair, seal |-> t]
               /\ payload[t].previous # 0 =>
                     /\ payload[t].previous \in tracked'
                     /\ payload[payload[t].previous].pair = payload[t].pair
    <3>1. CASE t \in tracked
      BY <1>5, <3>1 DEF IInv, ChatTellsTheChain, ChainIsRooted
    <3>2. CASE t = s /\ call[c].kind = "seal"
      BY <1>2, <1>5, <3>2 DEF InChat, Rooted
    <3> QED
      BY <1>5, <3>1, <3>2
  <2>2. ASSUME NEW q \in Pairs, current'[q] # 0
        PROVE  current'[q] \in tracked' /\ payload[current'[q]].pair = q
    BY <1>2, <1>5, <1>7, <2>2 DEF IInv, ChatTellsTheChain, ChainIsRooted
  <2> QED
    BY <1>1, <2>1, <2>2 DEF ChainIsRooted
<1>10. PredecessorIsPublishedFirst'
  BY <1>1 DEF IInv, ChatTellsTheChain, PredecessorIsPublishedFirst
<1>11. MarkedOnceVisible'
  <2> SUFFICES ASSUME NEW q \in revokedPairs'
               PROVE  \E k \in DOMAIN published :
                         published[k].kind = "revocation" /\ published[k].pair = q
    BY <1>1 DEF MarkedOnceVisible
  <2>1. CASE q \in revokedPairs
    BY <2>1 DEF IInv, ChatTellsTheChain, MarkedOnceVisible
  <2>2. CASE q = p /\ call[c].kind = "revocation"
    BY <1>2, <2>2 DEF InChat
  <2> QED
    BY <1>5, <2>1, <2>2
<1>12. MessagesNameSeals'
  BY <1>1 DEF IInv, MessagesNameSeals
<1>13. CallsFit'
  <2> SUFFICES ASSUME NEW d \in Callers
               PROVE  CallFits(d)'
    BY DEF CallsFit
  <2>1. CASE d = c
    <3>1. call'[d] = v
      BY <1>1, <2>1 DEF IInv, TypeOK
    <3>2. v.at \in {"idle", "next"} /\ (v.hook = "revoked" => v.cred \in Credentials)
      BY ReturnIsACall
    <3> QED
      BY <3>1, <3>2 DEF CallFits, Signing
  <2>2. CASE d # c
    <3>1. call'[d] = call[d] /\ CallFits(d)
      BY <1>1, <2>2 DEF IInv, TypeOK, CallsFit
    <3> QED
      BY <1>1, <1>5, <3>1 DEF CallFits, Rooted, InChat
  <2> QED
    BY <2>1, <2>2
<1> QED
  BY <1>8, <1>9, <1>10, <1>11, <1>12, <1>13 DEF IInv, ChatTellsTheChain

\* A step after which its call signs nothing.
LEMMA QuietKeeps ==
    ASSUME IInv, NEW c \in Callers, NEW w \in CallState,
           w.at \notin Signing,
           w.at = "resolve" => w.pair \in Pairs,
           w.hook = "revoked" => w.cred \in Credentials,
           call' = [call EXCEPT ![c] = w],
           UNCHANGED <<payload, built, tracked, current, revokedPairs, published>>,
           started' \in 0..MaxStarts
    PROVE  IInv'
<1>1. call'[c] = w
  BY DEF IInv, TypeOK
<1>2. CallFits(c)'
  BY <1>1 DEF CallFits, Signing
<1> QED
  BY <1>2, CallOnly

\* A revocation of a known seal begins.
LEMMA RevokeKeeps ==
    ASSUME IInv, NEW c \in Callers, NEW w \in CallState, NEW s \in tracked,
           w.hook = "revoked" => w.cred \in Credentials,
           call' = [call EXCEPT ![c] = RevokeCall(w, s)],
           UNCHANGED <<payload, built, tracked, current, revokedPairs, published>>,
           started' \in 0..MaxStarts
    PROVE  IInv'
<1> DEFINE p == payload[s].pair
           v == RevokeCall(w, s)
<1>1. s \in 1..built /\ s \in 0..MaxSeals
  BY BoundsAssumption DEF IInv, TypeOK
<1>2. payload[s] \in Payload
  BY <1>1 DEF IInv, TypeOK
<1>3. p \in Pairs
  BY <1>2 DEF Payload
<1>4. v \in CallState /\ v.hook = w.hook /\ v.cred = w.cred
  <2> DEFINE u == [w EXCEPT !.at = "sign", !.kind = "revocation", !.pair = p, !.seal = s]
  <2>1. v = u
    BY DEF RevokeCall
  <2>2. u \in CallState
    BY <1>1, <1>3, SigningIsACall
  <2>3. u.hook = w.hook /\ u.cred = w.cred
    BY DEF CallState
  <2> HIDE DEF u, v
  <2> QED
    BY <2>1, <2>2, <2>3
<1>5. v.at = "sign" /\ v.kind = "revocation" /\ v.pair = p /\ v.seal = s
  BY DEF RevokeCall, CallState
<1>6. call'[c] = v
  BY DEF IInv, TypeOK
<1> HIDE DEF v
<1>7. CallFits(c)'
  BY <1>1, <1>4, <1>5, <1>6 DEF CallFits, Signing
<1> QED
  BY <1>4, <1>7, CallOnly DEF v

\* A call with no part in anything yet.
LEMMA NoCallIsACall ==
    /\ NoCall \in CallState
    /\ NoCall.at = "idle"
    /\ NoCall.hook = "none"
  BY BoundsAssumption DEF NoCall, CallState

\* Calls start one at a time, within the bound.
LEMMA StartCounts ==
    ASSUME IInv, NEW c \in Callers, Start(c)
    PROVE  started' \in 0..MaxStarts
  BY BoundsAssumption DEF IInv, TypeOK, Start

\* A seal the manager may refresh or revoke is one it has built, with a pair,
\* an input and a predecessor.
LEMMA TrackedIsBuilt ==
    ASSUME IInv, NEW s \in tracked
    PROVE  /\ s \in 0..built
           /\ payload[s].pair \in Pairs
           /\ payload[s].input \in Inputs
<1>1. s \in 1..built
  BY DEF IInv, TypeOK
<1>2. payload[s] \in Payload
  BY <1>1 DEF IInv, TypeOK
<1> QED
  BY <1>1, <1>2 DEF Payload, IInv, TypeOK

\* The calls that start outside a hook: issue, refresh and revoke.
LEMMA StartsKeep ==
    ASSUME IInv, NEW c \in Callers,
           \/ \E p \in Pairs : Issue(c, p)
           \/ \E s \in tracked : Refresh(c, s) \/ Revoke(c, s)
    PROVE  IInv'
<1>1. ASSUME NEW p \in Pairs, Issue(c, p)
      PROVE  IInv'
  <2> DEFINE w == [NoCall EXCEPT !.at = "resolve", !.pair = p]
  <2>1. /\ w \in CallState /\ w.at = "resolve" /\ w.pair = p
        /\ w.hook = "none"
    BY NoCallIsACall DEF CallState
  <2>2. w.at \notin Signing
    BY <2>1 DEF Signing
  <2>3. /\ call' = [call EXCEPT ![c] = w]
        /\ UNCHANGED <<payload, built, tracked, current, revokedPairs, published>>
        /\ started' \in 0..MaxStarts
    BY <1>1, StartCounts DEF Issue
  <2> HIDE DEF w
  <2> QED
    BY <2>1, <2>2, <2>3, QuietKeeps
<1>2. ASSUME NEW s \in tracked, Refresh(c, s)
      PROVE  IInv'
  <2>1. /\ Build(c, NoCall, payload[s].pair, payload[s].input, s)
        /\ UNCHANGED <<tracked, current, revokedPairs, published>>
        /\ started' \in 0..MaxStarts
    BY <1>2, StartCounts DEF Refresh
  <2> QED
    BY <2>1, TrackedIsBuilt, NoCallIsACall, BuildKeeps
<1>3. ASSUME NEW s \in tracked, Revoke(c, s)
      PROVE  IInv'
  <2>1. /\ call' = [call EXCEPT ![c] = RevokeCall(NoCall, s)]
        /\ UNCHANGED <<payload, built, tracked, current, revokedPairs, published>>
        /\ started' \in 0..MaxStarts
    BY <1>3, StartCounts DEF Revoke
  <2> QED
    BY <2>1, NoCallIsACall, RevokeKeeps
<1> QED
  BY <1>1, <1>2, <1>3

\* The hooks: they start, take the next chat or seal, and end.
LEMMA HooksKeep ==
    ASSUME IInv, NEW c \in Callers,
           \/ \E cr \in Credentials : CredentialRevoked(c, cr)
           \/ \E chats \in (SUBSET Chats) \ {{}} : DisclosureChanged(c, chats)
           \/ \E chat \in Chats : RevokedNext(c, chat) \/ DisclosedList(c, chat)
           \/ RevokedLook(c)
           \/ \E s \in SealIds : DisclosedRefresh(c, s)
           \/ HookDone(c)
    PROVE  IInv'
<1>1. /\ call[c] \in CallState /\ CallFits(c) /\ started \in 0..MaxStarts
      /\ current \in [Pairs -> 0..built] /\ built \in 0..MaxSeals
  BY DEF IInv, TypeOK, CallsFit
<1>2. ASSUME NEW cr \in Credentials, CredentialRevoked(c, cr)
      PROVE  IInv'
  <2> DEFINE w == [NoCall EXCEPT !.at = "next", !.hook = "revoked",
                                 !.cred = cr, !.chats = Chats]
  <2>1. w \in CallState /\ w.at = "next" /\ w.cred = cr
    BY NoCallIsACall DEF CallState
  <2>2. w.at \notin Signing /\ w.at # "resolve"
    BY <2>1 DEF Signing
  <2>3. /\ call' = [call EXCEPT ![c] = w]
        /\ UNCHANGED <<payload, built, tracked, current, revokedPairs, published>>
        /\ started' \in 0..MaxStarts
    BY <1>2, StartCounts DEF CredentialRevoked
  <2> HIDE DEF w
  <2> QED
    BY <2>1, <2>2, <2>3, QuietKeeps
<1>3. ASSUME NEW chats \in SUBSET Chats, DisclosureChanged(c, chats)
      PROVE  IInv'
  <2> DEFINE w == [NoCall EXCEPT !.at = "next", !.hook = "disclosed", !.chats = chats]
  <2>1. w \in CallState /\ w.at = "next" /\ w.hook = "disclosed"
    BY NoCallIsACall DEF CallState
  <2>2. w.at \notin Signing /\ w.at # "resolve"
    BY <2>1 DEF Signing
  <2>3. /\ call' = [call EXCEPT ![c] = w]
        /\ UNCHANGED <<payload, built, tracked, current, revokedPairs, published>>
        /\ started' \in 0..MaxStarts
    BY <1>3, StartCounts DEF DisclosureChanged
  <2> HIDE DEF w
  <2> QED
    BY <2>1, <2>2, <2>3, QuietKeeps
<1>4. ASSUME NEW chat \in Chats, RevokedNext(c, chat)
      PROVE  IInv'
  <2> DEFINE p == <<call[c].cred, chat>>
             w == [call[c] EXCEPT !.at = "look", !.chats = @ \ {chat},
                                  !.pair = p, !.seal = current[p]]
  <2>1. p \in Pairs /\ call[c].cred \in Credentials
    BY <1>1, <1>4 DEF RevokedNext, CallFits, Pairs
  <2>2. current[p] \in 0..MaxSeals
    BY <1>1, <2>1, BoundsAssumption
  <2>3. /\ call' = [call EXCEPT ![c] = w]
        /\ UNCHANGED <<payload, built, tracked, current, revokedPairs, published, started>>
    BY <1>4 DEF RevokedNext
  <2> HIDE DEF p
  <2>4. /\ w \in CallState /\ w.at = "look"
        /\ w.hook = call[c].hook /\ w.cred = call[c].cred
    BY <1>1, <2>1, <2>2 DEF CallState
  <2>5. w.at \notin Signing /\ w.at # "resolve"
    BY <2>4 DEF Signing
  <2> HIDE DEF w
  <2> QED
    BY <1>1, <2>1, <2>3, <2>4, <2>5, QuietKeeps
<1>5. ASSUME NEW chat \in Chats, DisclosedList(c, chat)
      PROVE  IInv'
  <2> DEFINE heads == {current[<<cr, chat>>] : cr \in Credentials} \ {0}
             w == [call[c] EXCEPT !.chats = @ \ {chat}, !.todo = heads]
  <2>1. heads \subseteq SealIds
    <3>1. ASSUME NEW cr \in Credentials, current[<<cr, chat>>] # 0
          PROVE  current[<<cr, chat>>] \in 1..MaxSeals
      <4>1. <<cr, chat>> \in Pairs
        BY DEF Pairs
      <4> QED
        BY <1>1, <3>1, <4>1, BoundsAssumption
    <3> QED
      BY <3>1 DEF SealIds
  <2>2. /\ call' = [call EXCEPT ![c] = w]
        /\ call[c].at = "next" /\ call[c].hook = "disclosed"
        /\ UNCHANGED <<payload, built, tracked, current, revokedPairs, published, started>>
    BY <1>5 DEF DisclosedList
  <2> HIDE DEF heads
  <2>3. /\ w \in CallState /\ w.at = call[c].at
        /\ w.hook = call[c].hook /\ w.cred = call[c].cred
    BY <1>1, <2>1 DEF CallState
  <2>4. w.at \notin Signing /\ w.at # "resolve" /\ w.hook # "revoked"
    BY <2>2, <2>3 DEF Signing
  <2> HIDE DEF w
  <2> QED
    BY <1>1, <2>2, <2>3, <2>4, QuietKeeps
<1>6. CASE RevokedLook(c)
  <2>1. /\ UNCHANGED <<payload, built, tracked, current, revokedPairs, published, started>>
        /\ \/ /\ call[c].seal \in tracked
              /\ call' = [call EXCEPT ![c] = RevokeCall(call[c], call[c].seal)]
           \/ call' = [call EXCEPT ![c] = Return(c, FALSE)]
    BY <1>6 DEF RevokedLook, Revocable
  <2>2. call[c].hook = "revoked" => call[c].cred \in Credentials
    BY <1>1 DEF CallFits
  <2>3. CASE /\ call[c].seal \in tracked
             /\ call' = [call EXCEPT ![c] = RevokeCall(call[c], call[c].seal)]
    BY <1>1, <2>1, <2>2, <2>3, RevokeKeeps
  <2>4. CASE call' = [call EXCEPT ![c] = Return(c, FALSE)]
    BY <1>1, <2>1, <2>4, ReturnIsACall, QuietKeeps DEF Signing
  <2> QED
    BY <2>1, <2>3, <2>4
<1>7. ASSUME NEW s \in SealIds, DisclosedRefresh(c, s)
      PROVE  IInv'
  <2> DEFINE w == [call[c] EXCEPT !.todo = @ \ {s}]
  <2>1. w \in CallState /\ w.hook = call[c].hook /\ call[c].hook = "disclosed"
    BY <1>1, <1>7 DEF CallState, DisclosedRefresh
  <2>2. UNCHANGED <<tracked, current, revokedPairs, published, started>>
    BY <1>7 DEF DisclosedRefresh
  <2>3. CASE Refreshable(s) /\ Build(c, w, payload[s].pair, payload[s].input, s)
    <3> HIDE DEF w
    <3>1. s \in tracked
      BY <2>3 DEF Refreshable
    <3> QED
      BY <1>1, <2>1, <2>2, <2>3, <3>1, TrackedIsBuilt, BuildKeeps
  <2>4. CASE call' = [call EXCEPT ![c] = NoCall] /\ UNCHANGED <<payload, built>>
    BY <1>1, <2>2, <2>4, NoCallIsACall, QuietKeeps DEF Signing
  <2> QED
    BY <1>7, <2>3, <2>4 DEF DisclosedRefresh
<1>8. CASE HookDone(c)
  <2>1. /\ call' = [call EXCEPT ![c] = NoCall]
        /\ UNCHANGED <<payload, built, tracked, current, revokedPairs, published, started>>
    BY <1>8 DEF HookDone
  <2> QED
    BY <1>1, <2>1, NoCallIsACall, QuietKeeps DEF Signing
<1> QED
  BY <1>2, <1>3, <1>4, <1>5, <1>6, <1>7, <1>8

\* The other steps of a call: its promises settle, one way or the other.
LEMMA SettledKeeps ==
    ASSUME IInv, NEW c \in Callers,
           \/ \E input \in Inputs : Resolved(c, input)
           \/ ResolveFailed(c)
           \/ Signed(c) \/ Delivered(c) \/ Recorded(c) \/ Failed(c)
    PROVE  IInv'
<1>1. /\ call[c] \in CallState /\ CallFits(c) /\ started \in 0..MaxStarts
      /\ current \in [Pairs -> 0..built]
  BY DEF IInv, TypeOK, CallsFit
<1>2. ASSUME NEW input \in Inputs, Resolved(c, input)
      PROVE  IInv'
  <2> DEFINE p == call[c].pair
  <2>1. p \in Pairs /\ call[c].at = "resolve"
    BY <1>1, <1>2 DEF Resolved, CallFits
  <2>2. /\ current[p] \in 0..built
        /\ current[p] # 0 => current[p] \in tracked /\ payload[current[p]].pair = p
    BY <1>1, <2>1 DEF IInv, ChatTellsTheChain, ChainIsRooted
  <2>3. UNCHANGED <<tracked, current, revokedPairs, published, started>>
    BY <1>2 DEF Resolved
  <2>4. CASE call' = [call EXCEPT ![c] = NoCall] /\ UNCHANGED <<payload, built>>
    BY <1>1, <2>3, <2>4, NoCallIsACall, QuietKeeps DEF Signing
  <2>5. CASE Build(c, call[c], p, input, current[p])
    <3>1. call[c].hook = "revoked" => call[c].cred \in Credentials
      BY <1>1 DEF CallFits
    <3> QED
      BY <1>1, <2>1, <2>2, <2>3, <2>5, <3>1, BuildKeeps
  <2> QED
    BY <1>2, <2>4, <2>5 DEF Resolved
<1>3. CASE ResolveFailed(c)
  <2>1. /\ call' = [call EXCEPT ![c] = NoCall]
        /\ UNCHANGED <<payload, built, tracked, current, revokedPairs, published, started>>
    BY <1>3 DEF ResolveFailed
  <2> QED
    BY <1>1, <2>1, NoCallIsACall, QuietKeeps DEF Signing
<1>4. CASE Signed(c)
  <2> DEFINE w == [call[c] EXCEPT !.at = "publish"]
  <2>1. /\ call[c].at = "sign"
        /\ call' = [call EXCEPT ![c] = w]
        /\ UNCHANGED <<payload, built, tracked, current, revokedPairs, published, started>>
    BY <1>4 DEF Signed
  <2>2. /\ w \in CallState /\ w.at = "publish" /\ w.kind = call[c].kind
        /\ w.pair = call[c].pair /\ w.seal = call[c].seal
        /\ w.hook = call[c].hook /\ w.cred = call[c].cred
    BY <1>1 DEF CallState
  <2>3. call'[c] = w
    BY <2>1 DEF IInv, TypeOK
  <2>4. CallFits(c)'
    <3> HIDE DEF w
    <3> QED
      BY <1>1, <2>1, <2>2, <2>3 DEF CallFits, Signing, Rooted
  <2> QED
    BY <1>1, <2>1, <2>2, <2>4, CallOnly
<1>5. CASE Failed(c)
  <2>1. /\ call' = [call EXCEPT ![c] = Return(c, FALSE)]
        /\ UNCHANGED <<payload, built, tracked, current, revokedPairs, published, started>>
    BY <1>5 DEF Failed
  <2> QED
    BY <1>1, <2>1, ReturnIsACall, QuietKeeps DEF Signing
<1> QED
  BY <1>2, <1>3, <1>4, <1>5, DeliveredKeeps, RecordedKeeps

-----------------------------------------------------------------------------
\* Init => IInv.
LEMMA InitFits ==
    ASSUME Init
    PROVE  IInv
<1>1. TypeOK
  BY NoCallIsACall, BoundsAssumption DEF Init, TypeOK
<1>2. ChatTellsTheChain
  BY DEF Init, ChatTellsTheChain, ChainIsRooted, PredecessorIsPublishedFirst,
         MarkedOnceVisible
<1>3. MessagesNameSeals
  BY DEF Init, MessagesNameSeals
<1>4. CallsFit
  BY NoCallIsACall DEF Init, CallsFit, CallFits, Signing
<1> QED
  BY <1>1, <1>2, <1>3, <1>4 DEF IInv

\* IInv is inductive.
LEMMA StepFits ==
    ASSUME IInv, [Next]_vars
    PROVE  IInv'
<1>1. CASE UNCHANGED vars
  BY <1>1 DEF vars, IInv, TypeOK, ChatTellsTheChain, ChainIsRooted,
              PredecessorIsPublishedFirst, MarkedOnceVisible, MessagesNameSeals,
              CallsFit, CallFits, Rooted, InChat
<1>2. CASE Next
  <2>1. PICK c \in Callers :
           \/ \E p \in Pairs : Issue(c, p)
           \/ \E s \in tracked : Refresh(c, s) \/ Revoke(c, s)
           \/ \E cr \in Credentials : CredentialRevoked(c, cr)
           \/ \E chats \in (SUBSET Chats) \ {{}} : DisclosureChanged(c, chats)
           \/ Continue(c)
    BY <1>2 DEF Next
  <2>2. CASE Continue(c)
    BY <2>2, HooksKeep, SettledKeeps DEF Continue
  <2> QED
    BY <2>1, <2>2, StartsKeep, HooksKeep
<1> QED
  BY <1>1, <1>2

\* The maps, the chat log and the calls always have their types.
THEOREM TypeCorrect == Spec => []TypeOK
<1>1. Init => IInv
  BY InitFits
<1>2. IInv /\ [Next]_vars => IInv'
  BY StepFits
<1>3. IInv => TypeOK
  BY DEF IInv
<1> QED
  BY <1>1, <1>2, <1>3, PTL DEF Spec

\* However calls overlap and whatever fails to be signed or published: the
\* chain the manager knows is in the chat, the chat got it in order, and a pair
\* is refused only once its members can see why.
THEOREM ChatAlwaysTellsTheChain == Spec => []ChatTellsTheChain
<1>1. Init => IInv
  BY InitFits
<1>2. IInv /\ [Next]_vars => IInv'
  BY StepFits
<1>3. IInv => ChatTellsTheChain
  BY DEF IInv
<1> QED
  BY <1>1, <1>2, <1>3, PTL DEF Spec

-----------------------------------------------------------------------------
(***************************************************************************)
(* When calls do not overlap, the manager keeps one chain per pair and a   *)
(* revoked pair has no current seal.  What a call that signs a seal has    *)
(* checked - the pair is not revoked, its seal follows the current one -   *)
(* still holds when it is recorded, since nothing else runs meanwhile.     *)
(***************************************************************************)
OneCaller == \A c, d \in Callers : c = d

StillOnHead(c) ==
    call[c].at \in Signing /\ call[c].kind = "seal" =>
        /\ call[c].pair \notin revokedPairs
        /\ payload[call[c].seal].previous = current[call[c].pair]

AllOnHead == \A c \in Callers : StillOnHead(c)

\* At most one seal of a pair has no successor: the current one, if there is one.
HeadIsCurrent ==
    \A p \in Pairs :
        /\ \A s, t \in Heads(p) : s = t
        /\ p \notin revokedPairs => \A s \in Heads(p) : s = current[p]

SerialInv == IInv /\ RevokedIsTerminal /\ HeadIsCurrent /\ AllOnHead

\* A step of a lone caller that leaves the maps alone and signs no new seal.
LEMMA SerialQuiet ==
    ASSUME SerialInv, OneCaller, IInv', NEW c \in Callers,
           UNCHANGED <<payload, tracked, current, revokedPairs>>,
           StillOnHead(c)'
    PROVE  SerialInv'
<1>1. RevokedIsTerminal' /\ HeadIsCurrent'
  BY DEF SerialInv, RevokedIsTerminal, HeadIsCurrent, Heads, TrackedOf
<1>2. AllOnHead'
  BY DEF AllOnHead, OneCaller
<1> QED
  BY <1>1, <1>2 DEF SerialInv

\* A seal is built on the current seal of a pair that is not revoked.
LEMMA SerialBuild ==
    ASSUME SerialInv, OneCaller, IInv', NEW c \in Callers, NEW w \in CallState,
           NEW p \in Pairs, NEW input \in Inputs,
           p \notin revokedPairs,
           Build(c, w, p, input, current[p]),
           UNCHANGED <<tracked, current, revokedPairs>>
    PROVE  SerialInv'
<1> DEFINE x == [pair |-> p, input |-> input, previous |-> current[p]]
           v == [w EXCEPT !.at = "sign", !.kind = "seal", !.pair = p,
                          !.seal = built + 1]
<1>1. /\ IInv /\ TypeOK /\ TypeOK'
      /\ payload' = Append(payload, x)
      /\ call' = [call EXCEPT ![c] = v]
  BY DEF SerialInv, IInv, Build
<1>2. /\ \A s \in 1..built : payload'[s] = payload[s]
      /\ payload'[built + 1] = x
  BY <1>1 DEF TypeOK
<1>3. \A s \in tracked : payload'[s] = payload[s]
  BY <1>1, <1>2 DEF TypeOK
<1>4. \A q \in Pairs : Heads(q)' = Heads(q)
  BY <1>3 DEF Heads, TrackedOf
<1>5. RevokedIsTerminal' /\ HeadIsCurrent'
  BY <1>4 DEF SerialInv, RevokedIsTerminal, HeadIsCurrent
<1>6. /\ call'[c].pair = p /\ call'[c].seal = built + 1
  BY <1>1 DEF TypeOK, CallState
<1>7. AllOnHead'
  BY <1>2, <1>6 DEF AllOnHead, StillOnHead, OneCaller
<1> QED
  BY <1>5, <1>7 DEF SerialInv

\* The maps follow a publication: the new seal is the only head, or the pair
\* is closed.
LEMMA SerialRecorded ==
    ASSUME SerialInv, OneCaller, IInv', NEW c \in Callers, Recorded(c)
    PROVE  SerialInv'
<1>1. /\ IInv /\ TypeOK /\ ChainIsRooted /\ CallFits(c) /\ StillOnHead(c)
      /\ RevokedIsTerminal /\ HeadIsCurrent
      /\ call[c].at = "answer" /\ call[c] \in CallState
      /\ current \in [Pairs -> 0..built]
      /\ call' = [call EXCEPT ![c] = Return(c, TRUE)]
      /\ UNCHANGED <<payload, built, published, started>>
  BY DEF SerialInv, IInv, TypeOK, ChatTellsTheChain, CallsFit, AllOnHead, Recorded
<1>2. call[c].pair = payload[call[c].seal].pair /\ call[c].seal \in 1..built
  BY <1>1 DEF CallFits, Signing
<1>3. payload[call[c].seal] \in Payload
  BY <1>1, <1>2 DEF TypeOK
<1>4. PICK p \in Pairs, s \in 1..built : /\ p = call[c].pair /\ s = call[c].seal
                                        /\ p = payload[s].pair
  BY <1>2, <1>3 DEF Payload
<1>5. AllOnHead'
  <2>1. call'[c] = Return(c, TRUE)
    BY <1>1 DEF TypeOK
  <2>2. call'[c].at \notin Signing
    BY <1>1, <2>1, ReturnIsACall DEF Signing
  <2> QED
    BY <2>2 DEF AllOnHead, StillOnHead, OneCaller
<1>6. CASE /\ call[c].kind = "seal"
           /\ current' = [current EXCEPT ![p] = s]
           /\ tracked' = tracked \cup {s}
           /\ UNCHANGED revokedPairs
  <2>1. p \notin revokedPairs /\ payload[s].previous = current[p]
    BY <1>1, <1>4, <1>6 DEF StillOnHead, Signing
  <2>2. RevokedIsTerminal'
    BY <1>1, <1>4, <1>6, <2>1 DEF RevokedIsTerminal, TypeOK
  <2>3. \A t \in Heads(p)' : t = s
    <3> SUFFICES ASSUME NEW t \in Heads(p)', t # s
                 PROVE  FALSE
      OBVIOUS
    <3>1. TrackedOf(p)' = TrackedOf(p) \cup {s}
      BY <1>1, <1>4, <1>6 DEF TrackedOf
    <3>2. \A u \in TrackedOf(p)' : payload[u].previous # t
      BY <1>1 DEF Heads
    <3>3. t \in Heads(p)
      BY <3>1, <3>2 DEF Heads
    <3>4. payload[s].previous # t
      BY <3>1, <3>2
    <3> QED
      BY <1>1, <1>4, <2>1, <3>3, <3>4 DEF HeadIsCurrent
  <2>4. \A q \in Pairs \ {p} : Heads(q)' = Heads(q) /\ current'[q] = current[q]
    <3> SUFFICES ASSUME NEW q \in Pairs, q # p
                 PROVE  Heads(q)' = Heads(q) /\ current'[q] = current[q]
      OBVIOUS
    <3>1. (TrackedOf(q))' = TrackedOf(q)
      BY <1>1, <1>4, <1>6 DEF TrackedOf
    <3> QED
      BY <1>1, <1>6, <3>1 DEF Heads
  <2>5. current'[p] = s
    BY <1>1, <1>4, <1>6
  <2>6. HeadIsCurrent'
    <3> SUFFICES ASSUME NEW q \in Pairs
                 PROVE  /\ \A t, u \in Heads(q)' : t = u
                        /\ q \notin revokedPairs' => \A t \in Heads(q)' : t = current'[q]
      BY DEF HeadIsCurrent
    <3>1. CASE q = p
      BY <2>3, <2>5, <3>1
    <3>2. CASE q # p
      BY <1>1, <1>6, <2>4, <3>2 DEF HeadIsCurrent
    <3> QED
      BY <3>1, <3>2
  <2> QED
    BY <1>5, <2>2, <2>6 DEF SerialInv
<1>7. CASE /\ call[c].kind = "revocation"
           /\ current' = [current EXCEPT ![p] = 0]
           /\ revokedPairs' = revokedPairs \cup {p}
           /\ UNCHANGED tracked
  <2>1. RevokedIsTerminal'
    BY <1>1, <1>4, <1>7 DEF RevokedIsTerminal, TypeOK
  <2>2. \A q \in Pairs : Heads(q)' = Heads(q) /\ (q # p => current'[q] = current[q])
    BY <1>1, <1>7 DEF Heads, TrackedOf
  <2>3. HeadIsCurrent'
    BY <1>1, <1>7, <2>2 DEF HeadIsCurrent
  <2> QED
    BY <1>5, <2>1, <2>3 DEF SerialInv
<1> QED
  BY <1>4, <1>6, <1>7 DEF Recorded

\* What a step does to a call and to the maps: the call goes on, or starts a
\* revocation that is due, while the maps stay as they are; or it has built a
\* successor of the current seal of a pair that is not revoked.
Onward(c, w) ==
    /\ call' = [call EXCEPT ![c] = w]
    /\ UNCHANGED <<payload, built, tracked, current, revokedPairs>>
    /\ \/ w.at \notin Signing
       \/ /\ call[c].at \in Signing
          /\ w.kind = call[c].kind /\ w.pair = call[c].pair /\ w.seal = call[c].seal
       \/ w.kind = "revocation" /\ w.pair \notin revokedPairs

Builds(c, w, p, input) ==
    /\ p \notin revokedPairs
    /\ Build(c, w, p, input, current[p])
    /\ UNCHANGED <<tracked, current, revokedPairs>>

\* Every step is one of these, or updates the maps after a publication.
LEMMA StepIs ==
    ASSUME IInv, Next
    PROVE  \E c \in Callers :
              \/ \E w : Onward(c, w)
              \/ \E w \in CallState, p \in Pairs, input \in Inputs : Builds(c, w, p, input)
              \/ Recorded(c)
<1>1. PICK c \in Callers :
         \/ \E p \in Pairs : Issue(c, p)
         \/ \E s \in tracked : Refresh(c, s) \/ Revoke(c, s)
         \/ \E cr \in Credentials : CredentialRevoked(c, cr)
         \/ \E chats \in (SUBSET Chats) \ {{}} : DisclosureChanged(c, chats)
         \/ Continue(c)
  BY DEF Next
<1> DEFINE On == \E w : Onward(c, w)
           New == \E w \in CallState, p \in Pairs, input \in Inputs : Builds(c, w, p, input)
<1> SUFFICES On \/ New \/ Recorded(c)
  OBVIOUS
<1>2. call[c] \in CallState /\ CallFits(c)
  BY DEF IInv, TypeOK, CallsFit
<1>3. ASSUME NEW w, w.at \notin Signing,
             call' = [call EXCEPT ![c] = w],
             UNCHANGED <<payload, built, tracked, current, revokedPairs>>
      PROVE  On
  BY <1>3 DEF Onward
<1>4. ASSUME NEW s, NEW w \in CallState, Refreshable(s),
             Build(c, w, payload[s].pair, payload[s].input, s),
             UNCHANGED <<tracked, current, revokedPairs>>
      PROVE  New
  <2>1. s \in tracked /\ current[payload[s].pair] = s /\ payload[s].pair \notin revokedPairs
    BY <1>4 DEF Refreshable
  <2>2. payload[s].pair \in Pairs /\ payload[s].input \in Inputs
    BY <2>1, TrackedIsBuilt
  <2>3. Builds(c, w, payload[s].pair, payload[s].input)
    BY <1>4, <2>1 DEF Builds
  <2> QED
    BY <1>4, <2>2, <2>3
<1>5. ASSUME NEW s, NEW w \in CallState, Revocable(s),
             call' = [call EXCEPT ![c] = RevokeCall(w, s)],
             UNCHANGED <<payload, built, tracked, current, revokedPairs>>
      PROVE  On
  <2>1. /\ RevokeCall(w, s).kind = "revocation"
        /\ RevokeCall(w, s).pair = payload[s].pair
    BY DEF RevokeCall, CallState
  <2>2. Onward(c, RevokeCall(w, s))
    BY <1>5, <2>1 DEF Onward, Revocable
  <2> QED
    BY <2>2
<1>6. NoCall.at \notin Signing /\ \A ok \in BOOLEAN : Return(c, ok).at \notin Signing
  BY <1>2, ReturnIsACall DEF NoCall, Signing
<1>7. ASSUME NEW p \in Pairs, Issue(c, p)
      PROVE  On
  <2>1. [NoCall EXCEPT !.at = "resolve", !.pair = p].at \notin Signing
    BY DEF NoCall, Signing
  <2> QED
    BY <1>3, <1>7, <2>1 DEF Issue
<1>8. ASSUME NEW s \in tracked, Refresh(c, s)
      PROVE  New
  BY <1>4, <1>8, NoCallIsACall DEF Refresh
<1>9. ASSUME NEW s \in tracked, Revoke(c, s)
      PROVE  On
  BY <1>5, <1>9, NoCallIsACall DEF Revoke
<1>10. ASSUME NEW cr \in Credentials, CredentialRevoked(c, cr)
       PROVE  On
  <2>1. [NoCall EXCEPT !.at = "next", !.hook = "revoked",
                       !.cred = cr, !.chats = Chats].at \notin Signing
    BY DEF NoCall, Signing
  <2> QED
    BY <1>3, <1>10, <2>1 DEF CredentialRevoked
<1>11. ASSUME NEW chats \in SUBSET Chats, DisclosureChanged(c, chats)
       PROVE  On
  <2>1. [NoCall EXCEPT !.at = "next", !.hook = "disclosed",
                       !.chats = chats].at \notin Signing
    BY DEF NoCall, Signing
  <2> QED
    BY <1>3, <1>11, <2>1 DEF DisclosureChanged
<1>12. ASSUME NEW input \in Inputs, Resolved(c, input)
       PROVE  On \/ New
  <2>1. call[c].pair \in Pairs
    BY <1>2, <1>12 DEF Resolved, CallFits
  <2>2. UNCHANGED <<tracked, current, revokedPairs>>
    BY <1>12 DEF Resolved
  <2>3. CASE call' = [call EXCEPT ![c] = NoCall] /\ UNCHANGED <<payload, built>>
    BY <1>3, <1>6, <2>2, <2>3
  <2>4. CASE /\ call[c].pair \notin revokedPairs
             /\ Build(c, call[c], call[c].pair, input, current[call[c].pair])
    <3>1. Builds(c, call[c], call[c].pair, input)
      BY <2>2, <2>4 DEF Builds
    <3> QED
      BY <1>2, <2>1, <3>1
  <2> QED
    BY <1>12, <2>3, <2>4 DEF Resolved
<1>13. CASE ResolveFailed(c)
  BY <1>3, <1>6, <1>13 DEF ResolveFailed
<1>14. CASE Signed(c) \/ Delivered(c)
  <2>1. PICK at \in {"publish", "answer"} :
           /\ call' = [call EXCEPT ![c].at = at]
           /\ UNCHANGED <<payload, built, tracked, current, revokedPairs>>
           /\ call[c].at \in Signing
    BY <1>14 DEF Signed, Delivered, Signing
  <2>2. PICK w : w = [call[c] EXCEPT !.at = at]
    OBVIOUS
  <2>3. /\ w.kind = call[c].kind /\ w.pair = call[c].pair /\ w.seal = call[c].seal
        /\ call' = [call EXCEPT ![c] = w]
    BY <1>2, <2>1, <2>2 DEF CallState
  <2>4. Onward(c, w)
    BY <2>1, <2>3 DEF Onward
  <2> QED
    BY <2>4
<1>15. CASE Failed(c)
  BY <1>3, <1>6, <1>15 DEF Failed
<1>16. ASSUME NEW chat \in Chats, RevokedNext(c, chat)
       PROVE  On
  <2>1. PICK w : /\ w = [call[c] EXCEPT !.at = "look", !.chats = @ \ {chat},
                                        !.pair = <<call[c].cred, chat>>,
                                        !.seal = current[<<call[c].cred, chat>>]]
                 /\ call' = [call EXCEPT ![c] = w]
    BY <1>16 DEF RevokedNext
  <2>2. w.at \notin Signing
    BY <1>2, <2>1 DEF Signing, CallState
  <2> QED
    BY <1>3, <1>16, <2>1, <2>2 DEF RevokedNext
<1>17. ASSUME NEW chat \in Chats, DisclosedList(c, chat)
       PROVE  On
  <2>1. PICK w : /\ w = [call[c] EXCEPT
                           !.chats = @ \ {chat},
                           !.todo = {current[<<cr, chat>>] : cr \in Credentials} \ {0}]
                 /\ call' = [call EXCEPT ![c] = w]
    BY <1>17 DEF DisclosedList
  <2>2. w.at \notin Signing
    BY <1>2, <1>17, <2>1 DEF DisclosedList, Signing, CallState
  <2> QED
    BY <1>3, <1>17, <2>1, <2>2 DEF DisclosedList
<1>18. CASE RevokedLook(c)
  BY <1>2, <1>3, <1>5, <1>6, <1>18 DEF RevokedLook
<1>19. ASSUME NEW s \in SealIds, DisclosedRefresh(c, s)
       PROVE  On \/ New
  <2> DEFINE w == [call[c] EXCEPT !.todo = @ \ {s}]
  <2>1. w \in CallState
    BY <1>2 DEF CallState
  <2>2. UNCHANGED <<tracked, current, revokedPairs>>
    BY <1>19 DEF DisclosedRefresh
  <2>3. CASE Refreshable(s) /\ Build(c, w, payload[s].pair, payload[s].input, s)
    BY <1>4, <2>1, <2>2, <2>3
  <2>4. CASE call' = [call EXCEPT ![c] = NoCall] /\ UNCHANGED <<payload, built>>
    BY <1>3, <1>6, <2>2, <2>4
  <2> QED
    BY <1>19, <2>3, <2>4 DEF DisclosedRefresh
<1>20. CASE HookDone(c)
  BY <1>3, <1>6, <1>20 DEF HookDone
<1> QED
  BY <1>1, <1>7, <1>8, <1>9, <1>10, <1>11, <1>12, <1>13, <1>14, <1>15, <1>16,
     <1>17, <1>18, <1>19, <1>20 DEF Continue

\* At the start nothing is built.
LEMMA SerialInit == Init => SerialInv
<1> SUFFICES ASSUME Init
             PROVE  SerialInv
  OBVIOUS
<1>1. IInv
  BY InitFits
<1>2. RevokedIsTerminal
  BY DEF Init, RevokedIsTerminal
<1>3. HeadIsCurrent
  BY DEF Init, HeadIsCurrent, Heads, TrackedOf
<1>4. AllOnHead
  BY NoCallIsACall DEF Init, AllOnHead, StillOnHead, Signing
<1> QED
  BY <1>1, <1>2, <1>3, <1>4 DEF SerialInv

\* SerialInv is inductive, as long as there is one caller.
LEMMA SerialStep ==
    ASSUME SerialInv, OneCaller, [Next]_vars
    PROVE  SerialInv'
<1>1. IInv /\ IInv'
  BY StepFits DEF SerialInv
<1>2. CASE UNCHANGED vars
  BY <1>1, <1>2 DEF vars, SerialInv, RevokedIsTerminal, HeadIsCurrent, Heads,
                    TrackedOf, AllOnHead, StillOnHead
<1>3. CASE Next
  <2>1. PICK c \in Callers :
           \/ \E w : Onward(c, w)
           \/ \E w \in CallState, p \in Pairs, input \in Inputs : Builds(c, w, p, input)
           \/ Recorded(c)
    BY <1>1, <1>3, StepIs
  <2>2. ASSUME NEW w, Onward(c, w)
        PROVE  SerialInv'
    <3>1. call'[c] = w /\ UNCHANGED <<payload, tracked, current, revokedPairs>>
      BY <1>1, <2>2 DEF Onward, IInv, TypeOK
    <3>2. StillOnHead(c)'
      BY <2>2, <3>1 DEF Onward, SerialInv, AllOnHead, StillOnHead
    <3> QED
      BY <1>1, <3>1, <3>2, SerialQuiet
  <2>3. ASSUME NEW w \in CallState, NEW p \in Pairs, NEW input \in Inputs,
               Builds(c, w, p, input)
        PROVE  SerialInv'
    BY <1>1, <2>3, SerialBuild DEF Builds
  <2>4. CASE Recorded(c)
    BY <1>1, <2>4, SerialRecorded
  <2> QED
    BY <2>1, <2>2, <2>3, <2>4
<1> QED
  BY <1>2, <1>3

\* As long as calls do not overlap, whatever fails to be signed or published,
\* a revoked pair has no current seal and the seals the manager knows of a pair
\* are one chain: at most one of them is not the predecessor of another.
THEOREM LoneCallsKeepOneChain ==
    ASSUME OneCaller
    PROVE  Spec => [](RevokedIsTerminal /\ OneHistoryHead)
<1>1. Init => SerialInv
  BY SerialInit
<1>2. SerialInv /\ [Next]_vars => SerialInv'
  BY SerialStep
<1>3. SerialInv => RevokedIsTerminal /\ OneHistoryHead
  <2> SUFFICES ASSUME SerialInv, NEW p \in Pairs
               PROVE  Cardinality(Heads(p)) <= 1
    BY DEF SerialInv, OneHistoryHead
  <2>1. \A s, t \in Heads(p) : s = t
    BY DEF SerialInv, HeadIsCurrent
  <2>2. Heads(p) = {} \/ \E s : Heads(p) = {s}
    BY <2>1
  <2>3. Cardinality(Heads(p)) \in {0, 1}
    BY <2>2, FS_EmptySet, FS_Singleton, Zenon
  <2> QED
    BY <2>3
<1> QED
  BY <1>1, <1>2, <1>3, PTL DEF Spec

-----------------------------------------------------------------------------
(***************************************************************************)
(* The refinement.  Beside one head per pair, history() needs that every   *)
(* seal follows an older one, so that following predecessors ends; that a  *)
(* seal is recorded once, and a revocation for a pair that is not revoked  *)
(* yet; and that the current seal is the head of its pair.                 *)
(***************************************************************************)
FollowsOlder == \A s \in 1..built : payload[s].previous < s

CallIsDue(c) ==
    call[c].at \in Signing =>
        /\ call[c].kind = "seal" => call[c].seal \notin tracked
        /\ call[c].kind = "revocation" => call[c].pair \notin revokedPairs

AllDue == \A c \in Callers : CallIsDue(c)

CurrentIsHead ==
    \A p \in Pairs :
        /\ current[p] # 0 => current[p] \in Heads(p)
        /\ p \notin revokedPairs /\ TrackedOf(p) # {} => current[p] # 0

ChainInv == SerialInv /\ FollowsOlder /\ AllDue /\ CurrentIsHead

\* A lone call that goes on stays due.
LEMMA ChainOnward ==
    ASSUME ChainInv, OneCaller, SerialInv', NEW c \in Callers, NEW w, Onward(c, w)
    PROVE  ChainInv'
<1>1. call'[c] = w /\ UNCHANGED <<payload, built, tracked, current, revokedPairs>>
  BY DEF Onward, ChainInv, SerialInv, IInv, TypeOK
<1>2. FollowsOlder' /\ CurrentIsHead'
  BY <1>1 DEF ChainInv, FollowsOlder, CurrentIsHead, Heads, TrackedOf
<1>3. CallIsDue(c)'
  BY <1>1 DEF Onward, ChainInv, AllDue, CallIsDue
<1>4. AllDue'
  BY <1>3 DEF AllDue, OneCaller
<1> QED
  BY <1>2, <1>4 DEF ChainInv

\* A seal that is built is newer than its predecessor, and not recorded yet.
LEMMA ChainBuild ==
    ASSUME ChainInv, OneCaller, SerialInv', NEW c \in Callers, NEW w \in CallState,
           NEW p \in Pairs, NEW input \in Inputs, Builds(c, w, p, input)
    PROVE  ChainInv'
<1> DEFINE x == [pair |-> p, input |-> input, previous |-> current[p]]
           v == [w EXCEPT !.at = "sign", !.kind = "seal", !.pair = p,
                          !.seal = built + 1]
<1>1. /\ TypeOK /\ TypeOK' /\ built' = built + 1
      /\ payload' = Append(payload, x)
      /\ call' = [call EXCEPT ![c] = v]
      /\ UNCHANGED <<tracked, current, revokedPairs>>
  BY DEF ChainInv, SerialInv, IInv, Builds, Build
<1>2. /\ built \in Nat
      /\ \A s \in 1..built : payload'[s] = payload[s]
      /\ payload'[built + 1] = x
  BY <1>1 DEF TypeOK
<1>3. \A s \in tracked : s \in 1..built /\ payload'[s] = payload[s]
  BY <1>1, <1>2 DEF TypeOK
<1>4. FollowsOlder'
  <2> SUFFICES ASSUME NEW s \in 1..(built + 1)
               PROVE  payload'[s].previous < s
    BY <1>1 DEF FollowsOlder
  <2>1. CASE s = built + 1
    <3>1. current[p] \in 0..built
      BY <1>1 DEF TypeOK
    <3>2. payload'[s].previous = current[p]
      BY <1>2, <2>1
    <3> QED
      BY <1>2, <2>1, <3>1, <3>2
  <2>2. CASE s # built + 1
    <3>1. s \in 1..built
      BY <1>2, <2>2
    <3> QED
      BY <1>2, <3>1 DEF ChainInv, FollowsOlder
  <2> QED
    BY <2>1, <2>2
<1>5. \A q \in Pairs : TrackedOf(q)' = TrackedOf(q)
  BY <1>1, <1>3 DEF TrackedOf
<1>6. \A q \in Pairs : Heads(q)' = Heads(q)
  BY <1>3, <1>5 DEF Heads, TrackedOf
<1>7. CurrentIsHead'
  BY <1>1, <1>5, <1>6 DEF ChainInv, CurrentIsHead
<1>8. AllDue'
  <2>1. call'[c].kind = "seal" /\ call'[c].seal = built + 1
    BY <1>1 DEF TypeOK, CallState
  <2>2. built + 1 \notin tracked
    BY <1>2, <1>3
  <2> QED
    BY <1>1, <2>1, <2>2 DEF AllDue, CallIsDue, OneCaller
<1> QED
  BY <1>4, <1>7, <1>8 DEF ChainInv

\* What a recorded publication does, with the pair and the seal named.
RecordsSeal(p, s) ==
    /\ s \notin tracked /\ p \notin revokedPairs
    /\ payload[s].previous = current[p]
    /\ current' = [current EXCEPT ![p] = s]
    /\ tracked' = tracked \cup {s}
    /\ UNCHANGED revokedPairs

RecordsRevocation(p, s) ==
    /\ s \in tracked /\ p \notin revokedPairs
    /\ current' = [current EXCEPT ![p] = 0]
    /\ revokedPairs' = revokedPairs \cup {p}
    /\ UNCHANGED tracked

\* A publication that is confirmed is one of the two.
LEMMA RecordedIs ==
    ASSUME ChainInv, NEW c \in Callers, Recorded(c)
    PROVE  \E p \in Pairs, s \in 1..built :
              /\ p = payload[s].pair
              /\ RecordsSeal(p, s) \/ RecordsRevocation(p, s)
<1>1. /\ IInv /\ TypeOK /\ CallFits(c) /\ StillOnHead(c) /\ CallIsDue(c)
      /\ call[c].at = "answer"
  BY DEF ChainInv, SerialInv, IInv, CallsFit, AllOnHead, AllDue, Recorded
<1>2. call[c].pair = payload[call[c].seal].pair /\ call[c].seal \in 1..built
  BY <1>1 DEF CallFits, Signing
<1>3. payload[call[c].seal] \in Payload
  BY <1>1, <1>2 DEF TypeOK
<1>4. PICK p \in Pairs, s \in 1..built : /\ p = call[c].pair /\ s = call[c].seal
                                        /\ p = payload[s].pair
  BY <1>2, <1>3 DEF Payload
<1>5. CASE call[c].kind = "seal"
  <2>1. RecordsSeal(p, s)
    BY <1>1, <1>4, <1>5 DEF Recorded, RecordsSeal, StillOnHead, CallIsDue, Signing
  <2> QED
    BY <1>4, <2>1
<1>6. CASE call[c].kind = "revocation"
  <2>1. RecordsRevocation(p, s)
    BY <1>1, <1>4, <1>6 DEF Recorded, RecordsRevocation, CallFits, CallIsDue, Signing
  <2> QED
    BY <1>4, <2>1
<1> QED
  BY <1>5, <1>6 DEF Recorded

\* The new seal becomes the only head of its pair; a revoked pair keeps its own.
LEMMA ChainRecorded ==
    ASSUME ChainInv, OneCaller, SerialInv', NEW c \in Callers, Recorded(c)
    PROVE  ChainInv'
<1>1. /\ TypeOK /\ IInv /\ ChainIsRooted /\ ChainIsRooted' /\ UNCHANGED <<payload, built>>
      /\ call' = [call EXCEPT ![c] = Return(c, TRUE)]
  BY DEF ChainInv, SerialInv, IInv, ChatTellsTheChain, Recorded
<1>2. PICK p \in Pairs, s \in 1..built :
         p = payload[s].pair /\ (RecordsSeal(p, s) \/ RecordsRevocation(p, s))
  BY RecordedIs
<1>3. FollowsOlder'
  BY <1>1 DEF ChainInv, FollowsOlder
<1>4. AllDue'
  <2>1. call'[c] = Return(c, TRUE)
    BY <1>1 DEF TypeOK
  <2>2. call'[c].at \notin Signing
    BY <1>1, <2>1, ReturnIsACall DEF Signing
  <2> QED
    BY <2>2 DEF AllDue, CallIsDue, OneCaller
<1>5. /\ current \in [Pairs -> 0..built] /\ tracked \subseteq 1..built
  BY <1>1 DEF TypeOK
<1>6. CASE RecordsSeal(p, s)
  <2>1. /\ s \notin tracked /\ s # 0 /\ payload'[s] = payload[s]
        /\ current' = [current EXCEPT ![p] = s] /\ tracked' = tracked \cup {s}
        /\ revokedPairs' = revokedPairs
    BY <1>1, <1>2, <1>6 DEF RecordsSeal
  <2>2. TrackedOf(p)' = TrackedOf(p) \cup {s}
    BY <1>1, <1>2, <2>1 DEF TrackedOf
  <2>3. s \in Heads(p)'
    <3>1. \A t \in TrackedOf(p) : payload[t].previous # s
      BY <2>1 DEF TrackedOf, ChainIsRooted, ChainInv, SerialInv, IInv, ChatTellsTheChain
    <3>2. payload[s].previous # s
      <4>1. PICK m \in Nat : m = s
        BY <1>2
      <4>2. payload[m].previous < m
        BY <1>2, <4>1 DEF ChainInv, FollowsOlder
      <4>3. payload[m].previous # m
        BY <4>1, <4>2
      <4> QED
        BY <4>1, <4>3
    <3> QED
      BY <1>1, <2>2, <3>1, <3>2 DEF Heads
  <2>4. \A q \in Pairs \ {p} : TrackedOf(q)' = TrackedOf(q) /\ Heads(q)' = Heads(q)
    BY <1>1, <1>2, <2>1 DEF TrackedOf, Heads
  <2>5. \A q \in Pairs : current'[q] = IF q = p THEN s ELSE current[q]
    BY <1>5, <2>1
  <2>6. CurrentIsHead'
    <3> SUFFICES ASSUME NEW q \in Pairs
                 PROVE  /\ current'[q] # 0 => current'[q] \in Heads(q)'
                        /\ q \notin revokedPairs' /\ TrackedOf(q)' # {} => current'[q] # 0
      BY DEF CurrentIsHead
    <3>1. CASE q = p
      BY <2>1, <2>3, <2>5, <3>1
    <3>2. CASE q # p
      BY <2>1, <2>4, <2>5, <3>2 DEF ChainInv, CurrentIsHead
    <3> QED
      BY <3>1, <3>2
  <2> QED
    BY <1>3, <1>4, <2>6 DEF ChainInv
<1>7. CASE RecordsRevocation(p, s)
  <2>1. /\ current' = [current EXCEPT ![p] = 0] /\ tracked' = tracked
        /\ revokedPairs' = revokedPairs \cup {p}
    BY <1>7 DEF RecordsRevocation
  <2>2. \A q \in Pairs : TrackedOf(q)' = TrackedOf(q) /\ Heads(q)' = Heads(q)
    BY <1>1, <2>1 DEF TrackedOf, Heads
  <2>3. \A q \in Pairs : current'[q] = IF q = p THEN 0 ELSE current[q]
    BY <1>5, <2>1
  <2>4. CurrentIsHead'
    BY <2>1, <2>2, <2>3 DEF ChainInv, CurrentIsHead
  <2> QED
    BY <1>3, <1>4, <2>4 DEF ChainInv
<1> QED
  BY <1>2, <1>6, <1>7

\* At the start there are no seals.
LEMMA ChainInit == Init => ChainInv
<1> SUFFICES ASSUME Init
             PROVE  ChainInv
  OBVIOUS
<1>1. SerialInv
  BY SerialInit
<1>2. FollowsOlder
  BY DEF Init, FollowsOlder
<1>3. CurrentIsHead
  BY DEF Init, CurrentIsHead, TrackedOf
<1>4. AllDue
  BY NoCallIsACall DEF Init, AllDue, CallIsDue, Signing
<1> QED
  BY <1>1, <1>2, <1>3, <1>4 DEF ChainInv

\* Every step of a lone caller keeps it.
LEMMA ChainStep ==
    ASSUME ChainInv, OneCaller, [Next]_vars
    PROVE  ChainInv'
<1>1. IInv /\ SerialInv'
  BY SerialStep DEF ChainInv, SerialInv
<1>2. CASE UNCHANGED vars
  BY <1>1, <1>2 DEF vars, ChainInv, FollowsOlder, CurrentIsHead, Heads, TrackedOf,
                    AllDue, CallIsDue
<1>3. CASE Next
  BY <1>1, <1>3, StepIs, ChainOnward, ChainBuild, ChainRecorded
<1> QED
  BY <1>2, <1>3

-----------------------------------------------------------------------------
(***************************************************************************)
(* history() follows predecessors: a function that is recursive over the   *)
(* seals.  Seals follow older ones, so induction over the seals is the     *)
(* choice of a least one among those for which the claim fails.            *)
(***************************************************************************)
\* Every set of numbers that is not empty has a least one.
LEMMA LeastSeal ==
    ASSUME NEW A \in SUBSET Nat, A # {}
    PROVE  \E x \in A : \A y \in A : x <= y
<1>1. PICK x \in A : \A y \in A : ~(<<y, x>> \in OpToRel(<, Nat))
  BY WFMin, NatLessThanWellFounded, Zenon
<1>2. \A y \in A : ~(y < x)
  BY <1>1 DEF OpToRel
<1> QED
  BY <1>2

\* f gives the chain of every seal up to n, for tracked seals tr and payloads pl.
Chains(f, tr, pl, n) ==
    f = [s \in 0..n |-> IF s = 0 \/ s \notin tr THEN << >>
                        ELSE Append(f[pl[s].previous], s)]

\* The predecessor of a seal is older, and tracked as well.
Linked(tr, pl) ==
    \A s \in tr : /\ pl[s].previous \in {0} \cup tr
                  /\ pl[s].previous < s

\* There is such a function.
LEMMA ChainsExist ==
    ASSUME NEW n \in Nat, NEW tr, tr \subseteq Nat, NEW pl, Linked(tr, pl)
    PROVE  \E f : Chains(f, tr, pl, n)
<1> DEFINE T == {m \in Nat : ~ \E f : Chains(f, tr, pl, m)}
<1>1. SUFFICES ASSUME T # {} PROVE FALSE
  OBVIOUS
<1>2. T \in SUBSET Nat
  OBVIOUS
<1>3. PICK m \in T : \A l \in T : m <= l
  <2> HIDE DEF T
  <2> QED
    BY <1>1, <1>2, LeastSeal
<1>4. m \in Nat /\ ~ \E f : Chains(f, tr, pl, m)
  BY <1>3
<1>5. CASE m = 0
  <2>1. PICK f : f = [s \in 0..0 |-> << >>]
    OBVIOUS
  <2>2. Chains(f, tr, pl, 0)
    BY <2>1 DEF Chains
  <2> QED
    BY <1>4, <1>5, <2>2
<1>6. CASE m # 0
  <2>1. m - 1 \in Nat /\ m - 1 \notin T
    BY <1>3, <1>4, <1>6
  <2>2. PICK f : Chains(f, tr, pl, m - 1)
    BY <2>1
  <2>3. PICK g : g = [s \in 0..m |-> IF s = m
                                     THEN IF s \notin tr THEN << >>
                                          ELSE Append(f[pl[s].previous], s)
                                     ELSE f[s]]
    OBVIOUS
  <2>4. ASSUME NEW s \in 0..m
        PROVE  g[s] = IF s = 0 \/ s \notin tr THEN << >> ELSE Append(g[pl[s].previous], s)
    <3>1. s \in tr => pl[s].previous \in 0..m /\ pl[s].previous # m
      <4>1. SUFFICES ASSUME s \in tr
                     PROVE  pl[s].previous \in 0..m /\ pl[s].previous # m
        OBVIOUS
      <4>2. PICK q \in Nat : q = pl[s].previous /\ q < s
        BY <4>1 DEF Linked
      <4>3. q \in 0..m /\ q # m
        BY <1>4, <4>2
      <4> QED
        BY <4>2, <4>3
    <3>2. s \in tr => g[pl[s].previous] = f[pl[s].previous]
      BY <2>3, <3>1
    <3>3. CASE s = m
      BY <1>6, <2>3, <3>2, <3>3
    <3>4. CASE s # m
      <4>1. s \in 0..(m - 1)
        BY <1>4, <3>4
      <4>2. f[s] = IF s = 0 \/ s \notin tr THEN << >> ELSE Append(f[pl[s].previous], s)
        BY <2>2, <4>1 DEF Chains
      <4> QED
        BY <2>3, <3>2, <3>4, <4>2
    <3> QED
      BY <3>3, <3>4
  <2>5. g = [s \in 0..m |-> IF s = 0 \/ s \notin tr THEN << >>
                            ELSE Append(g[pl[s].previous], s)]
    BY <2>3, <2>4
  <2> QED
    BY <1>4, <2>5 DEF Chains
<1> QED
  BY <1>5, <1>6

\* Such a function for linked seals, and what it gives.
ChainsOf(f, tr, pl, n) ==
    n \in Nat /\ tr \subseteq 1..n /\ Linked(tr, pl) /\ Chains(f, tr, pl, n)

Gives(f, tr, pl) ==
    /\ f[0] = << >>
    /\ \A s \in tr : /\ f[s] = Append(f[pl[s].previous], s)
                     /\ f[s] \in Seq(tr) /\ f[s] # << >>

Agree(f, f2, tr) == \A s \in {0} \cup tr : f2[s] = f[s]

\* The chains of tracked seals are not empty, and hold tracked seals.
LEMMA ChainsGive ==
    ASSUME NEW n, NEW tr, NEW pl, NEW f, ChainsOf(f, tr, pl, n)
    PROVE  Gives(f, tr, pl)
<1> n \in Nat /\ tr \subseteq 1..n /\ Linked(tr, pl) /\ Chains(f, tr, pl, n)
  BY DEF ChainsOf
<1>1. f[0] = << >>
  BY DEF Chains
<1>2. \A s \in tr : s \in 0..n /\ s # 0
  OBVIOUS
<1>3. \A s \in tr : f[s] = Append(f[pl[s].previous], s)
  BY <1>2 DEF Chains
<1> DEFINE T == {s \in tr : f[s] \notin Seq(tr)}
<1>4. T = {}
  <2>1. SUFFICES ASSUME T # {} PROVE FALSE
    OBVIOUS
  <2>2. T \subseteq tr /\ tr \subseteq Nat
    OBVIOUS
  <2>3. PICK s \in T : \A t \in T : s <= t
    <3> HIDE DEF T
    <3> QED
      BY <2>1, <2>2, LeastSeal
  <2>4. s \in tr /\ f[s] \notin Seq(tr)
    BY <2>3
  <2>5. PICK q \in {0} \cup tr : q = pl[s].previous /\ q < s
    BY <2>4 DEF Linked
  <2>6. f[q] \in Seq(tr)
    <3>1. CASE q = 0
      <4>1. << >> \in Seq(tr)
        OBVIOUS
      <4> QED
        BY <1>1, <3>1, <4>1
    <3>2. CASE q # 0
      <4>1. q \in tr /\ ~(s <= q)
        BY <2>4, <2>5, <3>2
      <4> QED
        BY <2>3, <4>1
    <3> QED
      BY <3>1, <3>2
  <2>7. f[s] = Append(f[q], s)
    BY <1>3, <2>4, <2>5
  <2> QED
    BY <2>4, <2>6, <2>7
<1>5. \A s \in tr : f[s] \in Seq(tr)
  BY <1>4
<1>6. \A s \in tr : f[s] # << >>
  <2> SUFFICES ASSUME NEW s \in tr
               PROVE  f[s] # << >>
    OBVIOUS
  <2>1. PICK q \in {0} \cup tr : q = pl[s].previous
    BY DEF Linked
  <2>2. f[q] \in Seq(tr)
    <3>1. << >> \in Seq(tr)
      OBVIOUS
    <3> QED
      BY <1>1, <1>5, <2>1, <3>1
  <2>3. f[s] = Append(f[q], s)
    BY <1>3, <2>1
  <2>4. Len(f[s]) = Len(f[q]) + 1 /\ Len(f[q]) \in Nat
    BY <2>2, <2>3
  <2> QED
    BY <2>4
<1> QED
  BY <1>1, <1>3, <1>5, <1>6 DEF Gives

\* More seals do not change the chains there are.
LEMMA ChainsStay ==
    ASSUME NEW n, NEW tr, NEW pl, NEW f, ChainsOf(f, tr, pl, n),
           NEW n2, NEW tr2, NEW pl2, NEW f2, ChainsOf(f2, tr2, pl2, n2),
           tr \subseteq tr2, \A s \in tr : pl2[s] = pl[s]
    PROVE  Agree(f, f2, tr)
<1>1. n \in Nat /\ tr \subseteq 1..n /\ Linked(tr, pl)
  BY DEF ChainsOf
<1>2. f2[0] = f[0]
  BY ChainsGive DEF Gives
<1>3. \A s \in tr : /\ f[s] = Append(f[pl[s].previous], s)
                    /\ f2[s] = Append(f2[pl2[s].previous], s)
  BY ChainsGive DEF Gives
<1> DEFINE T == {s \in tr : f2[s] # f[s]}
<1>4. T = {}
  <2>1. SUFFICES ASSUME T # {} PROVE FALSE
    OBVIOUS
  <2>2. T \subseteq tr /\ tr \subseteq Nat
    BY <1>1
  <2>3. PICK s \in T : \A t \in T : s <= t
    <3> HIDE DEF T
    <3> QED
      BY <2>1, <2>2, LeastSeal
  <2>4. s \in tr /\ s \in tr2 /\ f2[s] # f[s]
    BY <2>3
  <2>5. PICK q \in {0} \cup tr : q = pl[s].previous /\ q < s
    BY <1>1, <2>4 DEF Linked
  <2>6. f2[q] = f[q]
    <3>1. CASE q = 0
      BY <1>2, <3>1
    <3>2. CASE q # 0
      <4>1. q \in tr /\ ~(s <= q)
        BY <1>1, <2>4, <2>5, <3>2
      <4> QED
        BY <2>3, <4>1
    <3> QED
      BY <3>1, <3>2
  <2>7. f[s] = Append(f[q], s) /\ f2[s] = Append(f2[q], s)
    BY <1>3, <2>4, <2>5
  <2> QED
    BY <2>4, <2>6, <2>7
<1> QED
  BY <1>2, <1>4 DEF Agree

\* Where history() starts: at the only head of a pair, at none if there is none.
LEMMA StartsAt ==
    ASSUME NEW H \in SUBSET Nat, NEW cur, 0 \notin H,
           \A s, t \in H : s = t,
           cur # 0 => cur \in H
    PROVE  LET h == IF cur # 0 THEN cur
                    ELSE IF H = {} THEN 0 ELSE CHOOSE s \in H : \A t \in H : s <= t
           IN  (H = {} /\ h = 0) \/ (H = {h} /\ h # 0)
<1>1. CASE H = {}
  BY <1>1
<1>2. CASE H # {}
  <2>1. PICK x \in H : TRUE
    BY <1>2
  <2>2. H = {x} /\ x # 0 /\ x \in Nat
    BY <2>1
  <2>3. CASE cur # 0
    BY <2>2, <2>3
  <2>4. CASE cur = 0
    <3>1. (CHOOSE s \in H : \A t \in H : s <= t) = x
      BY <2>2
    <3> QED
      BY <2>2, <2>4, <3>1
  <2> QED
    BY <2>3, <2>4
<1> QED
  BY <1>1, <1>2

\* The head of a pair is its only one.
LEMMA HeadIs ==
    ASSUME ChainInv, NEW p \in Pairs
    PROVE  \/ Heads(p) = {} /\ HistoryHead(p) = 0
           \/ Heads(p) = {HistoryHead(p)} /\ HistoryHead(p) \in tracked
<1>1. tracked \subseteq 1..built /\ built \in Nat
  BY DEF ChainInv, SerialInv, IInv, TypeOK
<1>2. Heads(p) \subseteq tracked
  BY DEF Heads, TrackedOf
<1>3. Heads(p) \in SUBSET Nat /\ 0 \notin Heads(p)
  <2>1. tracked \subseteq Nat /\ 0 \notin tracked
    BY <1>1
  <2> QED
    BY <1>2, <2>1
<1>4. /\ \A s, t \in Heads(p) : s = t
      /\ current[p] # 0 => current[p] \in Heads(p)
  BY DEF ChainInv, SerialInv, HeadIsCurrent, CurrentIsHead
<1>5. (Heads(p) = {} /\ HistoryHead(p) = 0) \/ Heads(p) = {HistoryHead(p)}
  BY <1>3, <1>4, StartsAt DEF HistoryHead
<1> QED
  BY <1>2, <1>5

\* The tracked seals are linked.
LEMMA LinkedIs ==
    ASSUME ChainInv
    PROVE  /\ built \in Nat /\ tracked \subseteq 1..built /\ tracked \subseteq Nat
           /\ Linked(tracked, payload)
<1>1. /\ TypeOK /\ ChainIsRooted /\ FollowsOlder
      /\ tracked \subseteq 1..built /\ built \in Nat
  BY DEF ChainInv, SerialInv, IInv, ChatTellsTheChain, TypeOK
<1>2. Linked(tracked, payload)
  BY <1>1 DEF Linked, ChainIsRooted, FollowsOlder
<1> QED
  BY <1>1, <1>2

\* A step follows two chain functions, before and after it, that agree on the
\* seals that were tracked before.
LEMMA HistoriesGoOn ==
    ASSUME ChainInv, ChainInv', tracked \subseteq tracked',
           \A s \in tracked : payload'[s] = payload[s]
    PROVE  \E f, f2 :
              /\ \A p \in Pairs : /\ History(p) = f[HistoryHead(p)]
                                  /\ History(p)' = f2[HistoryHead(p)']
              /\ Agree(f, f2, tracked)
              /\ Gives(f, tracked, payload) /\ Gives(f2, tracked', payload')
<1>1. PICK n, tr, pl : n = built /\ tr = tracked /\ pl = payload
  OBVIOUS
<1>2. PICK n2, tr2, pl2 : n2 = built' /\ tr2 = tracked' /\ pl2 = payload'
  OBVIOUS
<1>3. n \in Nat /\ tr \subseteq 1..n /\ tr \subseteq Nat /\ Linked(tr, pl)
  BY <1>1, LinkedIs
<1>4. n2 \in Nat /\ tr2 \subseteq 1..n2 /\ tr2 \subseteq Nat /\ Linked(tr2, pl2)
  <2>1. /\ TypeOK' /\ ChainIsRooted' /\ FollowsOlder'
        /\ tracked' \subseteq 1..built' /\ built' \in Nat
    BY DEF ChainInv, SerialInv, IInv, ChatTellsTheChain, TypeOK
  <2>2. Linked(tracked', payload')
    BY <2>1 DEF Linked, ChainIsRooted, FollowsOlder
  <2> QED
    BY <1>2, <2>1, <2>2
<1>5. PICK f : f = CHOOSE g : Chains(g, tr, pl, n)
  OBVIOUS
<1>6. PICK f2 : f2 = CHOOSE g : Chains(g, tr2, pl2, n2)
  OBVIOUS
<1>7. Chains(f, tr, pl, n)
  BY <1>3, <1>5, ChainsExist
<1>8. Chains(f2, tr2, pl2, n2)
  BY <1>4, <1>6, ChainsExist
<1>9. \A p \in Pairs : History(p) = f[HistoryHead(p)]
  BY <1>1, <1>5 DEF History, Chains
<1>10. \A p \in Pairs : History(p)' = f2[HistoryHead(p)']
  BY <1>2, <1>6 DEF History, Chains
<1>11. ChainsOf(f, tr, pl, n) /\ ChainsOf(f2, tr2, pl2, n2)
  BY <1>3, <1>4, <1>7, <1>8 DEF ChainsOf
<1>12. Gives(f, tr, pl) /\ Gives(f2, tr2, pl2)
  BY <1>11, ChainsGive
<1>13. tr \subseteq tr2 /\ \A s \in tr : pl2[s] = pl[s]
  BY <1>1, <1>2
<1>14. Agree(f, f2, tr)
  BY <1>11, <1>13, ChainsStay
<1> QED
  BY <1>1, <1>2, <1>9, <1>10, <1>12, <1>14

\* A step that leaves the tracked seals and the current ones alone leaves the
\* histories alone.
LEMMA HistoriesStay ==
    ASSUME ChainInv, ChainInv', UNCHANGED <<tracked, current>>,
           \A s \in tracked : payload'[s] = payload[s]
    PROVE  \A p \in Pairs : History(p)' = History(p)
<1>1. PICK f, f2 :
         /\ \A p \in Pairs : /\ History(p) = f[HistoryHead(p)]
                             /\ History(p)' = f2[HistoryHead(p)']
         /\ Agree(f, f2, tracked)
         /\ Gives(f, tracked, payload) /\ Gives(f2, tracked', payload')
  BY HistoriesGoOn
<1> SUFFICES ASSUME NEW p \in Pairs
             PROVE  History(p)' = History(p)
  OBVIOUS
<1>2. Heads(p)' = Heads(p)
  BY DEF Heads, TrackedOf
<1>3. HistoryHead(p)' = HistoryHead(p)
  BY <1>2 DEF HistoryHead
<1>4. HistoryHead(p) \in {0} \cup tracked
  BY HeadIs
<1> QED
  BY <1>1, <1>3, <1>4 DEF Agree

\* A seal that is recorded is added to the end of the history of its pair.
LEMMA RecordedExtends ==
    ASSUME ChainInv, ChainInv', UNCHANGED <<payload, built>>,
           NEW p \in Pairs, NEW s \in 1..built, p = payload[s].pair, RecordsSeal(p, s)
    PROVE  Abstract!Extend(p, s)
<1>1. PICK f, f2 :
         /\ \A q \in Pairs : /\ History(q) = f[HistoryHead(q)]
                             /\ History(q)' = f2[HistoryHead(q)']
         /\ Agree(f, f2, tracked)
         /\ Gives(f, tracked, payload) /\ Gives(f2, tracked', payload')
  <2>1. tracked \subseteq tracked' /\ \A t \in tracked : payload'[t] = payload[t]
    BY DEF RecordsSeal
  <2> QED
    BY <2>1, HistoriesGoOn
<1>2. /\ s \notin tracked /\ s # 0 /\ p \notin revokedPairs
      /\ payload[s].previous = current[p]
      /\ tracked' = tracked \cup {s} /\ revokedPairs' = revokedPairs
      /\ \A q \in Pairs : current'[q] = IF q = p THEN s ELSE current[q]
  BY DEF RecordsSeal, ChainInv, SerialInv, IInv, TypeOK
<1>3. HistoryHead(p) = current[p]
  <2>1. CASE current[p] = 0
    <3>1. Heads(p) = {}
      BY <1>2, <2>1 DEF ChainInv, CurrentIsHead, Heads
    <3> QED
      BY <2>1, <3>1 DEF HistoryHead
  <2> QED
    BY <2>1 DEF HistoryHead
<1>4. HistoryHead(p)' = s
  BY <1>2 DEF HistoryHead
<1>5. \A q \in Pairs : HistoryHead(q) \in {0} \cup tracked
  BY HeadIs
<1>6. History(p)' = Append(History(p), s)
  <2>1. f2[s] = Append(f2[payload[s].previous], s)
    BY <1>1, <1>2 DEF Gives
  <2>2. f2[HistoryHead(p)] = f[HistoryHead(p)]
    BY <1>1, <1>5 DEF Agree
  <2> QED
    BY <1>1, <1>2, <1>3, <1>4, <2>1, <2>2
<1>7. ASSUME NEW q \in Pairs, q # p
      PROVE  History(q)' = History(q)
  <2>1. TrackedOf(q)' = TrackedOf(q)
    BY <1>2, <1>7 DEF TrackedOf
  <2>2. Heads(q)' = Heads(q)
    BY <2>1 DEF Heads
  <2>3. HistoryHead(q)' = HistoryHead(q)
    BY <1>2, <1>7, <2>2 DEF HistoryHead
  <2> QED
    BY <1>1, <1>5, <2>3 DEF Agree
<1>8. \A q \in Pairs : History(q) \in Seq(tracked)
  <2>1. << >> \in Seq(tracked)
    OBVIOUS
  <2> QED
    BY <1>1, <1>5, <2>1 DEF Gives
<1>9. \A q \in Pairs : \A k \in DOMAIN History(q) : History(q)[k] # s
  <2> SUFFICES ASSUME NEW q \in Pairs, NEW k \in DOMAIN History(q)
               PROVE  History(q)[k] \in tracked
    BY <1>2
  <2>1. PICK h \in Seq(tracked) : h = History(q)
    BY <1>8
  <2>2. h[k] \in tracked
    BY <2>1
  <2> QED
    BY <2>1, <2>2
<1>10. [q \in Pairs |-> History(q)'] = [[q \in Pairs |-> History(q)] EXCEPT
                                         ![p] = Append(@, s)]
  BY <1>6, <1>7
<1> QED
  BY <1>2, <1>9, <1>10 DEF Abstract!Extend

\* A revocation that is recorded ends the history of its pair, which has one,
\* and changes none.
LEMMA RecordedCloses ==
    ASSUME ChainInv, ChainInv', UNCHANGED <<payload, built>>,
           NEW p \in Pairs, NEW s \in 1..built, p = payload[s].pair,
           RecordsRevocation(p, s)
    PROVE  Abstract!Close(p)
<1>1. /\ s \in tracked /\ p \notin revokedPairs
      /\ tracked' = tracked /\ revokedPairs' = revokedPairs \cup {p}
      /\ \A q \in Pairs : current'[q] = IF q = p THEN 0 ELSE current[q]
  BY DEF RecordsRevocation, ChainInv, SerialInv, IInv, TypeOK
<1>2. PICK f, f2 :
         /\ \A q \in Pairs : /\ History(q) = f[HistoryHead(q)]
                             /\ History(q)' = f2[HistoryHead(q)']
         /\ Agree(f, f2, tracked)
         /\ Gives(f, tracked, payload) /\ Gives(f2, tracked', payload')
  <2>1. tracked \subseteq tracked' /\ \A t \in tracked : payload'[t] = payload[t]
    BY <1>1
  <2> QED
    BY <2>1, HistoriesGoOn
<1>3. \A q \in Pairs : Heads(q)' = Heads(q)
  BY <1>1 DEF Heads, TrackedOf
<1>4. current[p] # 0 /\ HistoryHead(p) = current[p] /\ current[p] \in Heads(p)
  <2>1. s \in TrackedOf(p)
    BY <1>1 DEF TrackedOf
  <2>2. current[p] # 0 /\ current[p] \in Heads(p)
    BY <1>1, <2>1 DEF ChainInv, CurrentIsHead
  <2> QED
    BY <2>2 DEF HistoryHead
<1>5. Heads(p) = {HistoryHead(p)} /\ HistoryHead(p) \in tracked
  BY <1>4, HeadIs
<1>6. HistoryHead(p)' = HistoryHead(p)
  <2>1. PICK h \in Nat : h = HistoryHead(p) /\ h # 0
    BY <1>4, <1>5, LinkedIs
  <2>2. Heads(p)' = {h} /\ current'[p] = 0
    BY <1>1, <1>3, <1>5, <2>1
  <2>3. HistoryHead(p)' = CHOOSE t \in {h} : \A u \in {h} : t <= u
    BY <2>2 DEF HistoryHead
  <2>4. (CHOOSE t \in {h} : \A u \in {h} : t <= u) = h
    OBVIOUS
  <2> QED
    BY <2>1, <2>3, <2>4
<1>7. ASSUME NEW q \in Pairs
      PROVE  History(q)' = History(q)
  <2>1. HistoryHead(q)' = HistoryHead(q)
    <3>1. CASE q = p
      BY <1>6, <3>1
    <3>2. CASE q # p
      <4>1. current'[q] = current[q] /\ Heads(q)' = Heads(q)
        BY <1>1, <1>3, <3>2
      <4> QED
        BY <4>1 DEF HistoryHead
    <3> QED
      BY <3>1, <3>2
  <2>2. HistoryHead(q) \in {0} \cup tracked
    BY HeadIs
  <2> QED
    BY <1>2, <2>1, <2>2 DEF Agree
<1>8. History(p) # << >>
  BY <1>2, <1>5 DEF Gives
<1>9. [q \in Pairs |-> History(q)'] = [q \in Pairs |-> History(q)]
  BY <1>7
<1> QED
  BY <1>1, <1>8, <1>9 DEF Abstract!Close

\* Every step of a lone caller is a step of SealChain, or none.
LEMMA StepRefines ==
    ASSUME ChainInv, ChainInv', [Next]_vars
    PROVE  [Abstract!Next]_<<[p \in Pairs |-> History(p)], revokedPairs>>
<1>1. ASSUME UNCHANGED <<tracked, current, revokedPairs>>,
             \A s \in tracked : payload'[s] = payload[s]
      PROVE  UNCHANGED <<[p \in Pairs |-> History(p)], revokedPairs>>
  <2>1. \A p \in Pairs : History(p)' = History(p)
    BY <1>1, HistoriesStay
  <2>2. [p \in Pairs |-> History(p)'] = [p \in Pairs |-> History(p)]
    BY <2>1
  <2> QED
    BY <1>1, <2>2
<1>2. CASE UNCHANGED vars
  BY <1>1, <1>2 DEF vars
<1>3. CASE Next
  <2>1. PICK c \in Callers :
           \/ \E w : Onward(c, w)
           \/ \E w \in CallState, p \in Pairs, input \in Inputs : Builds(c, w, p, input)
           \/ Recorded(c)
    BY <1>3, StepIs DEF ChainInv, SerialInv
  <2>2. ASSUME NEW w, Onward(c, w)
        PROVE  UNCHANGED <<[p \in Pairs |-> History(p)], revokedPairs>>
    BY <1>1, <2>2 DEF Onward
  <2>3. ASSUME NEW w \in CallState, NEW p \in Pairs, NEW input \in Inputs,
               Builds(c, w, p, input)
        PROVE  UNCHANGED <<[q \in Pairs |-> History(q)], revokedPairs>>
    <3>1. PICK x \in Payload : payload' = Append(payload, x)
      <4>1. current[p] \in 0..MaxSeals
        <5>1. PICK n \in 0..MaxSeals : n = built /\ current[p] \in 0..n
          BY DEF ChainInv, SerialInv, IInv, TypeOK
        <5> QED
          BY <5>1, BoundsAssumption
      <4>2. [pair |-> p, input |-> input, previous |-> current[p]] \in Payload
        BY <4>1 DEF Payload
      <4> QED
        BY <2>3, <4>2 DEF Builds, Build
    <3>2. \A s \in tracked : payload'[s] = payload[s]
      <4>1. PICK n \in Nat, pl \in Seq(Payload) :
               n = built /\ pl = payload /\ n = Len(pl) /\ tracked \subseteq 1..n
        BY LinkedIs DEF ChainInv, SerialInv, IInv, TypeOK
      <4>2. \A i \in 1..n : Append(pl, x)[i] = pl[i]
        BY <3>1, <4>1, Appended
      <4> QED
        BY <3>1, <4>1, <4>2
    <3> QED
      BY <1>1, <2>3, <3>2 DEF Builds
  <2>4. CASE Recorded(c)
    <3>1. PICK p \in Pairs, s \in 1..built :
             p = payload[s].pair /\ (RecordsSeal(p, s) \/ RecordsRevocation(p, s))
      BY <2>4, RecordedIs
    <3>2. UNCHANGED <<payload, built>>
      BY <2>4 DEF Recorded
    <3>3. Abstract!Extend(p, s) \/ Abstract!Close(p)
      BY <3>1, <3>2, RecordedExtends, RecordedCloses
    <3>4. s \in SealIds
      <4>1. PICK n \in 0..MaxSeals : n = built /\ s \in 1..n
        BY DEF ChainInv, SerialInv, IInv, TypeOK
      <4> QED
        BY <4>1, BoundsAssumption DEF SealIds
    <3> QED
      BY <3>3, <3>4 DEF Abstract!Next
  <2> QED
    BY <2>1, <2>2, <2>3, <2>4
<1> QED
  BY <1>2, <1>3

\* As long as calls do not overlap, the seal manager keeps the promise of
\* SealChain, whatever fails: history() of a pair only grows, at its end, by a
\* seal that no history holds, and a revocation ends it for good.
THEOREM LoneCallsImplementSealChain ==
    ASSUME OneCaller
    PROVE  Spec => ImplementsSealChain
<1>1. Init => ChainInv
  BY ChainInit
<1>2. ChainInv /\ [Next]_vars => ChainInv'
  BY ChainStep
<1>3. Init => Abstract!Init
  <2> SUFFICES ASSUME Init
               PROVE  Abstract!Init
    OBVIOUS
  <2>1. ASSUME NEW p \in Pairs
        PROVE  History(p) = << >>
    <3>1. HistoryHead(p) = 0
      BY DEF Init, HistoryHead, Heads, TrackedOf
    <3>2. PICK f : f = CHOOSE g : Chains(g, tracked, payload, built)
      OBVIOUS
    <3>3. Chains(f, tracked, payload, built)
      BY <1>1, <3>2, LinkedIs, ChainsExist
    <3>4. History(p) = f[0]
      BY <3>1, <3>2 DEF History, Chains
    <3> QED
      BY <1>1, <3>3, <3>4, LinkedIs DEF Chains
  <2> QED
    BY <2>1 DEF Init, Abstract!Init
<1>4. ChainInv /\ ChainInv' /\ [Next]_vars
      => [Abstract!Next]_<<[p \in Pairs |-> History(p)], revokedPairs>>
  BY StepRefines
<1> QED
  BY <1>1, <1>2, <1>3, <1>4, PTL DEF Spec, ImplementsSealChain, Abstract!Spec
=============================================================================
