----------------------------- MODULE Projection -----------------------------
(***************************************************************************)
(* What a credential is shown of a message: the reveal store               *)
(* (packages/policy/src/reveal-state.ts), the projection pipeline          *)
(* (policy/src/pipeline) and the two places the daemon runs it, the event  *)
(* projector of the websocket server (cli/src/ws/event-projector.ts) and   *)
(* the replay that follows a reveal (handleRevealContent of                *)
(* request-handler.ts).  The scopes of the credential may change, reveals  *)
(* expire, and a snapshot of the store may be restored later.              *)
(***************************************************************************)
EXTENDS Integers, FiniteSets

CONSTANTS
    ChatMessages,   \* the messages: [id, group, thread, sender, type, sentAt]
    ScopedChats,    \* the chats of the credential
    Grants,         \* the policies it may be given: [allow, deny]
    MaxReveals,     \* bound: reveals recorded
    MaxClock        \* bound: the last instant

VARIABLES
    clock,       \* now
    granted,     \* the policy of the credential: [allow, deny]
    reveals,     \* the entries of the store (their order is never looked at)
    saved,       \* the last snapshot
    recorded,    \* history: every reveal ever recorded
    shown        \* the event last projected, with the message it is about

pvars == <<clock, granted, reveals, saved, recorded, shown>>

NotShown == [visibility |-> "none"]
NoExpiry == 0

\* resolveScopeSet, and createScopeGuard over it: deny wins.
ScopeGuard(scope) == scope \in granted.allow \ granted.deny

-----------------------------------------------------------------------------
(* The reveal store.                                                       *)

\* Mutant: a reveal applies in every chat.
CoversInAnyGroup(entry, m) ==
  CASE entry.scope = "time-window" -> m.sentAt \in entry.target
    [] entry.scope # "time-window" -> m[entry.scope] \in entry.target

\* One entry of isRevealed: the chat, then the scope it was asked for; a
\* target that does not parse is an empty window.
Covers(entry, m) ==
  /\ entry.group = m.group
  /\ CASE entry.scope = "time-window" -> m.sentAt \in entry.target
       [] entry.scope # "time-window" -> m[entry.scope] \in entry.target

\* An entry is over at the instant it expires.
Expired(entry) == entry.expires # NoExpiry /\ entry.expires <= clock

IsRevealed(m) ==
  \E entry \in reveals : ~Expired(entry) /\ Covers(entry, m)

\* What a client may ask to reveal.
RevealsFor(m) ==
  LET at(scope, target, expires) ==
        [group |-> m.group, scope |-> scope, target |-> target, expires |-> expires]
  IN {at(s, {m[s]}, e) : s \in {"id", "thread", "sender", "type"},
                         e \in {NoExpiry, clock + 1}}
     \cup {at("time-window", w, clock + 1) : w \in {{}, {m.sentAt}}}

-----------------------------------------------------------------------------
(* The pipeline.                                                           *)

\* resolveVisibility
ResolveVisibility(isRevealed) ==
  IF ScopeGuard("read-messages") THEN "visible"
  ELSE IF isRevealed THEN "revealed" ELSE "hidden"

\* projectContent: what is shown carries its content.
ProjectContent(visibility) == visibility \in {"visible", "historical", "revealed"}

\* projectMessage: chat, type, visibility, history, content.  Both callers
\* allow the type of the message itself (resolveEffectiveAllowlist is not
\* consulted), so the second stage passes.
ProjectMessage(m, historical, isRevealed) ==
  LET base == ResolveVisibility(isRevealed)
      seen == IF historical /\ base = "visible" THEN "historical" ELSE base
  IN IF \/ m.group \notin ScopedChats
        \/ base = "hidden"
        \/ historical /\ ~ScopeGuard("read-history")
     THEN NotShown
     ELSE [visibility |-> seen, message |-> m, content |-> ProjectContent(seen)]

-----------------------------------------------------------------------------
PjInit ==
  /\ clock = 0
  /\ granted \in Grants
  /\ reveals = {} /\ saved = {} /\ recorded = {}
  /\ shown = NotShown

\* createEventProjector on a message event.
ProjectEvent(m, historical) ==
  /\ shown' = ProjectMessage(m, historical, IsRevealed(m))
  /\ UNCHANGED <<clock, granted, reveals, saved, recorded>>

\* handleRevealContent: record, then replay as history what is now revealed in
\* the chat, each message on its own (HarnessRequests has the await between).
RevealContent(entry) ==
  /\ Cardinality(recorded) < MaxReveals
  /\ reveals' = reveals \cup {entry}
  /\ recorded' = recorded \cup {entry}
  /\ shown' \in {NotShown} \cup
        {ProjectMessage(m, TRUE, TRUE) :
           m \in {x \in ChatMessages : x.group = entry.group
                     /\ \E e \in reveals' : ~Expired(e) /\ Covers(e, x)}}
  /\ UNCHANGED <<clock, granted, saved>>

\* expireStale
ExpireStale ==
  /\ reveals' = {entry \in reveals : ~Expired(entry)}
  /\ shown' = NotShown
  /\ UNCHANGED <<clock, granted, saved, recorded>>

\* snapshot
Snapshot ==
  /\ saved' = reveals /\ shown' = NotShown
  /\ UNCHANGED <<clock, granted, reveals, recorded>>

\* restore: the entries are replaced, the expired ones of the snapshot included.
Restore ==
  /\ reveals' = saved /\ shown' = NotShown
  /\ UNCHANGED <<clock, granted, saved, recorded>>

\* The credential manager replaces effectiveScopes.
ScopesChange(p) ==
  /\ granted' = p /\ shown' = NotShown
  /\ UNCHANGED <<clock, reveals, saved, recorded>>

ClockTicks ==
  /\ clock < MaxClock /\ clock' = clock + 1 /\ shown' = NotShown
  /\ UNCHANGED <<granted, reveals, saved, recorded>>

PjNext ==
  \/ \E m \in ChatMessages, historical \in BOOLEAN : ProjectEvent(m, historical)
  \/ \E m \in ChatMessages : \E entry \in RevealsFor(m) : RevealContent(entry)
  \/ ExpireStale \/ Snapshot \/ Restore \/ ClockTicks
  \/ \E p \in Grants : ScopesChange(p)

ProjectionSpec == PjInit /\ [][PjNext]_pvars

-----------------------------------------------------------------------------
\* Nothing is shown that the credential could not read at that moment: the
\* message is in its chats, and either reading is allowed and not denied or a
\* reveal that was asked for, has not expired and is about that message's own
\* chat covers it, whatever was expired, saved and restored in between
\* (isRevealed, projectMessage).
ShownWasAllowed ==
  shown # NotShown =>
    LET m == shown.message IN
    /\ m.group \in ScopedChats
    /\ \/ ScopeGuard("read-messages")
       \/ \E entry \in recorded :
             /\ entry.expires = NoExpiry \/ clock < entry.expires
             /\ entry.group = m.group
             /\ \/ entry.scope = "time-window" /\ m.sentAt \in entry.target
                \/ entry.scope # "time-window" /\ m[entry.scope] \in entry.target
=============================================================================
