---------------------------- MODULE ReadElevation ----------------------------
(***************************************************************************)
(* Admin read elevation: a session of the admin asks to read the messages  *)
(* of a chat, the owner approves, the approval is cached for a while, and  *)
(* the seals of the chat disclose it.  The module has the elevation        *)
(* manager, the store of disclosures, the tracker of rollback windows and  *)
(* the daemon's hook that refreshes the seals.  One chat, several sessions *)
(* and requests; every awaited call is a step of its own and may fail.     *)
(***************************************************************************)
EXTENDS Naturals, FiniteSets, FiniteSetsExt

CONSTANTS Sessions,   \* authenticated admin sessions (issuer and token id)
          Requests,   \* requests and timers under way at once
          Seals,      \* current seals of the chat, numbered in list order
          Ttl,        \* lifetime of an elevation
          MaxTime,    \* bound of the clock
          MaxErrors   \* bound: failing calls per behaviour

ASSUME ElevationAssumption ==
  /\ Sessions # {}
  /\ Seals \subseteq Nat
  /\ Ttl \in Nat

VARIABLES
  clock,
  cache,      \* session -> expiry of its cached elevation, 0 for none
  timer,      \* session -> expiry its timer was set for, 0 for none
  entries,    \* disclosure store: session -> disclosed expiry, 0 for none
  rollbacks,  \* open rollback windows of the chat
  sealed,     \* seal -> expiry its published head discloses, 0 for none
  reqs,       \* the requests and timer callbacks under way
  crossed,    \* history: sessions with two requests under way at once
  broken,     \* history: the refresh of a rollback failed too
  errors

evars == <<clock, cache, timer, entries, rollbacks, sealed, reqs, crossed,
           broken, errors>>

NoReq == [pc |-> "idle", session |-> "none", exp |-> 0, todo |-> {}, next |-> "end"]

EInit ==
  /\ clock = 1 /\ cache = [s \in Sessions |-> 0] /\ timer = [s \in Sessions |-> 0]
  /\ entries = [s \in Sessions |-> 0] /\ rollbacks = 0
  /\ sealed = [x \in Seals |-> 0] /\ reqs = [r \in Requests |-> NoReq]
  /\ crossed = {} /\ broken = FALSE /\ errors = 0

Err == errors < MaxErrors /\ errors' = errors + 1
NoErr == errors' = errors
Busy == {r \in Requests : reqs[r].pc # "idle"}

-----------------------------------------------------------------------------
(* The disclosure store.                                                   *)

\* aggregateForChat drops entries that expired, unless they are asked for.
Live(e) == [s \in Sessions |-> IF e[s] > clock THEN e[s] ELSE 0]
Aggregate(e) == Max({e[s] : s \in Sessions})

\* set and delete report the chat as changed when its aggregate differs; expired
\* entries are gone before the first aggregate is taken.
SetEntry(s, exp) == [Live(entries) EXCEPT ![s] = exp]
DeleteEntry(s) == [Live(entries) EXCEPT ![s] = 0]
Changed(after) == Aggregate(Live(entries)) # Aggregate(after)

-----------------------------------------------------------------------------
(* A request.                                                              *)

\* A request whose refresh is over, or was not needed, goes on or is over itself.
Onwards(q) ==
  IF q.next = "end" \/ q.pc \in {"undoDisclosing", "undoRetracting"} THEN NoReq
  ELSE [q EXCEPT !.todo = {}, !.pc = q.next]

\* syncDisclosureExpiry, its synchronous part: the entry goes, and the seals are
\* refreshed when that changed what the chat discloses.
Retract(r, s, exp, next) ==
  LET after == DeleteEntry(s)
      q == [pc |-> "retracting", session |-> s, exp |-> exp, todo |-> Seals, next |-> next] IN
  /\ entries' = after
  /\ reqs' = [reqs EXCEPT ![r] = IF Changed(after) THEN q ELSE Onwards(q)]

\* resolveForRequest up to its first await: reuse a live elevation, expire a stale
\* one, or go and ask the owner.
Resolve(r, s) ==
  /\ reqs[r].pc = "idle"
  /\ crossed' = IF \E q \in Busy : reqs[q].session = s THEN crossed \cup {s} ELSE crossed
  /\ \/ /\ cache[s] > clock
        /\ reqs' = [reqs EXCEPT ![r] = [NoReq EXCEPT !.pc = "reuse", !.session = s]]
        /\ UNCHANGED <<cache, timer, entries>>
     \/ /\ cache[s] # 0 /\ cache[s] <= clock
        /\ cache' = [cache EXCEPT ![s] = 0] /\ timer' = [timer EXCEPT ![s] = 0]
        /\ Retract(r, s, cache[s], "expiredThenAsk")
     \/ /\ cache[s] = 0
        /\ reqs' = [reqs EXCEPT ![r] = [NoReq EXCEPT !.pc = "ask", !.session = s]]
        /\ UNCHANGED <<cache, timer, entries>>
  /\ UNCHANGED <<clock, rollbacks, sealed, broken, errors>>

\* The timer of scheduleExpiration: expireCachedElevation without a request.
Expire(r, s) ==
  /\ reqs[r].pc = "idle" /\ timer[s] # 0 /\ timer[s] <= clock
  /\ cache' = [cache EXCEPT ![s] = 0] /\ timer' = [timer EXCEPT ![s] = 0]
  /\ Retract(r, s, timer[s], "expired")
  /\ crossed' = IF \E q \in Busy : reqs[q].session = s THEN crossed \cup {s} ELSE crossed
  /\ UNCHANGED <<clock, rollbacks, sealed, broken, errors>>

\* appendReuseAudit: an elevation whose reuse cannot be logged is not handed out.
Reuse(r) ==
  /\ reqs[r].pc = "reuse"
  /\ NoErr \/ Err
  /\ reqs' = [reqs EXCEPT ![r] = NoReq]
  /\ UNCHANGED <<clock, cache, timer, entries, rollbacks, sealed, crossed, broken>>

\* The end of expireCachedElevation: the audit entries, then the request goes on
\* to ask, unless the log failed.
Expired(r) ==
  /\ reqs[r].pc \in {"expired", "expiredThenAsk"}
  /\ \/ /\ NoErr
        /\ reqs' = [reqs EXCEPT ![r] =
             IF @.pc = "expired" THEN NoReq
             ELSE [NoReq EXCEPT !.pc = "ask", !.session = reqs[r].session]]
     \/ Err /\ reqs' = [reqs EXCEPT ![r] = NoReq]
  /\ UNCHANGED <<clock, cache, timer, entries, rollbacks, sealed, crossed, broken>>

\* approver.authorize and getApprovalFingerprint; then syncDisclosureApproval sets
\* the entry before anything is refreshed.  Every approval takes the owner's
\* gesture, so no two fall in the same millisecond.
Ask(r) ==
  LET s == reqs[r].session
      exp == clock + Ttl
      after == SetEntry(s, exp) IN
  /\ reqs[r].pc = "ask"
  /\ \/ Err /\ reqs' = [reqs EXCEPT ![r] = NoReq] /\ UNCHANGED entries
     \/ /\ NoErr /\ \A o \in Sessions \ {s} : entries[o] # exp
        /\ entries' = after
        /\ reqs' = [reqs EXCEPT ![r] =
             [pc |-> IF Changed(after) THEN "disclosing" ELSE "approve", session |-> s,
              exp |-> exp, todo |-> IF Changed(after) THEN Seals ELSE {}, next |-> "approve"]]
  /\ UNCHANGED <<clock, cache, timer, rollbacks, sealed, crossed, broken>>

\* The audit entry of the approval, then the cache and the timer.  A log that fails
\* takes the disclosure back.
Approve(r) ==
  LET q == reqs[r] IN
  /\ reqs[r].pc = "approve"
  /\ \/ /\ NoErr
        /\ cache' = [cache EXCEPT ![q.session] = q.exp]
        /\ timer' = [timer EXCEPT ![q.session] = q.exp]
        /\ reqs' = [reqs EXCEPT ![r] = NoReq]
        /\ UNCHANGED entries
     \/ /\ Err
        /\ Retract(r, q.session, q.exp, "end")
        /\ UNCHANGED <<cache, timer>>
  /\ UNCHANGED <<clock, rollbacks, sealed, crossed, broken>>

-----------------------------------------------------------------------------
(* onDisclosureChanged: the seals of the chat are refreshed one by one.    *)

\* lookupAdminAccess: the live aggregate, or, inside a rollback window, the
\* aggregate with the expired entries.
Access == IF rollbacks > 0 THEN Aggregate(entries) ELSE Aggregate(Live(entries))

Refreshing == {"disclosing", "retracting", "undoDisclosing", "undoRetracting"}

\* sealManager.refresh of one seal.
RefreshSeal(r) ==
  LET q == reqs[r]
      x == Min(q.todo)
      rest == q.todo \ {x} IN
  /\ q.pc \in Refreshing
  /\ sealed' = [sealed EXCEPT ![x] = Access]
  /\ entries' = IF rollbacks > 0 THEN entries ELSE Live(entries)
  /\ reqs' = [reqs EXCEPT ![r] =
       IF rest # {} THEN [q EXCEPT !.todo = rest] ELSE Onwards(q)]
  /\ rollbacks' = IF rest = {} /\ q.pc = "undoRetracting" THEN rollbacks - 1 ELSE rollbacks
  /\ UNCHANGED <<clock, cache, timer, crossed, broken, errors>>

\* Mutant: a failed refresh of an approval leaves the entry in the store.
RefreshFailsKeeping(r) ==
  /\ reqs[r].pc \in Refreshing /\ Err
  /\ reqs' = [reqs EXCEPT ![r] = NoReq]
  /\ UNCHANGED <<clock, cache, timer, entries, rollbacks, sealed, crossed, broken>>

\* A refresh fails: an approval deletes its entry and refreshes again if that
\* changed the disclosure; an expiry restores its entry and refreshes inside a
\* rollback window; a failing rollback is reported and left as it is.
RefreshFails(r) ==
  LET q == reqs[r]
      after == DeleteEntry(q.session) IN
  /\ q.pc \in Refreshing /\ Err
  /\ \/ /\ q.pc = "disclosing"
        /\ entries' = after
        /\ reqs' = [reqs EXCEPT ![r] =
             IF Changed(after)
             THEN [q EXCEPT !.pc = "undoDisclosing", !.todo = Seals] ELSE NoReq]
        /\ UNCHANGED <<rollbacks, broken>>
     \/ /\ q.pc = "retracting"
        /\ entries' = [entries EXCEPT ![q.session] = q.exp]
        /\ rollbacks' = rollbacks + 1
        /\ reqs' = [reqs EXCEPT ![r] = [q EXCEPT !.pc = "undoRetracting", !.todo = Seals]]
        /\ broken' = (broken \/ q.next = "end")
     \/ /\ q.pc \in {"undoDisclosing", "undoRetracting"}
        /\ rollbacks' = IF q.pc = "undoRetracting" THEN rollbacks - 1 ELSE rollbacks
        /\ reqs' = [reqs EXCEPT ![r] = NoReq]
        /\ broken' = TRUE
        /\ UNCHANGED entries
  /\ UNCHANGED <<clock, cache, timer, sealed, crossed>>

Tick ==
  /\ clock < MaxTime
  /\ clock' = clock + 1
  /\ UNCHANGED <<cache, timer, entries, rollbacks, sealed, reqs, crossed,
                 broken, errors>>

ENext ==
  \/ Tick
  \/ \E r \in Requests :
       \/ \E s \in Sessions : Resolve(r, s) \/ Expire(r, s)
       \/ Reuse(r) \/ Expired(r) \/ Ask(r) \/ Approve(r)
       \/ RefreshSeal(r) \/ RefreshFails(r)

ElevationSpec == EInit /\ [][ENext]_evars

-----------------------------------------------------------------------------
Honest == Busy = {} /\ ~broken

(***************************************************************************)
(* "so public disclosure stays honest": once nothing is under way, a live  *)
(* cached elevation is disclosed by every seal of the chat at least until  *)
(* it ends, and the store claims nothing no session was approved for.      *)
(* Sessions with two requests at once are excepted: the rollback of one    *)
(* deletes the entry of the other.                                         *)
(***************************************************************************)
DisclosureIsHonest ==
  Honest => \A s \in Sessions \ crossed :
    /\ cache[s] > clock => \A x \in Seals : sealed[x] >= cache[s]
    /\ entries[s] > clock => cache[s] = entries[s]

(***************************************************************************)
(* "refreshed again when the elevation expires": once every timer that was *)
(* due has run and nothing is under way, no seal discloses an elevation    *)
(* that is over.                                                           *)
(***************************************************************************)
ExpiryIsPublished ==
  Honest /\ (\A s \in Sessions : timer[s] = 0 \/ timer[s] > clock) =>
    \A x \in Seals : sealed[x] = 0 \/ sealed[x] > clock
=============================================================================
