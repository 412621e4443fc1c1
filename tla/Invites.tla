------------------------------- MODULE Invites -------------------------------
(***************************************************************************)
(* Joining a conversation by invite.  A joiner (joinConversation) makes    *)
(* itself an identity, sends the host a structured request and the same    *)
(* invite as plain text, and polls until the group shows up.  The host's   *)
(* listener learns of the request three ways at once: the message stream   *)
(* delivers each of the two messages, and a new DM makes it scan the DM's  *)
(* history, again after a while when something failed that may pass.  Each *)
(* await is a step boundary.  One group, one host identity; every joiner   *)
(* has an inbox of its own, so a joiner stands for its sender-and-slug key.*)
(***************************************************************************)
EXTENDS Naturals, FiniteSets

CONSTANTS Joiners,      \* joins, each with a fresh identity
          MaxTags,      \* bound: invites generated for the group
          MaxPolls,     \* maxPollAttempts
          MaxScans,     \* MAX_DM_RECOVERY_RETRIES
          MaxRestarts   \* bound: restarts of the host

VARIABLES
  tagStore,   \* the stored invite tag of the group, 0 for none
  newest,     \* the tag of the newest invite
  jpc,        \* where each join is
  jtag,       \* the tag of the invite it uses
  stale,      \* joins whose invite was superseded before they sent it
  polls,      \* polls made
  idents,     \* identity records of joiners
  inDm,       \* messages in the DMs: <<joiner, form>>
  streamed,   \* messages the host's stream has delivered
  dmJoined,   \* DMs the host was told of
  replied,    \* joins the creator answered with an error in the DM
  members,    \* joiners the group has
  seenIds, seenKeys, flyIds, flyKeys,  \* the listener's four sets
  work,       \* candidates being processed: [msg, by, pc]
  scans,      \* recovery of each DM: [pc, count, again]
  timers,     \* DM -> scans made before the pending retry, 0 for no timer
  accepted,   \* history: acceptances of each join since the host started
  admitted,   \* history: stale joins that were let in
  restarts

ivars == <<tagStore, newest, jpc, jtag, stale, polls, idents, inDm, streamed,
           dmJoined, replied, members, seenIds, seenKeys, flyIds, flyKeys, work,
           scans, timers, accepted, admitted, restarts>>

joinVars == <<jpc, jtag, stale, polls, idents, inDm, replied>>
listenVars == <<seenIds, seenKeys, flyIds, flyKeys, work, scans, timers>>
restVars == <<tagStore, newest, streamed, dmJoined, members, accepted, admitted, restarts>>

Forms == {"structured", "text"}
NoScan == [pc |-> "idle", count |-> 0, again |-> FALSE]

IInit ==
  /\ tagStore = 0 /\ newest = 0
  /\ jpc = [j \in Joiners |-> "idle"] /\ jtag = [j \in Joiners |-> 0] /\ stale = {}
  /\ polls = [j \in Joiners |-> 0] /\ idents = {} /\ inDm = {} /\ streamed = {}
  /\ dmJoined = {} /\ replied = {} /\ members = {}
  /\ seenIds = {} /\ seenKeys = {} /\ flyIds = {} /\ flyKeys = {} /\ work = {}
  /\ scans = [j \in Joiners |-> NoScan] /\ timers = [j \in Joiners |-> 0]
  /\ accepted = [j \in Joiners |-> 0] /\ admitted = {} /\ restarts = 0

-----------------------------------------------------------------------------
(* The joiner.                                                             *)

\* chat.invite: a fresh tag, stored after the URL was made; the store keeps one
\* tag per group.
GenerateInvite ==
  /\ newest < MaxTags
  /\ newest' = newest + 1 /\ tagStore' = newest + 1
  /\ UNCHANGED <<joinVars, streamed, dmJoined, members, listenVars, accepted,
                 admitted, restarts>>

JoinGoes(j, l) == jpc' = [jpc EXCEPT ![j] = l]

\* Every failure after the identity exists removes its record.
JoinFails(j) ==
  /\ JoinGoes(j, "failed")
  /\ idents' = idents \ {j}

\* parse, verify, expiry, then registerIdentity, whose own failures clean up too.
JoinBegins(j, t) ==
  /\ jpc[j] = "idle"
  /\ jtag' = [jtag EXCEPT ![j] = t]
  /\ \/ JoinGoes(j, "client") /\ idents' = idents \cup {j}
     \/ JoinGoes(j, "failed") /\ UNCHANGED idents
  /\ UNCHANGED <<stale, polls, inDm, replied, restVars, listenVars>>

\* The keys, the second client and the DM with the creator.
JoinClient(j) ==
  /\ jpc[j] = "client"
  /\ \/ JoinGoes(j, "structured") /\ UNCHANGED idents
     \/ JoinFails(j)
  /\ UNCHANGED <<jtag, stale, polls, inDm, replied, restVars, listenVars>>

\* The structured request, without which the join fails; then the plain text,
\* whose failure is passed over.
JoinSends(j) ==
  /\ \/ /\ jpc[j] = "structured"
        /\ inDm' = inDm \cup {<<j, "structured">>}
        /\ stale' = IF jtag[j] < newest THEN stale \cup {j} ELSE stale
        /\ JoinGoes(j, "text") /\ UNCHANGED idents
     \/ jpc[j] = "structured" /\ JoinFails(j) /\ UNCHANGED <<inDm, stale>>
     \/ /\ jpc[j] = "text"
        /\ inDm' = inDm \cup {<<j, "text">>} \/ UNCHANGED inDm
        /\ JoinGoes(j, "poll") /\ UNCHANGED <<idents, stale>>
  /\ UNCHANGED <<jtag, polls, replied, restVars, listenVars>>

\* Mutant: a poll that cannot sync gives up and forgets the record it made.
JoinPollsForgetful(j) ==
  /\ jpc[j] = "poll"
  /\ \/ j \in members /\ JoinGoes(j, "ok") /\ UNCHANGED <<idents, polls>>
     \/ JoinGoes(j, "failed") /\ UNCHANGED <<idents, polls>>
  /\ UNCHANGED <<jtag, stale, inDm, replied, restVars, listenVars>>

\* One poll: sync and list (a failure ends the join), the group if it shows up, an
\* error reply of the creator for this invite, or the next attempt; the last one
\* times out.  A group found gets a profile update whose result only is reported.
JoinPolls(j) ==
  /\ jpc[j] = "poll"
  /\ \/ j \in members /\ JoinGoes(j, "ok") /\ UNCHANGED <<idents, polls>>
     \/ JoinFails(j) /\ UNCHANGED polls
     \/ j \in replied /\ JoinFails(j) /\ UNCHANGED polls
     \/ /\ polls' = [polls EXCEPT ![j] = @ + 1]
        /\ IF polls[j] + 1 < MaxPolls THEN UNCHANGED <<jpc, idents>> ELSE JoinFails(j)
  /\ UNCHANGED <<jtag, stale, inDm, replied, restVars, listenVars>>

\* A creator that is not a signet may answer with an error in the DM.
CreatorReplies(j) ==
  /\ <<j, "structured">> \in inDm /\ j \notin members \cup replied
  /\ replied' = replied \cup {j}
  /\ UNCHANGED <<jpc, jtag, stale, polls, idents, inDm, restVars, listenVars>>

-----------------------------------------------------------------------------
(* The host's listener.                                                    *)

\* Mutant: only the ids of messages are looked at, not the request they carry.
AlreadyHandledById(m) == m \in seenIds \cup flyIds

\* processInviteCandidate's four early returns, which all count as accepted.
AlreadyHandled(m) == m \in seenIds \cup flyIds \/ m[1] \in seenKeys \cup flyKeys

Begin(m, by) ==
  /\ flyIds' = flyIds \cup {m} /\ flyKeys' = flyKeys \cup {m[1]}
  /\ work' = work \cup {[msg |-> m, by |-> by, pc |-> "check"]}

\* The message stream delivers a request message.
Streamed(m) ==
  /\ m \in inDm \ streamed
  /\ streamed' = streamed \cup {m}
  /\ IF AlreadyHandled(m) THEN UNCHANGED <<flyIds, flyKeys, work>> ELSE Begin(m, "stream")
  /\ UNCHANGED <<joinVars, tagStore, newest, dmJoined, members, seenIds, seenKeys,
                 scans, timers, accepted, admitted, restarts>>

\* raw.dm.joined, or the retry timer: the scan starts.
ScanBegins(j) ==
  /\ scans[j].pc = "idle"
  /\ \/ /\ j \notin dmJoined /\ \E f \in Forms : <<j, f>> \in inDm
        /\ dmJoined' = dmJoined \cup {j}
        /\ scans' = [scans EXCEPT ![j] = [pc |-> "scan", count |-> 0, again |-> FALSE]]
        /\ UNCHANGED timers
     \/ /\ timers[j] > 0
        /\ scans' = [scans EXCEPT ![j] = [pc |-> "scan", count |-> timers[j], again |-> FALSE]]
        /\ timers' = [timers EXCEPT ![j] = 0]
        /\ UNCHANGED dmJoined
  /\ UNCHANGED <<joinVars, tagStore, newest, streamed, members, seenIds, seenKeys,
                 flyIds, flyKeys, work, accepted, admitted, restarts>>

\* The end of recoverInviteCandidatesFromDm: one more timer, unless there is one
\* or the retries are used up.
ScanEnds(j, again) ==
  /\ scans' = [scans EXCEPT ![j] = NoScan]
  /\ timers' = IF again /\ scans[j].count < MaxScans /\ timers[j] = 0
               THEN [timers EXCEPT ![j] = scans[j].count + 1] ELSE timers

\* listRecentInviteCandidates...: what the DM holds and the listener has not
\* processed, one message per request, the structured one if it is there.
Scanned(j) ==
  LET found == {m \in inDm : m[1] = j /\ m \notin seenIds /\ j \notin seenKeys}
      m == IF <<j, "structured">> \in found THEN <<j, "structured">> ELSE <<j, "text">> IN
  /\ scans[j].pc = "scan"
  /\ \/ ScanEnds(j, TRUE) /\ UNCHANGED <<flyIds, flyKeys, work>>
     \/ /\ found = {} \/ AlreadyHandled(m)
        /\ ScanEnds(j, FALSE) /\ UNCHANGED <<flyIds, flyKeys, work>>
     \/ /\ found # {} /\ ~AlreadyHandled(m)
        /\ Begin(m, "scan")
        /\ scans' = [scans EXCEPT ![j].pc = "process"]
        /\ UNCHANGED timers
  /\ UNCHANGED <<joinVars, restVars, seenIds, seenKeys>>

\* The end of a candidate: the finally block, and the scan that waited for it.
Finish(w, again) ==
  LET j == w.msg[1] IN
  /\ work' = work \ {w}
  /\ flyIds' = flyIds \ {w.msg} /\ flyKeys' = flyKeys \ {j}
  /\ IF w.by = "scan" THEN ScanEnds(j, again) ELSE UNCHANGED <<scans, timers>>

Advance(w, l) == work' = (work \ {w}) \cup {[w EXCEPT !.pc = l]}

\* dispatch...: an identity without inbox, client or key is worth a retry; the
\* invite's tag must be the stored one, if one is stored, or the request is
\* rejected for good.
CheckRequest(w) ==
  LET j == w.msg[1] IN
  /\ w \in work /\ w.pc = "check"
  /\ \/ Finish(w, TRUE)
     \/ tagStore \notin {0, jtag[j]} /\ Finish(w, FALSE)
     \/ /\ tagStore \in {0, jtag[j]}
        /\ Advance(w, "add") /\ UNCHANGED <<flyIds, flyKeys, scans, timers>>
  /\ UNCHANGED <<joinVars, restVars, seenIds, seenKeys>>

\* addMembers; success marks the message and the request processed at once.
AddMember(w) ==
  LET j == w.msg[1] IN
  /\ w \in work /\ w.pc = "add"
  /\ \/ Finish(w, TRUE) /\ UNCHANGED <<members, seenIds, seenKeys, accepted, admitted>>
     \/ /\ members' = members \cup {j}
        /\ seenIds' = seenIds \cup {w.msg} /\ seenKeys' = seenKeys \cup {j}
        /\ accepted' = [accepted EXCEPT ![j] = @ + 1]
        /\ admitted' = IF j \in stale THEN admitted \cup {j} ELSE admitted
        /\ Advance(w, "effects")
        /\ UNCHANGED <<flyIds, flyKeys, scans, timers>>
  /\ UNCHANGED <<joinVars, tagStore, newest, streamed, dmJoined, restarts>>

\* onJoinAccepted: the audit entry and the profile snapshot; failures are ignored.
Effects(w) ==
  /\ w \in work /\ w.pc = "effects"
  /\ Finish(w, FALSE)
  /\ UNCHANGED <<joinVars, restVars, seenIds, seenKeys>>

\* The key's timer.  It outlasts the window in which the two messages and the DM
\* event of one request arrive.
KeyExpires(j) ==
  /\ j \in seenKeys /\ j \in dmJoined /\ jpc[j] \in {"poll", "ok", "failed"}
  /\ \A m \in inDm : m[1] = j => m \in streamed
  /\ scans[j].pc = "idle" /\ timers[j] = 0
  /\ seenKeys' = seenKeys \ {j}
  /\ UNCHANGED <<joinVars, restVars, seenIds, flyIds, flyKeys, work, scans, timers>>

\* The daemon restarts: the listener's state and the tag store are in memory only.
HostRestarts ==
  /\ restarts < MaxRestarts
  /\ restarts' = restarts + 1
  /\ tagStore' = 0
  /\ seenIds' = {} /\ seenKeys' = {} /\ flyIds' = {} /\ flyKeys' = {} /\ work' = {}
  /\ scans' = [j \in Joiners |-> NoScan] /\ timers' = [j \in Joiners |-> 0]
  /\ accepted' = [j \in Joiners |-> 0]
  /\ UNCHANGED <<joinVars, newest, streamed, dmJoined, members, admitted>>

INext ==
  \/ GenerateInvite \/ HostRestarts
  \/ \E j \in Joiners :
       \/ \E t \in 1..newest : JoinBegins(j, t)
       \/ JoinClient(j) \/ JoinSends(j) \/ JoinPolls(j) \/ CreatorReplies(j)
       \/ ScanBegins(j) \/ Scanned(j) \/ KeyExpires(j)
       \/ \E f \in Forms : Streamed(<<j, f>>)
  \/ \E w \in work : CheckRequest(w) \/ AddMember(w) \/ Effects(w)

InviteSpec == IInit /\ [][INext]_ivars

-----------------------------------------------------------------------------
(***************************************************************************)
(* One acceptance per request: although the structured message, its plain  *)
(* text twin, the scan of the DM and its retries all bring the same        *)
(* request, a running host adds the joiner, writes the audit entry and     *)
(* publishes the profile snapshot once.                                    *)
(***************************************************************************)
AcceptedOnce == \A j \in Joiners : accepted[j] <= 1

(***************************************************************************)
(* The outcome of a join tells the truth: success means a member with an   *)
(* identity record, and a failure at any step leaves no record behind.     *)
(***************************************************************************)
JoinOutcome ==
  \A j \in Joiners :
    /\ jpc[j] = "ok" => j \in members \cap idents
    /\ jpc[j] = "failed" => j \notin idents

(***************************************************************************)
(* "Persist the invite tag so the host-side join processor can verify it": *)
(* an invite superseded before it was used lets nobody in.  A restart of   *)
(* the host refutes it.                                                    *)
(***************************************************************************)
SupersededIsRefused == admitted = {}
=============================================================================
