----------------------------- MODULE ChatActions -----------------------------
(***************************************************************************)
(* The chat, message, consent and search actions.  A caller names a chat   *)
(* by its network id or by a local id; the mapping between the two changes *)
(* while actions wait for stores and for the network, so the same name is  *)
(* resolved again and again.  Each await is a step.                        *)
(***************************************************************************)
EXTENDS Naturals, Sequences

CONSTANTS Chats,      \* groups on the network
          ChTasks,    \* actions under way at once
          MaxLocal,   \* bound: local ids handed out
          MaxWrites   \* bound: grants made, groups changed and consents set, together

VARIABLES
  joined,   \* groups the signet's client is in
  local,    \* group -> its local id, 0 for none
  handed,   \* local ids handed out so far
  issued,   \* credential -> [chat, status]
  elevated, \* the name an admin read elevation is scoped to, or NoName
  group,    \* group -> its member, role, metadata and profile as last changed
  consent,  \* entities with consent, by the name the caller used
  spent,    \* writes made
  chacts,   \* the action each task runs
  strayed,  \* history: groups read that the grant checked did not stand for
  missed    \* history: credentials a finished cleanup should have revoked

chvars == <<joined, local, handed, issued, elevated, group, consent, spent, chacts, strayed, missed>>
granted == <<issued, elevated, group, consent, spent>>

Net(g) == [form |-> "network", id |-> g]
Loc(n) == [form |-> "local", id |-> n]
NoName == [form |-> "none", id |-> 0]
Names == {Net(g) : g \in Chats} \cup {Loc(n) : n \in 1..handed}

NoChAct == [op |-> "none", pc |-> "idle", name |-> NoName, by |-> 0, target |-> {},
            covered |-> {}, mapped |-> 0, duty |-> {}]
Untouched == [member |-> TRUE, admin |-> FALSE, meta |-> FALSE, profile |-> FALSE, last |-> "none"]

ChInit ==
  /\ joined \in SUBSET Chats /\ local = [g \in Chats |-> 0] /\ handed = 0
  /\ issued = <<>> /\ elevated = NoName
  /\ group = [g \in Chats |-> Untouched] /\ consent = {} /\ spent = 0
  /\ chacts = [t \in ChTasks |-> NoChAct] /\ strayed = {} /\ missed = {}

Vacant(t) == chacts[t] = NoChAct
ChDone(t) == chacts' = [chacts EXCEPT ![t] = NoChAct]
Spend == spent < MaxWrites /\ spent' = spent + 1

-----------------------------------------------------------------------------
(* The id mappings.                                                        *)

\* resolveGroupId: the groups a name stands for, at most one.  A local id without
\* a mapping is passed on as it is and names no group.
resolveGroupId(n) ==
  IF n.form = "network" THEN {n.id} ELSE {g \in Chats : n.form = "local" /\ local[g] = n.id}

\* Mutant: a local id whose mapping was removed is handed out again.
ensureLocalIdReusing(g) ==
  IF local[g] # 0 THEN UNCHANGED <<local, handed>>
  ELSE /\ handed < MaxLocal
       /\ handed' = IF handed = 0 THEN 1 ELSE handed
       /\ local' = [local EXCEPT ![g] = handed']

\* ensureLocalId: one id per group; local ids are random and never come back.
ensureLocalId(g) ==
  IF local[g] # 0 THEN UNCHANGED <<local, handed>>
  ELSE /\ handed < MaxLocal
       /\ handed' = handed + 1
       /\ local' = [local EXCEPT ![g] = handed + 1]

\* chat.list hands every group of the client a local id, chat.create the new group,
\* and chat.join the group an invite led to (Invites).
listChats(g) == g \in joined /\ UNCHANGED joined
createChat(g) == g \notin joined /\ local[g] = 0 /\ joined' = joined \cup {g}
joinChat(g) == g \notin joined /\ joined' = joined \cup {g}

EnterChat(g) ==
  /\ listChats(g) \/ createChat(g) \/ joinChat(g)
  /\ ensureLocalId(g)
  /\ UNCHANGED <<granted, chacts, strayed, missed>>

-----------------------------------------------------------------------------
(* Grants, from the credential manager and the read elevation manager.     *)

IssueForChat(n) ==
  /\ Spend
  /\ issued' = Append(issued, [chat |-> n, status |-> "active"])
  /\ UNCHANGED <<joined, local, handed, elevated, group, consent, chacts, strayed, missed>>

\* The elevation is granted for the local id of a chat that has one.
canonicalName(n) ==
  IF n.form = "network" /\ local[n.id] # 0 THEN Loc(local[n.id]) ELSE n

ElevateFor(n) ==
  /\ Spend
  /\ elevated' = canonicalName(n)
  /\ UNCHANGED <<joined, local, handed, issued, group, consent, chacts, strayed, missed>>

-----------------------------------------------------------------------------
(* Reading.                                                                *)

\* authorizeAdminReadAccess, authorizeAdminSearchAccess: a caller with a credential
\* passes to the credential check; an admin needs an elevation that covers the chat,
\* and a chat to be covered.
AdminMayRead(n) ==
  elevated # NoName /\ resolveGroupId(n) # {} /\ resolveGroupId(n) = resolveGroupId(elevated)

ReadAsAdmin(t, n, op) ==
  /\ Vacant(t) /\ op \in {"list", "info", "search"} /\ AdminMayRead(n)
  /\ chacts' = [chacts EXCEPT ![t] =
       [NoChAct EXCEPT !.op = op, !.pc = "read", !.name = n,
                       !.covered = resolveGroupId(elevated)]]
  /\ UNCHANGED <<joined, local, handed, granted, strayed, missed>>

\* With a credential: the transport has accepted it, the record is looked up.
ReadAsHarness(t, n, c, op) ==
  /\ Vacant(t) /\ issued[c].status = "active" /\ op \in {"list", "info", "search", "search all"}
  /\ chacts' = [chacts EXCEPT ![t] =
       [NoChAct EXCEPT !.op = op, !.pc = "lookup", !.by = c,
                       !.name = IF op = "search all" THEN NoName ELSE n]]
  /\ UNCHANGED <<joined, local, handed, granted, strayed, missed>>

\* The record: the effective scopes include read-messages or the read ends here;
\* message.list and message.info compare the chat now, search keeps the scoped
\* groups for later.
CredentialLookedUp(t) ==
  LET a == chacts[t]
      scoped == resolveGroupId(issued[a.by].chat) IN
  /\ a.pc = "lookup"
  /\ \/ ChDone(t)
     \/ /\ a.op \in {"list", "info"} => resolveGroupId(a.name) \cap scoped # {}
        /\ chacts' = [chacts EXCEPT ![t].pc = "read", ![t].covered = scoped]
  /\ UNCHANGED <<joined, local, handed, granted, strayed, missed>>

\* What is read once the identity is resolved: the name is resolved again.  A group
\* that was left may still be in the client's database.
listMessages(n) == resolveGroupId(n)

\* message.info: a message of group m, which must be the chat that was asked for.
getMessage(n, m) == {m} \cap resolveGroupId(n)

\* search.messages compares with the groups of the credential here, if there is one;
\* without a chat it goes through the client's groups.
searchMessages(a) ==
  LET asked == IF a.op = "search all" THEN joined ELSE resolveGroupId(a.name) IN
  IF a.by = 0 THEN asked ELSE asked \cap a.covered

ReadMessages(t) ==
  LET a == chacts[t] IN
  /\ a.pc = "read"
  /\ \E m \in Chats :
       LET read == CASE a.op = "list" -> listMessages(a.name)
                     [] a.op = "info" -> getMessage(a.name, m)
                     [] OTHER -> searchMessages(a) IN
       strayed' = strayed \cup (read \ a.covered)
  /\ ChDone(t)
  /\ UNCHANGED <<joined, local, handed, granted, missed>>

-----------------------------------------------------------------------------
(* Writing.                                                                *)

\* chat.add-member and chat.remove-member, chat.promote-member and
\* chat.demote-member, chat.update, chat.update-profile: the client that has the
\* group makes the change.
addMember(r) == [r EXCEPT !.member = TRUE]
removeMember(r) == [r EXCEPT !.member = FALSE, !.admin = FALSE]
promoteMember(r) == [r EXCEPT !.admin = r.member]
demoteMember(r) == [r EXCEPT !.admin = FALSE]
updateMetadata(r) == [r EXCEPT !.meta = TRUE]
updateProfile(r) == [r EXCEPT !.profile = TRUE]

\* message.send, message.read, message.reply and message.react; the latter two name
\* a message of group m, which must be this group unless the client does not know
\* the message.
sendMessage(r) == [r EXCEPT !.last = "text"]
markRead(r) == [r EXCEPT !.last = "receipt"]
resolveMessageReference(g, m, known) == known => m = g
reply(r) == [r EXCEPT !.last = "reply"]
react(r) == [r EXCEPT !.last = "reaction"]

\* The change, and for a change of the group the read of its new state, whose
\* failure makes an error of a change that happened.
ChangeGroup(n) ==
  /\ Spend
  /\ \E g \in resolveGroupId(n) \cap joined :
       LET was == group[g]
           changes == {addMember(was), removeMember(was), promoteMember(was),
                       demoteMember(was), updateMetadata(was), updateProfile(was)}
           sends == {sendMessage(was), markRead(was)}
           answers == {r \in {reply(was), react(was)} :
                         \E m \in Chats, known \in BOOLEAN : resolveMessageReference(g, m, known)}
       IN \E r \in changes \cup sends \cup answers : group' = [group EXCEPT ![g] = r]
  /\ UNCHANGED <<joined, local, handed, issued, elevated, consent, chacts, strayed, missed>>

\* consent.allow and consent.deny take the entity as it is: a local id is not resolved.
SetConsent(n, allow) ==
  /\ Spend
  /\ consent' = IF allow THEN consent \cup {n} ELSE consent \ {n}
  /\ UNCHANGED <<joined, local, handed, issued, elevated, group, chacts, strayed, missed>>

-----------------------------------------------------------------------------
(* Cleanup.                                                                *)

\* Mutant: the mapping is not consulted.
matchChatIdsUnmapped(n, gs) == {n} \cup {Net(g) : g \in gs}

\* The names cleanupLocalState matches credentials against.
matchChatIds(n, gs) ==
  {n} \cup {Net(g) : g \in gs} \cup {Loc(local[g]) : g \in {h \in gs : local[h] # 0}}

Standing(c) == issued[c].status = "active"

\* cleanupLocalState up to its first write, for the group the name stood for when
\* the action began.
BeginCleanup(t, n, gs) ==
  chacts' = [chacts EXCEPT ![t] =
    [NoChAct EXCEPT !.op = "cleanup", !.pc = "revoke", !.name = n, !.covered = gs,
      !.target = {c \in DOMAIN issued : Standing(c) /\ issued[c].chat \in matchChatIds(n, gs)},
      !.mapped = IF gs = {} THEN 0 ELSE local[CHOOSE g \in gs : TRUE],
      !.duty = {c \in DOMAIN issued : Standing(c) /\ resolveGroupId(issued[c].chat) \cap gs # {}}]]

\* chat.rm with force.
RemoveLocal(t, n) ==
  /\ Vacant(t)
  /\ BeginCleanup(t, n, resolveGroupId(n))
  /\ UNCHANGED <<joined, local, handed, granted, strayed, missed>>

\* chat.leave, with purge or without.
Leave(t, n, purge) ==
  /\ Vacant(t)
  /\ resolveGroupId(n) \cap joined # {}
  /\ joined' = joined \ resolveGroupId(n)
  /\ chacts' = IF purge
               THEN [chacts EXCEPT ![t] = [NoChAct EXCEPT !.op = "leave", !.pc = "left",
                                           !.name = n, !.covered = resolveGroupId(n)]]
               ELSE chacts
  /\ UNCHANGED <<local, handed, granted, strayed, missed>>

Purge(t) ==
  /\ chacts[t].pc = "left"
  /\ BeginCleanup(t, chacts[t].name, chacts[t].covered)
  /\ UNCHANGED <<joined, local, handed, granted, strayed, missed>>

\* credentialManager.revoke of one listed credential, also one that another cleanup
\* has revoked meanwhile.
RevokeNext(t) ==
  LET a == chacts[t] IN
  /\ a.pc = "revoke" /\ a.target # {}
  /\ \E c \in a.target :
       /\ issued' = [issued EXCEPT ![c].status = "revoked"]
       /\ chacts' = [chacts EXCEPT ![t].target = a.target \ {c}]
  /\ UNCHANGED <<joined, local, handed, elevated, group, consent, spent, strayed, missed>>

\* The mapping found at the start goes, if it still is the group's, and so does the
\* group's entry in the registry (the identity bound to the group is SignetCore's
\* RemoveChat); the cleanup is reported as executed.
FinishCleanup(t) ==
  LET a == chacts[t] IN
  /\ a.pc = "revoke" /\ a.target = {}
  /\ local' = [g \in Chats |-> IF g \in a.covered /\ local[g] = a.mapped THEN 0 ELSE local[g]]
  /\ missed' = missed \cup {c \in a.duty : Standing(c)}
  /\ ChDone(t)
  /\ UNCHANGED <<joined, handed, granted, strayed>>

\* Nothing reads what the group changes and the consents write.
ChWrites ==
  \/ \E g \in Chats : EnterChat(g)
  \/ \E n \in Names : ChangeGroup(n) \/ \E b \in BOOLEAN : SetConsent(n, b)

ChReads ==
  \/ \E g \in Chats : EnterChat(g)
  \/ \E n \in Names : IssueForChat(n) \/ ElevateFor(n)
  \/ \E t \in ChTasks :
       \/ CredentialLookedUp(t) \/ ReadMessages(t) \/ Purge(t) \/ RevokeNext(t)
       \/ FinishCleanup(t)
       \/ \E n \in Names :
            \/ \E op \in {"list", "info", "search", "search all"} :
                 ReadAsAdmin(t, n, op) \/ \E c \in DOMAIN issued : ReadAsHarness(t, n, c, op)
            \/ RemoveLocal(t, n)
            \/ \E b \in BOOLEAN : Leave(t, n, b)

ChNext == ChReads \/ ChWrites

ChatSpec == ChInit /\ [][ChNext]_chvars

-----------------------------------------------------------------------------
(***************************************************************************)
(* "verify the caller can read messages in this conversation before        *)
(* hitting the SDK": every read that returned messages of a group was      *)
(* checked against a grant that stood for that very group when it was      *)
(* checked, although the name is resolved again after two awaits and chats *)
(* are listed, removed, left and mapped anew meanwhile.                    *)
(***************************************************************************)
ReadsAreCovered == strayed = {}

(***************************************************************************)
(* A cleanup that is reported as executed has revoked every credential     *)
(* that was active for the group when it began, under whichever of the     *)
(* chat's names it had been issued, and whatever overlapped or failed.     *)
(***************************************************************************)
PurgedIsRevoked == missed = {}
=============================================================================
