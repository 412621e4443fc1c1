------------------------------- MODULE Inboxes -------------------------------
(***************************************************************************)
(* The admin's inbox actions over the stores of the core: the identity     *)
(* records, the operators' lists of linked inboxes and the id mappings.    *)
(* Every store call is awaited, so each read and each write is a step of   *)
(* its own, and each may fail.                                             *)
(***************************************************************************)
EXTENDS Naturals, FiniteSets

CONSTANTS Inboxes,      \* identity ids
          Operators,    \* operator ids
          ITasks,       \* actions under way at once
          Overlapping   \* may they overlap?

VARIABLES
  recs,      \* identity records
  linked,    \* operator -> inboxIds of its config
  gone,      \* operators whose status is removed
  inboxMap,  \* inboxes with an id mapping
  dropped,   \* history: inboxes whose record went with their chat
  acts       \* the action each task runs

bxvars == <<recs, linked, gone, inboxMap, dropped, acts>>

NoAct == [op |-> "none", pc |-> "idle", inbox |-> "none", oper |-> "none", read |-> {}]

BxInit ==
  /\ recs = {} /\ linked = [o \in Operators |-> {}] /\ gone = {} /\ inboxMap = {} /\ dropped = {}
  /\ acts = [t \in ITasks |-> NoAct]

Done(t) == acts' = [acts EXCEPT ![t] = NoAct]
To(t, l) == acts' = [acts EXCEPT ![t].pc = l]
NoneRuns == \A t \in ITasks : acts[t] = NoAct
Spare(t) == acts[t] = NoAct /\ (Overlapping \/ NoneRuns)

-----------------------------------------------------------------------------
(* Inboxes and operators.                                                  *)

\* buildInboxLinkMap: the links of the operators that are not removed.  An inbox
\* that two of them list makes the call fail.
Owners(i) == {o \in Operators \ gone : i \in linked[o]}
LinkMapFails == \E i \in Inboxes : Cardinality(Owners(i)) > 1

\* inbox.create: the operator is resolved, the identity registered (SignetCore),
\* its mapping set; with an operator it goes on to link.
CreateInbox(t, i, link, o) ==
  /\ Spare(t) /\ i \notin recs /\ (link => o \notin gone)
  /\ recs' = recs \cup {i} /\ inboxMap' = inboxMap \cup {i}
  /\ acts' = IF link
             THEN [acts EXCEPT ![t] = [NoAct EXCEPT !.op = "link", !.pc = "resolve",
                                       !.inbox = i, !.oper = o]]
             ELSE acts
  /\ UNCHANGED <<linked, gone, dropped>>

\* inbox.link, inbox.unlink and inbox.rm with execute resolve the record first.
resolveInbox(i) == i \in recs

InboxAction(t, i, op, o, l) ==
  /\ Spare(t) /\ resolveInbox(i)
  /\ acts' = [acts EXCEPT ![t] = [NoAct EXCEPT !.op = op, !.inbox = i, !.oper = o, !.pc = l]]
  /\ UNCHANGED <<recs, linked, gone, inboxMap, dropped>>

LinkInbox(t, i, o) == InboxAction(t, i, "link", o, "resolve")
UnlinkInbox(t, i) == InboxAction(t, i, "unlink", "none", "owner")
RemoveInbox(t, i) == InboxAction(t, i, "rm", "none", "cleanup")

\* resolveOperator: a removed operator is not found.
ResolveOperator(t) ==
  /\ acts[t].pc = "resolve"
  /\ IF acts[t].oper \in gone THEN Done(t) ELSE To(t, "check")
  /\ UNCHANGED <<recs, linked, gone, inboxMap, dropped>>

\* Mutant: an inbox of another operator is linked all the same.
CheckLinkUnchecked(t) ==
  /\ acts[t].pc = "check"
  /\ IF LinkMapFails THEN Done(t) ELSE To(t, "read")
  /\ UNCHANGED <<recs, linked, gone, inboxMap, dropped>>

\* linkInboxToOperator: refused when another operator has the inbox.
CheckLink(t) ==
  /\ acts[t].pc = "check"
  /\ IF LinkMapFails \/ Owners(acts[t].inbox) \ {acts[t].oper} # {}
     THEN Done(t) ELSE To(t, "read")
  /\ UNCHANGED <<recs, linked, gone, inboxMap, dropped>>

\* The operator's record is read, and written back with the inbox added or removed.
ReadOperator(t) ==
  /\ acts[t].pc = "read"
  /\ acts' = [acts EXCEPT ![t].pc = "write", ![t].read = linked[acts[t].oper]]
  /\ UNCHANGED <<recs, linked, gone, inboxMap, dropped>>

WriteOperator(t) ==
  LET a == acts[t] IN
  /\ a.pc = "write"
  /\ linked' = [linked EXCEPT ![a.oper] =
                  IF a.op = "link" THEN a.read \cup {a.inbox} ELSE a.read \ {a.inbox}]
  /\ IF a.op = "rm" THEN To(t, "forget") ELSE Done(t)
  /\ UNCHANGED <<recs, gone, inboxMap, dropped>>

\* inbox.rm: the runtime lets the identity go (SignetCore), or refuses.
CleanupInbox(t) ==
  /\ acts[t].pc = "cleanup"
  /\ Done(t) \/ (~LinkMapFails /\ To(t, "owner"))
  /\ UNCHANGED <<recs, linked, gone, inboxMap, dropped>>

\* unlinkInboxFromOperator: the operator that has the inbox, if any.
FindOwner(t) ==
  LET a == acts[t] IN
  /\ a.pc = "owner"
  /\ IF LinkMapFails THEN Done(t)
     ELSE \/ /\ Owners(a.inbox) = {}
             /\ IF a.op = "rm" THEN To(t, "forget") ELSE Done(t)
          \/ \E o \in Owners(a.inbox) :
               acts' = [acts EXCEPT ![t].pc = "read", ![t].oper = o]
  /\ UNCHANGED <<recs, linked, gone, inboxMap, dropped>>

\* The mapping and the record; a record that cannot be removed stays without both
\* link and mapping.
ForgetInbox(t) ==
  LET i == acts[t].inbox IN
  /\ acts[t].pc = "forget"
  /\ inboxMap' = inboxMap \ {i}
  /\ recs' = recs \ {i} \/ UNCHANGED recs
  /\ Done(t)
  /\ UNCHANGED <<linked, gone, dropped>>

\* operatorManager.remove keeps the record, and its list of inboxes.
RetireOperator(o) ==
  /\ o \notin gone /\ (Overlapping \/ NoneRuns)
  /\ gone' = gone \cup {o}
  /\ UNCHANGED <<recs, linked, inboxMap, dropped, acts>>

\* chat.join leaves a record for the joining identity, and chat.rm of that chat
\* removes it, without a look at the operators that list it.
JoinedWithChat(i) ==
  /\ i \notin recs /\ recs' = recs \cup {i}
  /\ UNCHANGED <<linked, gone, inboxMap, dropped, acts>>

RemovedWithChat(i) ==
  /\ i \in recs \ inboxMap /\ (Overlapping \/ NoneRuns)
  /\ recs' = recs \ {i} /\ dropped' = dropped \cup {i}
  /\ UNCHANGED <<linked, gone, inboxMap, acts>>

BxNext ==
  \/ \E t \in ITasks :
       \/ ResolveOperator(t) \/ CheckLink(t) \/ ReadOperator(t) \/ WriteOperator(t)
       \/ CleanupInbox(t) \/ FindOwner(t) \/ ForgetInbox(t)
       \/ \E i \in Inboxes, o \in Operators :
            \/ \E link \in BOOLEAN : CreateInbox(t, i, link, o)
            \/ LinkInbox(t, i, o) \/ UnlinkInbox(t, i) \/ RemoveInbox(t, i)
  \/ \E o \in Operators : RetireOperator(o)
  \/ \E i \in Inboxes : JoinedWithChat(i) \/ RemovedWithChat(i)

InboxSpec == BxInit /\ [][BxNext]_bxvars

-----------------------------------------------------------------------------
(***************************************************************************)
(* "Inbox is already linked to another operator": no inbox is listed by    *)
(* two operators, whatever was linked, unlinked, created, removed and      *)
(* retired before.  It holds for actions one after the other; two links    *)
(* that overlap both pass the check, and from then on every inbox action   *)
(* fails on the map.                                                       *)
(***************************************************************************)
OneOperatorPerInbox == ~LinkMapFails

(***************************************************************************)
(* inbox.rm takes an inbox out of every store or leaves its record: once   *)
(* nothing is under way, no operator lists an inbox that has no record,    *)
(* whichever step of a removal failed and whatever was linked before.      *)
(* Inboxes removed with their chat are excepted: chat.rm leaves the link.  *)
(***************************************************************************)
LinksHaveRecords ==
  NoneRuns => \A o \in Operators \ gone : linked[o] \subseteq recs \cup dropped

\* The links of the operators and the records of the inboxes fit together.
LinksAreSound == OneOperatorPerInbox /\ LinksHaveRecords
=============================================================================
