------------------------------ MODULE MCActions ------------------------------
(***************************************************************************)
(* The handlers behind the signet's surfaces, one part at a time: a        *)
(* behaviour runs the part focus names and leaves the others where they    *)
(* begin.                                                                  *)
(***************************************************************************)
EXTENDS HarnessRequests, Invites, Inboxes, ChatActions, TLC

VARIABLE focus

actionVars == <<hvars, ivars, bxvars, chvars, focus>>

ActionsInit ==
  /\ HInit /\ IInit /\ BxInit /\ ChInit
  /\ focus \in {"harness", "invites", "inboxes", "chats", "writes"}
  /\ focus # "harness" => \A c \in Creds : hcreds[c] = "none"

ActionsNext ==
  \/ focus = "harness" /\ HNext /\ UNCHANGED <<ivars, bxvars, chvars, focus>>
  \/ focus = "invites" /\ INext /\ UNCHANGED <<hvars, bxvars, chvars, focus>>
  \/ focus = "inboxes" /\ BxNext /\ UNCHANGED <<hvars, ivars, chvars, focus>>
  \/ focus = "chats" /\ ChReads /\ UNCHANGED <<hvars, ivars, bxvars, focus>>
  \/ focus = "writes" /\ ChWrites /\ UNCHANGED <<hvars, ivars, bxvars, focus>>

ActionsSpec == ActionsInit /\ [][ActionsNext]_actionVars

Interchangeable == Permutations(Chats) \cup Permutations(ChTasks)
=============================================================================
