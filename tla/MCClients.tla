----------------------------- MODULE MCClients -----------------------------
(***************************************************************************)
(* The three clients of the signet: the SDK handler and the OpenClaw       *)
(* bridge on the event stream, the CLI on the admin socket.  They share    *)
(* nothing, so a behaviour follows one of them; focus says which.          *)
(***************************************************************************)
EXTENDS HarnessClient, OpenClawBridge, AdminSocket

VARIABLE focus

ClientsInit ==
    /\ focus \in {"sdk", "bridge", "admin"} /\ Init /\ BInit /\ AInit
    /\ focus # "admin" => token

ClientsNext ==
    \/ focus = "sdk" /\ Next /\ UNCHANGED <<focus, bvars, avars>>
    \/ focus = "bridge" /\ BNext /\ UNCHANGED <<focus, vars, avars>>
    \/ focus = "admin" /\ ANext /\ UNCHANGED <<focus, vars, bvars>>

ClientsSpec ==
    /\ ClientsInit /\ [][ClientsNext]_<<focus, vars, bvars, avars>>
    /\ Fairness /\ AFairness

=============================================================================
