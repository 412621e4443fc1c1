----------------------------- MODULE SealChain -----------------------------
(***************************************************************************)
(* What the seal manager promises for each credential-chat pair: one       *)
(* linear chain of seals that only grows at its end, until the pair is     *)
(* revoked; a revocation ends the chain for good.                          *)
(***************************************************************************)
EXTENDS Naturals, Sequences

CONSTANTS Pairs, SealIds

VARIABLES
    chain,   \* pair -> its seals, oldest first
    closed   \* the revoked pairs

Init ==
    /\ chain = [p \in Pairs |-> << >>]
    /\ closed = {}

\* issue or refresh adds a seal that no chain holds yet.
Extend(p, s) ==
    /\ p \notin closed
    /\ \A q \in Pairs : \A k \in DOMAIN chain[q] : chain[q][k] # s
    /\ chain' = [chain EXCEPT ![p] = Append(@, s)]
    /\ UNCHANGED closed

\* revoke ends the chain of a pair that has one.
Close(p) ==
    /\ p \notin closed
    /\ chain[p] # << >>
    /\ closed' = closed \cup {p}
    /\ UNCHANGED chain

Next == \E p \in Pairs : Close(p) \/ \E s \in SealIds : Extend(p, s)

Spec == Init /\ [][Next]_<<chain, closed>>
=============================================================================
