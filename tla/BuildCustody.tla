---------------------------- MODULE BuildCustody ----------------------------
(***************************************************************************)
(* What the build server promises about where a build is.  A build is      *)
(* nowhere before its row exists; then it is held by the task that submits *)
(* it or rolls it back, pending in the queue, active on a connection, or   *)
(* out (finished, revoked or lost, until a restart at least).              *)
(***************************************************************************)
CONSTANTS Builds, Conns, None

VARIABLES
    place,  \* where each build is
    owner   \* the connection of each active build

Places == {"none", "held", "pending", "active", "out"}

Init ==
    /\ place = [b \in Builds |-> "none"]
    /\ owner = [b \in Builds |-> None]

\* Build b moves; it has the connection c from now on.
Move(b, from, to, c) ==
    /\ place[b] = from
    /\ place' = [place EXCEPT ![b] = to]
    /\ owner' = [owner EXCEPT ![b] = c]

Accept(b) == Move(b, "none", "held", None)
Queue(b) == Move(b, "held", "pending", None)
Withdraw(b) == Move(b, "pending", "out", None)
Abandon(b) == Move(b, "held", "out", None)
Release(b) == Move(b, "active", "held", None)
Complete(b) == Move(b, "active", "out", None)

\* A dispatch goes to a connection that has no build.
Assign(b, c) ==
    /\ \A d \in Builds : owner[d] # c
    /\ Move(b, "pending", "active", c)

\* Active builds change hands, to one connection at a time.
HandOver(bs, c) ==
    /\ \A b \in bs : place[b] = "active"
    /\ owner' = [b \in Builds |-> IF b \in bs THEN c ELSE owner[b]]
    /\ UNCHANGED place

\* A restart may put back what was out, and forgets the connections.
Restart ==
    /\ place' \in [Builds -> {"none", "pending", "out"}]
    /\ \A b \in Builds : place'[b] = "none" <=> place[b] = "none"
    /\ owner' = [b \in Builds |-> None]

Next ==
    \/ \E b \in Builds : Accept(b) \/ Queue(b) \/ Withdraw(b) \/ Abandon(b)
                           \/ Release(b) \/ Complete(b)
    \/ \E b \in Builds, c \in Conns : Assign(b, c)
    \/ \E bs \in SUBSET Builds, c \in Conns : HandOver(bs, c)
    \/ Restart

Spec == Init /\ [][Next]_<< place, owner >>
=============================================================================
