--------------------------- MODULE ServerCustody ---------------------------
(***************************************************************************)
(* The build server as an implementation of BuildCustody: the place of a   *)
(* build is read off the row, the lanes, the active map and the tasks, its *)
(* owner off the active entry.                                             *)
(***************************************************************************)
EXTENDS BuildServer

\* Where build b is, for the abstract specification.
Place(b) ==
    CASE db[b] = "none"                  -> "none"
      [] QueueContains(lanes, b)         -> "pending"
      [] IsActive(b)                     -> "active"
      [] \E t \in Tasks : Carries(t, b)  -> "held"
      [] OTHER                           -> "out"

Custody == INSTANCE BuildCustody WITH
    place <- [b \in Builds |-> Place(b)],
    owner <- [b \in Builds |-> active[b].conn]

\* The server implements BuildCustody: a build moves one place at a time, it
\* is dispatched only from the queue and only to a connection without a build,
\* and what left the server's hands comes back only through a restart.
CustodySpec == Custody!Spec
=============================================================================
