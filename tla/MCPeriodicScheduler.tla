------------------------ MODULE MCPeriodicScheduler ------------------------
(***************************************************************************)
(* Instances of PeriodicScheduler for TLC.                                 *)
(***************************************************************************)
EXTENDS PeriodicScheduler

\* One expression occurs once a day, the other twice.
OnceAndTwice == [c \in Crons |-> IF c = "daily" THEN {1} ELSE {0, 1}]

\* A date, a field of the descriptor, and a name no request gets past.
DateFieldUnknown == [c \in Crons |-> CASE c = "hourly" -> "date"
                                      [] c = "daily"  -> "field"
                                      [] OTHER        -> "unknown"]
=============================================================================
