----------------------------- MODULE BuildQueue -----------------------------
(***************************************************************************)
(* The three-lane priority queue of the build server                       *)
(* (cbsd-server/src/queue/mod.rs): one FIFO lane per priority, drained in  *)
(* strict precedence.  A queued build is represented by its identifier.    *)
(* Everything here is a pure operator on the lanes; the server module      *)
(* applies them to its state.                                              *)
(***************************************************************************)
EXTENDS Naturals, Sequences

Priorities == {"high", "normal", "low"}

EmptyLanes == [p \in Priorities |-> << >>]

Enqueue(lanes, b, p) == [lanes EXCEPT ![p] = Append(@, b)]

\* Re-queue after a rejection, a timeout or a failed dispatch.
EnqueueFront(lanes, b, p) == [lanes EXCEPT ![p] = << b >> \o @]

HasPending(lanes) == \E p \in Priorities : lanes[p] # << >>

\* The lane next_pending takes from: the highest one that is not empty.
FirstLane(lanes) ==
    IF lanes["high"] # << >> THEN "high"
    ELSE IF lanes["normal"] # << >> THEN "normal" ELSE "low"

NextPending(lanes) == Head(lanes[FirstLane(lanes)])

\* Mutant: next_pending peeks.
PeekPending(lanes) == lanes
PopPending(lanes) == [lanes EXCEPT ![FirstLane(lanes)] = Tail(@)]

LaneContains(lane, b) == \E i \in DOMAIN lane : lane[i] = b

QueueContains(lanes, b) == \E p \in Priorities : LaneContains(lanes[p], b)

\* remove_from_lane: the first position that holds the build, if there is one.
Position(lane, b) ==
    CHOOSE i \in DOMAIN lane : lane[i] = b /\ \A j \in 1 .. i - 1 : lane[j] # b
RemoveAt(lane, k) == SubSeq(lane, 1, k - 1) \o SubSeq(lane, k + 1, Len(lane))
RemoveFromLane(lane, b) ==
    IF LaneContains(lane, b) THEN RemoveAt(lane, Position(lane, b)) ELSE lane

\* remove_by_id: from the first lane, in precedence order, that has the build.
LaneOf(lanes, b) ==
    IF LaneContains(lanes["high"], b) THEN "high"
    ELSE IF LaneContains(lanes["normal"], b) THEN "normal" ELSE "low"

RemoveById(lanes, b) == [lanes EXCEPT ![LaneOf(lanes, b)] = RemoveFromLane(@, b)]
=============================================================================
