----------------------------- MODULE BuildLogs -----------------------------
(***************************************************************************)
(* The log of one build: the writer (logs/writer.rs), the followers        *)
(* (logs/sse.rs, with the reconnecting client of cbc/src/logs.rs), the     *)
(* tail (logs/tail.rs), the collector (logs/gc.rs), and the tasks that     *)
(* open and close the log: dispatch, rollback, terminal cleanup, the       *)
(* revocation of a queued build, drain and startup recovery.               *)
(*                                                                         *)
(* Rows and files of two builds never meet, so one build is enough.  A     *)
(* line is its sequence number; the file is the sequence of lines in it,   *)
(* an offset the number of lines before it.  Which task takes the build    *)
(* when, and with what outcome, is the subject of BuildServer; here any of *)
(* them may, whenever the entry it looks for is there, and a report means  *)
(* success and a cleanup failure.                                          *)
(***************************************************************************)
EXTENDS Integers, Sequences

CONSTANTS
    Followers,    \* clients of the follow endpoint
    MaxLines,     \* bound: lines the worker emits
    MaxAttempts,  \* bound: dispatches
    MaxFaults,    \* bound: stops, dropped connections and failed statements
    MaxRetries,   \* MAX_RETRIES of cbc
    MaxTailLines, \* MAX_TAIL_LINES
    Budgets       \* scan budgets tried for the tail

ASSUME BoundsAssumption ==
    /\ {MaxLines, MaxAttempts, MaxFaults, MaxTailLines} \subseteq Nat
    /\ MaxRetries \in Nat \ {0}
    /\ Budgets \subseteq Nat

VARIABLES
    build,     \* the row of the build: its state, and whether finished_at is set
    log,       \* the row of the log
    file,      \* the log file
    index,     \* seq_indices: the offset of each line, or absent
    watch,     \* log_watchers: the sender in the map, 0 for none
    queue,     \* where the in-memory queue has the build
    conn,      \* the task of the worker's connection
    closer,    \* a task that takes the build from the connection
    gc,        \* the collector
    server,    \* running, or where startup recovery is
    stream,    \* the follow request of each client
    next,      \* sequence number of the worker's next line
    attempts, faults,
    sealed,    \* history: lines in the file when the log was marked finished
    excuse     \* history: why an open log may outlive its build

vars == << build, log, file, index, watch, queue, conn, closer, gc, server,
           stream, next, attempts, faults, sealed, excuse >>

rows     == << build, log, file >>
memory   == << index, watch, queue >>
tasks    == << conn, closer, gc, server >>
counters == << next, attempts, faults, sealed, excuse >>

Terminal == {"success", "failure", "revoked"}
IdleConn == [pc |-> "idle", left |-> 0, entries |-> {}]
NoStream == [pc |-> "off", fin |-> FALSE, fd |-> FALSE, start |-> 0, off |-> 0,
             pos |-> 0, rx |-> 0, fresh |-> FALSE, errs |-> 0, got |-> << >>]

Init ==
    /\ build = [st |-> "none", stamped |-> FALSE]
    /\ log = "none"
    /\ file = [there |-> FALSE, lines |-> << >>]
    /\ index = {} /\ watch = 0 /\ queue = "none"
    /\ conn = IdleConn /\ closer = "idle" /\ gc = "idle" /\ server = "up"
    /\ stream = [f \in Followers |-> NoStream]
    /\ next = 0 /\ attempts = 0 /\ faults = 0
    /\ sealed = 0 /\ excuse = {}

Up == server = "up"
Fault == faults < MaxFaults /\ faults' = faults + 1

(***************************************************************************)
(* Rows.                                                                   *)
(***************************************************************************)
\* insert_build: a new row is queued.
InsertBuildRow == build' = [build EXCEPT !.st = "queued"]

\* insert_build_log_row
InsertBuildLogRow == log' = "open"

\* set_build_dispatched, set_build_started, set_build_revoking and the update of a
\* revoked build: unconditional.
SetDispatched == build' = [build EXCEPT !.st = "dispatched"]

SetStarted == build' = [build EXCEPT !.st = "started"]

SetRevoking == build' = [build EXCEPT !.st = "revoking"]

UpdateState(to) == build' = [build EXCEPT !.st = to]

\* rollback_dispatch_to_queued clears the finish time as well.
RollbackToQueued == build' = [build EXCEPT !.st = "queued", !.stamped = FALSE]

\* set_build_finished: unconditional, and stamps finished_at.
SetFinished(to) == build' = [build EXCEPT !.st = to, !.stamped = TRUE]

\* set_build_log_finished, which fails only with a warning; there may be no
\* row, when the server stopped between the two inserts of a submission.
SetLogFinished ==
    \/ /\ log' = IF log = "open" THEN "finished" ELSE log
       /\ sealed' = IF log = "open" THEN Len(file.lines) ELSE sealed
       /\ UNCHANGED << faults, excuse >>
    \/ /\ Fault
       /\ excuse' = excuse \cup {"sql_error"}
       /\ UNCHANGED << log, sealed >>

(***************************************************************************)
(* Submission and dispatch.                                                *)
(***************************************************************************)
InsertBuild ==
    /\ Up /\ build.st = "none"
    /\ InsertBuildRow
    /\ queue' = "submit"
    /\ UNCHANGED << log, file, index, watch, tasks, stream, counters >>

InsertLogRow ==
    /\ queue = "submit"
    /\ InsertBuildLogRow
    /\ queue' = "lane"
    /\ UNCHANGED << build, file, index, watch, tasks, stream, counters >>

\* try_dispatch, under the queue lock: the row, a new sender, the entry.
Dispatch ==
    /\ Up /\ queue = "lane" /\ attempts < MaxAttempts
    /\ SetDispatched
    /\ attempts' = attempts + 1
    /\ watch' = attempts + 1
    /\ queue' = "active"
    /\ UNCHANGED << log, file, index, tasks, stream, next, faults, sealed, excuse >>

\* handle_build_started
Started ==
    /\ Up /\ queue = "active" /\ conn.pc = "idle" /\ build.st = "dispatched"
    /\ SetStarted
    /\ UNCHANGED << log, file, memory, tasks, stream, counters >>

(***************************************************************************)
(* The connection task: write_build_output.                                *)
(***************************************************************************)
\* The message passes authorize_lifecycle_message and carries n lines.
Output(n) ==
    /\ Up /\ queue = "active" /\ conn.pc = "idle" /\ build.st # "dispatched"
    /\ next + n <= MaxLines
    /\ conn' = [pc |-> "append", left |-> n, entries |-> {}]
    /\ UNCHANGED << rows, memory, closer, gc, server, stream, counters >>

AppendLine ==
    /\ conn.pc = "append"
    /\ file' = [there |-> TRUE, lines |-> file.lines \o << next >>]
    /\ next' = next + 1
    /\ conn' = [pc |-> IF conn.left = 1 THEN "index" ELSE "append",
                left |-> conn.left - 1,
                entries |-> conn.entries \cup {<< next, Len(file.lines) >>}]
    /\ UNCHANGED << build, log, memory, closer, gc, server, stream,
                    attempts, faults, sealed, excuse >>

ExtendIndex ==
    /\ conn.pc = "index"
    /\ index' = index \cup conn.entries
    /\ conn' = [IdleConn EXCEPT !.pc = "notify"]
    /\ UNCHANGED << rows, watch, queue, closer, gc, server, stream, counters >>

\* Mutant: the writer does not notify.
NotifyNobody ==
    /\ conn.pc = "notify"
    /\ conn' = IdleConn
    /\ UNCHANGED << rows, memory, closer, gc, server, stream, counters >>

\* A send reaches the receivers of the sender that is in the map now.
Notify ==
    /\ conn.pc = "notify"
    /\ stream' = [f \in Followers |->
                    [stream[f] EXCEPT !.fresh = @ \/ (watch # 0 /\ stream[f].rx = watch)]]
    /\ conn' = IdleConn
    /\ UNCHANGED << rows, memory, closer, gc, server, counters >>

(***************************************************************************)
(* The connection task: handle_build_finished, then finish_build_log.      *)
(***************************************************************************)
Report ==
    /\ Up /\ queue = "active" /\ conn.pc = "idle" /\ build.st # "dispatched"
    /\ SetFinished("success")
    /\ conn' = [IdleConn EXCEPT !.pc = "fin_active"]
    /\ UNCHANGED << log, file, memory, closer, gc, server, stream, counters >>

FinActive ==
    /\ conn.pc = "fin_active"
    /\ queue' = IF queue = "active" THEN "none" ELSE queue
    /\ conn' = [IdleConn EXCEPT !.pc = "fin_index"]
    /\ UNCHANGED << rows, index, watch, closer, gc, server, stream, counters >>

FinIndex ==
    /\ conn.pc = "fin_index"
    /\ index' = {}
    /\ conn' = [IdleConn EXCEPT !.pc = "fin_log"]
    /\ UNCHANGED << rows, watch, queue, closer, gc, server, stream, counters >>

FinLog ==
    /\ conn.pc = "fin_log"
    /\ SetLogFinished
    /\ conn' = [IdleConn EXCEPT !.pc = "fin_watch"]
    /\ UNCHANGED << build, file, memory, closer, gc, server, stream, next, attempts >>

\* Mutant: the finisher leaves the sender in the map.
FinWatchKept ==
    /\ conn.pc = "fin_watch"
    /\ conn' = IdleConn
    /\ UNCHANGED << rows, memory, closer, gc, server, stream, counters >>

FinWatch ==
    /\ conn.pc = "fin_watch"
    /\ watch' = 0
    /\ conn' = IdleConn
    /\ UNCHANGED << rows, index, queue, closer, gc, server, stream, counters >>

\* The select over the halves of the connection drops its handler wherever
\* it waits; the worker has counted the lines of the message as sent.  A
\* write that fails gives up the rest of the batch in the same way.
DropHandler ==
    /\ Up /\ conn.pc # "idle" /\ Fault
    /\ next' = next + conn.left
    /\ conn' = IdleConn
    /\ excuse' = excuse \cup
         {IF conn.pc \in {"append", "index", "notify"} THEN "unsent" ELSE "cut"}
    /\ UNCHANGED << rows, memory, closer, gc, server, stream, attempts, sealed >>

(***************************************************************************)
(* Other tasks that take an active build.                                  *)
(***************************************************************************)
\* cleanup_terminal_state: dead workers, reconciliation, revoke timeout.
Cleanup ==
    /\ Up /\ queue = "active" /\ closer = "idle"
    /\ SetFinished("failure")
    /\ closer' = "log"
    /\ UNCHANGED << log, file, memory, conn, gc, server, stream, counters >>

\* Mutant: the cleanup leaves the log row as it is.
CleanupLogSkipped ==
    /\ closer = "log"
    /\ closer' = "active"
    /\ UNCHANGED << rows, memory, conn, gc, server, stream, counters >>

CleanupLog ==
    /\ closer = "log"
    /\ SetLogFinished
    /\ closer' = "active"
    /\ UNCHANGED << build, file, memory, conn, gc, server, stream, next, attempts >>

CleanupActive ==
    /\ closer = "active"
    /\ queue' = IF queue = "active" THEN "none" ELSE queue
    /\ closer' = "watch"
    /\ UNCHANGED << rows, index, watch, conn, gc, server, stream, counters >>

\* The last step of a cleanup and of a rollback: whatever sender is there.
DropSender ==
    /\ closer = "watch"
    /\ watch' = 0
    /\ closer' = "idle"
    /\ UNCHANGED << rows, index, queue, conn, gc, server, stream, counters >>

\* rollback_active_to_queued: a dispatch that was never started.
Rollback ==
    /\ Up /\ queue = "active" /\ closer = "idle" /\ build.st = "dispatched"
    /\ queue' = "rollback"
    /\ closer' = "back_row"
    /\ UNCHANGED << rows, index, watch, conn, gc, server, stream, counters >>

RollbackRow ==
    /\ closer = "back_row"
    /\ RollbackToQueued
    /\ closer' = "back_lane"
    /\ UNCHANGED << log, file, memory, conn, gc, server, stream, counters >>

RollbackLane ==
    /\ closer = "back_lane"
    /\ queue' = "lane"
    /\ closer' = "watch"
    /\ UNCHANGED << rows, index, watch, conn, gc, server, stream, counters >>

\* revoke_build on a row it read as queued: lane, then row; no log, no stamp.
RevokeQueued ==
    /\ Up /\ build.st = "queued" /\ closer = "idle"
    /\ queue' = IF queue = "lane" THEN "none" ELSE queue
    /\ closer' = "revoke_row"
    /\ UNCHANGED << rows, index, watch, conn, gc, server, stream, counters >>

RevokeRow ==
    /\ closer = "revoke_row"
    /\ UpdateState("revoked")
    /\ excuse' = excuse \cup {"revoked_queued"}
    /\ closer' = "idle"
    /\ UNCHANGED << log, file, memory, conn, gc, server, stream,
                    next, attempts, faults, sealed >>

\* send_build_revoke, and the first half of run_drain_shutdown.
Revoke ==
    /\ Up /\ queue = "active" /\ build.st \in {"dispatched", "started"}
    /\ SetRevoking
    /\ UNCHANGED << log, file, memory, tasks, stream, counters >>

(***************************************************************************)
(* Stops and startup recovery.                                             *)
(***************************************************************************)
OwesLog ==
    \/ conn.pc \in {"fin_active", "fin_index", "fin_log"}
    \/ closer \in {"log", "drain_log"}
    \/ server = "log"

\* The end of main: the background tasks are aborted and the process ends.  Memory is
\* gone, streams break, rows and file stay.
Halt ==
    /\ index' = {} /\ watch' = 0 /\ queue' = "none"
    /\ conn' = IdleConn /\ closer' = "idle" /\ gc' = "idle" /\ server' = "down"
    /\ next' = next + conn.left
    /\ stream' = [f \in Followers |->
                    IF stream[f].pc \in {"off", "done", "end"} THEN stream[f]
                    ELSE [stream[f] EXCEPT !.pc = "lost", !.rx = 0, !.fresh = FALSE]]

\* A signal that asks for a restart, or the death of the process, at any moment.
Stop ==
    /\ Fault
    /\ Halt
    /\ excuse' = IF OwesLog THEN excuse \cup {"cut"} ELSE excuse
    /\ UNCHANGED << rows, attempts, sealed >>

\* run_drain_shutdown, after the timeout: what is still active is failed and
\* its log closed, and the process ends.
DrainRow ==
    /\ Up /\ queue = "active" /\ build.st = "revoking" /\ closer = "idle"
    /\ Fault
    /\ SetFinished("failure")
    /\ closer' = "drain_log"
    /\ UNCHANGED << log, file, memory, conn, gc, server, stream,
                    next, attempts, sealed, excuse >>

DrainLog ==
    /\ closer = "drain_log"
    /\ Halt
    /\ log' = IF log = "open" THEN "finished" ELSE log
    /\ sealed' = IF log = "open" THEN Len(file.lines) ELSE sealed
    /\ UNCHANGED << build, file, attempts, faults, excuse >>

\* main up to the recovery: the tables are there, the queue and the maps are empty.
Boot ==
    /\ server = "down"
    /\ server' = "scan"
    /\ UNCHANGED << rows, memory, conn, closer, gc, stream, counters >>

\* run_startup_recovery before connections are accepted: an active row is
\* failed or revoked, then its log is closed; a queued one is enqueued, or
\* failed when its descriptor does not parse.
RecoverRow ==
    /\ server = "scan"
    /\ \/ /\ build.st \in {"dispatched", "started"}
          /\ SetFinished("failure")
          /\ server' = "log"
          /\ UNCHANGED << queue, faults, excuse >>
       \/ /\ build.st = "revoking"
          /\ SetFinished("revoked")
          /\ server' = "log"
          /\ UNCHANGED << queue, faults, excuse >>
       \/ /\ build.st = "queued"
          /\ queue' = "lane"
          /\ server' = "ready"
          /\ UNCHANGED << build, faults, excuse >>
       \/ /\ build.st = "queued" /\ Fault
          /\ SetFinished("failure")
          /\ server' = "ready"
          /\ excuse' = excuse \cup {"corrupt"}
          /\ UNCHANGED queue
       \/ /\ build.st \in Terminal \cup {"none"}
          /\ server' = "ready"
          /\ UNCHANGED << build, queue, faults, excuse >>
    /\ UNCHANGED << log, file, index, watch, conn, closer, gc, stream,
                    next, attempts, sealed >>

RecoverLog ==
    /\ server = "log"
    /\ log' = IF log = "open" THEN "finished" ELSE log
    /\ sealed' = IF log = "open" THEN Len(file.lines) ELSE sealed
    /\ server' = "ready"
    /\ UNCHANGED << build, file, memory, conn, closer, gc, stream,
                    next, attempts, faults, excuse >>

\* main after the recovery: sweep, collector and scheduler are started and the
\* listener accepts connections.
Serve ==
    /\ server = "ready"
    /\ server' = "up"
    /\ UNCHANGED << rows, memory, conn, closer, gc, stream, counters >>

(***************************************************************************)
(* The collector: run_gc_cycle.                                            *)
(***************************************************************************)
Running(f) == stream[f].pc \notin {"off", "lost", "done", "end"}

\* A follower that nothing but the sender can wake.
Parked(s) == s.pc = "wait" /\ s.rx # 0 /\ s.rx = watch /\ ~s.fresh

\* Rows of ended builds with a finish time before the cutoff.  The retention
\* is days: the tasks of the build's time have run to their end, and the
\* streams that can see the finished mark have ended.
GcSelect ==
    /\ Up /\ gc = "idle"
    /\ build.st \in Terminal /\ build.stamped
    /\ log \in {"open", "finished"}
    /\ conn.pc = "idle" /\ closer = "idle" /\ queue = "none"
    /\ log = "finished" => \A f \in Followers : ~Running(f) \/ Parked(stream[f])
    /\ gc' = "file"
    /\ UNCHANGED << rows, memory, conn, closer, server, stream, counters >>

\* Mutant: a file that cannot be removed because it is gone keeps the row.
GcFileMissingSkipped ==
    /\ gc = "file"
    /\ \/ /\ file.there
          /\ file' = [file EXCEPT !.there = FALSE]
          /\ gc' = "row"
          /\ UNCHANGED faults
       \/ /\ ~file.there
          /\ gc' = "idle"
          /\ UNCHANGED << file, faults >>
    /\ UNCHANGED << build, log, memory, conn, closer, server, stream,
                    next, attempts, sealed, excuse >>

\* A file that is already gone does not keep the row.
GcFile ==
    /\ gc = "file"
    /\ \/ /\ file' = [file EXCEPT !.there = FALSE]
          /\ gc' = "row"
          /\ UNCHANGED faults
       \/ /\ Fault
          /\ gc' = "idle"
          /\ UNCHANGED file
    /\ UNCHANGED << build, log, memory, conn, closer, server, stream,
                    next, attempts, sealed, excuse >>

GcRow ==
    /\ gc = "row"
    /\ \/ /\ log' = "deleted"
          /\ UNCHANGED faults
       \/ /\ Fault
          /\ UNCHANGED log
    /\ gc' = "idle"
    /\ UNCHANGED << build, file, memory, conn, closer, server, stream,
                    next, attempts, sealed, excuse >>

(***************************************************************************)
(* Followers: cmd_follow of cbc, logs_follow and sse_follow.               *)
(***************************************************************************)
Set(f, s) ==
    /\ stream' = [stream EXCEPT ![f] = s]
    /\ UNCHANGED << rows, memory, tasks, counters >>

\* The event id that follows the last one the client received.
Resume(s) == s.start + (s.pos - s.off)

\* get_build finds the row of the build.
GetBuild == build.st # "none"

\* get_build_log_row finds the row of its log.
GetBuildLogRow == log \in {"open", "finished"}

\* logs_follow and the head of sse_follow: both rows are read, and a log that has no
\* row is refused; a refusal ends the client.
LogsFollow(s) ==
    IF GetBuild /\ GetBuildLogRow
      THEN [NoStream EXCEPT !.pc = "open", !.fin = (log = "finished"),
                            !.start = Resume(s), !.got = s.got]
      ELSE [s EXCEPT !.pc = "end"]

\* cmd_follow of cbc: the request, or a reconnection with Last-Event-ID; the
\* MAX_RETRIES-th failure in a row ends the client.
Follow(f) ==
    LET s == stream[f]
    IN  /\ s.pc \in {"off", "lost"}
        /\ Set(f, IF Up THEN LogsFollow(s)
                  ELSE IF s.errs + 1 >= MaxRetries THEN [s EXCEPT !.pc = "end"]
                  ELSE [s EXCEPT !.errs = @ + 1, !.pc = "lost"])

OpenFile(f) ==
    /\ stream[f].pc = "open"
    /\ Set(f, [stream[f] EXCEPT !.pc = "seek", !.fd = file.there])

\* get_seq_offset: the offset of a line that is in the index, else none, and
\* then the file is read from its start.
SeqOffset(seq) ==
    IF \E e \in index : e[1] = seq THEN (CHOOSE e \in index : e[1] = seq)[2] ELSE 0

Seek(f) ==
    LET s == stream[f]
        at == IF s.start > 0 /\ s.fd THEN SeqOffset(s.start) ELSE 0
    IN  /\ s.pc = "seek"
        /\ Set(f, [s EXCEPT !.pc = "subscribe", !.off = at, !.pos = at])

\* Of a log that was finished at the request the stream is one read.
Subscribe(f) ==
    LET s == stream[f]
    IN  /\ s.pc = "subscribe"
        /\ Set(f, [s EXCEPT !.rx = watch, !.pc = IF s.fin THEN "rest" ELSE "read"])

\* read_available_lines: every line up to the end of the file, if it is open.
Read(s) ==
    IF s.fd THEN [s EXCEPT !.pos = Len(file.lines),
                           !.got = @ \o SubSeq(file.lines, s.pos + 1, Len(file.lines))]
            ELSE s

\* The head of the loop: open the file if there was none, read to its end.
ReadLoop(f) ==
    LET s == [stream[f] EXCEPT !.fd = @ \/ file.there]
    IN  /\ stream[f].pc = "read"
        /\ Set(f, [Read(s) EXCEPT !.pc = "check"])

\* A missing row counts as not finished.
Check(f) ==
    /\ stream[f].pc = "check"
    /\ Set(f, [stream[f] EXCEPT !.pc = IF log = "finished" THEN "rest" ELSE "wait"])

\* Mutant: the finished flag ends the stream without another read.
RestUnread(f) ==
    /\ stream[f].pc = "rest"
    /\ Set(f, [stream[f] EXCEPT !.pc = "done"])

Rest(f) ==
    /\ stream[f].pc = "rest"
    /\ Set(f, [Read(stream[f]) EXCEPT !.pc = "done"])

\* rx.changed(): a notification not seen yet, else the end of the sender.
\* Without a receiver: try_subscribe when the build is in the index, else
\* sleep and look again.
Wait(f) ==
    LET s == stream[f]
    IN  /\ s.pc = "wait"
        /\ \/ /\ s.rx # 0 /\ s.fresh
              /\ Set(f, [s EXCEPT !.fresh = FALSE, !.pc = "read"])
           \/ /\ s.rx # 0 /\ ~s.fresh /\ s.rx # watch
              /\ Set(f, [Read(s) EXCEPT !.pc = "done"])
           \/ /\ s.rx = 0
              /\ Set(f, [s EXCEPT !.pc = IF index # {} THEN "retry" ELSE "read"])

TrySubscribe(f) ==
    /\ stream[f].pc = "retry"
    /\ Set(f, [stream[f] EXCEPT !.rx = watch, !.pc = "read"])

\* The stream breaks; the client reconnects.
Break(f) ==
    /\ Up /\ Running(f) /\ Fault
    /\ stream' = [stream EXCEPT ![f] = [@ EXCEPT !.pc = "lost", !.rx = 0, !.fresh = FALSE]]
    /\ UNCHANGED << rows, memory, tasks, next, attempts, sealed, excuse >>

FollowerStep(f) ==
    \/ Follow(f) \/ OpenFile(f) \/ Seek(f) \/ Subscribe(f)
    \/ ReadLoop(f) \/ Check(f) \/ Rest(f) \/ Wait(f) \/ TrySubscribe(f)

(***************************************************************************)
(* The tail: read_tail over lines of the given sizes in bytes.             *)
(***************************************************************************)
Bytes(sizes) == IF sizes = << >> THEN 0 ELSE
    LET upTo[i \in 0 .. Len(sizes)] == IF i = 0 THEN 0 ELSE upTo[i - 1] + sizes[i]
    IN  upTo[Len(sizes)]

Last(s, n) == SubSeq(s, IF Len(s) > n THEN Len(s) - n + 1 ELSE 1, Len(s))

\* Mutant: the first line of a cut window is kept.
ReadTailWhole(sizes, n, budget) ==
    LET cut == Bytes(sizes) > budget
        window == {i \in 0 .. Len(sizes) :
                     /\ Bytes(Last(sizes, i)) >= budget \/ i = Len(sizes)
                     /\ \A j \in 0 .. i - 1 : Bytes(Last(sizes, j)) < budget}
        seen == CHOOSE i \in window : TRUE
    IN  [lines |-> Last(Last(sizes, seen), n), truncated |-> cut]

\* The window holds the last budget bytes; when it does not reach the start
\* of the file its first line, whole or not, is dropped.
ReadTail(sizes, n, budget) ==
    LET cut == Bytes(sizes) > budget
        window == {i \in 0 .. Len(sizes) :
                     /\ Bytes(Last(sizes, i)) >= budget \/ i = Len(sizes)
                     /\ \A j \in 0 .. i - 1 : Bytes(Last(sizes, j)) < budget}
        seen == CHOOSE i \in window : TRUE
        whole == IF cut /\ seen > 0 THEN seen - 1 ELSE seen
    IN  [lines |-> Last(Last(sizes, whole), n), truncated |-> cut]

\* The sizes of the lines in the file: one byte or two.
Sizes == [i \in 1 .. Len(file.lines) |-> 1 + (file.lines[i] % 2)]

\* logs_full: the file as it is; a log without a file is a 404.
LogsFull == IF GetBuild /\ file.there THEN Sizes ELSE << >>

\* logs_tail: a log without a file is a 404, and n is capped.
LogsTail(n, budget) ==
    IF GetBuild /\ file.there
      THEN ReadTail(Sizes, IF n > MaxTailLines THEN MaxTailLines ELSE n, budget)
      ELSE [lines |-> << >>, truncated |-> TRUE]

(***************************************************************************)
(* Specification.                                                          *)
(***************************************************************************)
ConnStep ==
    \/ AppendLine \/ ExtendIndex \/ Notify
    \/ FinActive \/ FinIndex \/ FinLog \/ FinWatch

CloserStep ==
    \/ CleanupLog \/ CleanupActive \/ DropSender
    \/ RollbackRow \/ RollbackLane \/ RevokeRow \/ DrainLog

Recover == Boot \/ RecoverRow \/ RecoverLog \/ Serve

Ending == Report \/ Cleanup

Collector == GcSelect \/ GcFile \/ GcRow

Next ==
    \/ InsertBuild \/ InsertLogRow \/ Dispatch \/ Started
    \/ \E n \in 1 .. 2 : Output(n)
    \/ ConnStep \/ DropHandler
    \/ Ending \/ CloserStep
    \/ Rollback \/ RevokeQueued \/ Revoke \/ DrainRow
    \/ Stop \/ Recover
    \/ Collector
    \/ \E f \in Followers : FollowerStep(f) \/ Break(f)

Spec == Init /\ [][Next]_vars

\* Tasks that are started run on; a stopped server is started again; an entry
\* that an ended build left behind is resolved with its worker; the collector
\* has its daily tick.  The worker need never report.
Fairness ==
    /\ WF_vars(ConnStep) /\ WF_vars(CloserStep) /\ WF_vars(Recover)
    /\ SF_vars(build.st \in Terminal /\ Cleanup)
    /\ WF_vars(Collector)
    /\ \A f \in Followers : WF_vars(FollowerStep(f))

FairSpec == Spec /\ Fairness

(***************************************************************************)
(* Properties.                                                             *)
(***************************************************************************)
Streams == [pc : {"off", "lost", "open", "seek", "subscribe", "read", "check", "rest", "wait",
                  "retry", "done", "end"},
            fin : BOOLEAN, fd : BOOLEAN, start : Int, off : Nat, pos : Nat, rx : Int,
            fresh : BOOLEAN, errs : Int, got : Seq(Int)]

\* Every variable has its type.
TypeOK ==
    /\ build \in [st : Terminal \cup {"none", "queued", "dispatched", "started", "revoking"},
                  stamped : BOOLEAN]
    /\ log \in {"none", "open", "finished", "deleted"}
    /\ file \in [there : BOOLEAN, lines : Seq(Int)]
    /\ index \subseteq Int \X Nat
    /\ conn \in [pc : {"idle", "append", "index", "notify", "fin_active", "fin_index",
                       "fin_log", "fin_watch"},
                 left : Int, entries : SUBSET (Int \X Nat)]
    /\ queue \in {"none", "submit", "lane", "rollback", "active"}
    /\ closer \in {"idle", "log", "active", "watch", "back_row", "back_lane",
                   "revoke_row", "drain_log"}
    /\ server \in {"up", "down", "scan", "log", "ready"}
    /\ gc \in {"idle", "file", "row"}
    /\ stream \in [Followers -> Streams]
    /\ {watch, next, attempts, faults, sealed} \subseteq Int

\* "Read any remaining lines after the finished flag was set": a stream that
\* has the file open and read it from the start does not send its done event
\* before it has sent every line written before the log was marked finished,
\* whatever the writer, the finishers and the collector did in between
\* (sse_follow).
DoneAfterLastLine ==
    [][\A f \in Followers :
         (stream[f].pc # "done" /\ stream'[f].pc = "done" /\ stream'[f].fd
            /\ stream'[f].off = 0)
         => stream'[f].pos >= sealed]_vars

\* An ended build leaves its log row open only while a finisher still has to
\* close it, or for one of the reasons recorded in excuse: the server or the
\* handler stopped between the two statements, the statement failed, the
\* build was revoked while queued, or recovery could not parse it (writer,
\* cleanup_terminal_state, run_startup_recovery, revoke_build).
OpenLogExplained ==
    build.st \in Terminal /\ log = "open" => OwesLog \/ excuse # {}

\* The tail of a log is whole lines from the end of the full log, no more than asked
\* for, than the cap and than the budget; short of that it says so or has returned
\* everything, and it leaves out at most the line the budget cuts (logs_tail and
\* read_tail against logs_full).
TailHonest ==
    \A n \in 1 .. MaxTailLines + 1, budget \in Budgets :
        LET tail == LogsTail(n, budget)
            k == Len(tail.lines)
            most == IF n > MaxTailLines THEN MaxTailLines ELSE n
        IN  /\ k <= most
            /\ tail.lines = Last(LogsFull, k)
            /\ Bytes(tail.lines) <= budget
            /\ (file.there /\ k < most) =>
                 IF tail.truncated THEN Bytes(Last(LogsFull, k + 1)) >= budget
                                   ELSE k = Len(LogsFull)

\* Once the log is marked finished every stream ends: the finisher drops the
\* sender after the mark, so no follower waits on a channel nobody will use
\* (handle_build_finished, cleanup_terminal_state, sse_follow).  The
\* exception is a finish whose handler was dropped with its connection.
FollowersEnd ==
    \A f \in Followers : (log = "finished") ~> (~Running(f) \/ "cut" \in excuse)

\* A line in the file reaches every open stream while the build goes on, or
\* the stream ends: the writer appends before it notifies, and a follower
\* subscribes before it reads (write_build_output, sse_follow).  Not so when
\* the handler was dropped before the notification, or the file collected.
LinesReachFollowers ==
    \A f \in Followers, n \in 1 .. MaxLines :
        (Running(f) /\ Len(file.lines) >= n)
            ~> (\/ ~Running(f) \/ stream[f].pos >= n \/ ~file.there
                \/ excuse \cap {"cut", "unsent"} # {})

\* Every log of a build with a finish time is collected in the end, also when
\* an earlier cycle stopped between the file and the row (run_gc_cycle).
Collected ==
    (build.st \in Terminal /\ build.stamped) ~> (log \in {"none", "deleted"})

\* Claimed by the design: a client that reconnects with Last-Event-ID receives
\* only the lines it has not seen, with no duplicates.
ResumedExactly ==
    \A f \in Followers : \A i, j \in 1 .. Len(stream[f].got) :
        i < j => stream[f].got[i] < stream[f].got[j]

\* Claimed by the design: the done event is sent when the log is finished.
DoneMeansFinished ==
    [][\A f \in Followers :
         (stream[f].pc # "done" /\ stream'[f].pc = "done") => log = "finished"]_vars

=============================================================================
