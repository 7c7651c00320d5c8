----------------------------- MODULE BuildServer -----------------------------
(***************************************************************************)
(* The build lifecycle of cbsd-server: submission, dispatch, the handling  *)
(* of worker messages, revocation, worker liveness and startup recovery    *)
(* (cbsd-server/src/ws, src/queue, src/db/builds.rs, src/routes/builds.rs).*)
(*                                                                         *)
(* The server is a set of asynchronous tasks over three kinds of state:    *)
(* rows of the builds table, the in-memory queue behind one mutex, and the *)
(* maps of log watchers and outbound senders behind mutexes of their own.  *)
(* A step of a task is what the code does between two suspension points    *)
(* that other tasks can observe: one SQL statement, or one critical        *)
(* section.  A task is a record: pc names the step it takes next, then is  *)
(* the step that follows the helper it runs, ret the one that follows the  *)
(* handler; ret "reply" marks an HTTP request, "recv" the message loop of  *)
(* a connection.                                                           *)
(*                                                                         *)
(* Workers are the environment: any connected worker may send any message  *)
(* about any build at any time.                                            *)
(***************************************************************************)
EXTENDS BuildQueue, FiniteSets

CONSTANTS
    MaxBuilds,   \* rows the builds table may get; ids are 1..MaxBuilds
    Workers,     \* registered workers
    Conns,       \* connection ids; an id is used for one connection only
    Slots,       \* spawned tasks and HTTP requests in flight at a time
    Tokens,      \* identities of ack cancellation tokens
    None,        \* no connection / no worker
    Sweep,       \* the periodic sweep task
    WorkerOf,    \* the registered worker a connection authenticates as
    PrioOf,      \* priority of each build
    BuildArch,   \* architecture of each build
    WorkerArch,  \* architecture of each worker
    Corrupt,     \* builds whose stored descriptor recovery cannot parse
    Reports,     \* statuses a worker may report in build_finished
    MaxMishaps,  \* builds hit by a failed statement or a dropped handler, at a time
    Events       \* the optional events of the environment that may happen

Builds == 1 .. MaxBuilds

ASSUME BoundsAssumption == MaxBuilds \in Nat /\ MaxMishaps \in Nat
ASSUME IdentityAssumption ==
    /\ None \notin Conns \union Workers
    /\ Conns \intersect Slots = {} /\ Sweep \notin Conns \union Slots
    /\ Tokens \subseteq Nat \ {0}
ASSUME TablesAssumption ==
    /\ WorkerOf \in [Conns -> Workers]
    /\ PrioOf \in [Builds -> Priorities]
    /\ Corrupt \subseteq Builds
    /\ Reports \subseteq {"success", "failure", "revoked"}
Archs == {"x86_64", "aarch64"}
Tasks == Conns \union Slots \union {Sweep}
Terminal == {"success", "failure", "revoked"}
InFlight == {"dispatched", "started", "revoking"}
DbStates == {"none", "queued"} \union InFlight \union Terminal
AllEvents == {"sql_error", "drop", "restart", "sweep", "revoke", "force_disconnect",
              "stopping", "reject", "status", "pack_error", "bad_hello"}

VARIABLES
    db,        \* builds.state, "none" before the row is inserted
    dbWorker,  \* builds.worker_id
    log,       \* build_logs row: "none", "open", or "finished"
    lanes,     \* BuildQueue.high / normal / low
    active,    \* BuildQueue.active
    workers,   \* BuildQueue.workers: connection -> worker state, or "absent"
    senders,   \* keys of worker_senders
    watchers,  \* keys of log_watchers
    tasks,     \* the tasks of the server
    mishap     \* builds hit by a failed SQL statement or by a dropped handler

vars == << db, dbWorker, log, lanes, active, workers, senders, watchers,
           tasks, mishap >>
rows == << db, dbWorker, log >>
queue == << lanes, active, workers >>

NoActive == [conn |-> None, receipt |-> "awaiting", cancelled |-> FALSE, tok |-> 0]
IsActive(b) == active[b].conn # None
Owns(c, b) == active[b].conn = c

Task(pc, ret) == [pc |-> pc, b |-> 0, c |-> None, st |-> "none", todo |-> {},
                  tok |-> 0, then |-> ret, ret |-> ret]
Idle == Task("idle", "idle")
Home(ret) == IF ret \in {"idle", "reply"} THEN Idle ELSE Task(ret, ret)
Free == {s \in Slots : tasks[s] = Idle}

\* A resolver with no candidate left goes on to try_dispatch.
NextCandidate(task) ==
    IF task.todo = {} THEN Task("try_dispatch", task.ret) ELSE task

\* Continue a task after the helper it was running.
After(t) ==
    IF tasks[t].then \in {"resolve_dead", "resolve_idle"}
    THEN NextCandidate([tasks[t] EXCEPT !.pc = tasks[t].then, !.b = 0, !.st = "none"])
    ELSE IF tasks[t].then = "try_dispatch" THEN Task("try_dispatch", tasks[t].ret)
    ELSE Home(tasks[t].ret)
Return(t) == [tasks EXCEPT ![t] = After(t)]
Goto(t, pc) == [tasks EXCEPT ![t].pc = pc]

\* tokio::spawn: task t goes on as next while a new task starts.
Spawn(t, next, new) ==
    \E s \in Free \union (IF next = Idle THEN {t} \intersect Slots ELSE {}) :
        tasks' = [tasks EXCEPT ![t] = next, ![s] = new]

\* Mutant: the token is dropped, not cancelled.
CancelNothing(ts, b) == ts

\* CancellationToken::cancel on the ack token of b's active entry: the timers
\* waiting on that token end.
Cancel(ts, b) ==
    [t \in Tasks |->
        IF ts[t].pc = "ack_wait" /\ ts[t].b = b /\ ts[t].tok = active[b].tok
        THEN Idle ELSE ts[t]]

\* A statement or a handler fails on builds bs; each build is hit once at most.
MayHit(bs) == bs \intersect mishap = {} /\ Cardinality(mishap \union bs) <= MaxMishaps
DbOutcomes(b) == IF "sql_error" \in Events /\ MayHit({b}) THEN BOOLEAN ELSE {TRUE}
Fault(b, ok) == mishap' = IF ok THEN mishap ELSE mishap \union {b}

Init ==
    /\ db = [b \in Builds |-> "none"]
    /\ dbWorker = [b \in Builds |-> None]
    /\ log = [b \in Builds |-> "none"]
    /\ lanes = EmptyLanes
    /\ active = [b \in Builds |-> NoActive]
    /\ workers = [c \in Conns |-> "absent"]
    /\ senders = {}
    /\ watchers = {}
    /\ tasks = [t \in Tasks |-> IF t \in Conns THEN Task("new", "closed") ELSE Idle]
    /\ mishap = {}

(***************************************************************************)
(* Submission: insert_build_internal.                                      *)
(***************************************************************************)
SubmitInsert(s, b) ==
    /\ tasks[s] = Idle
    /\ db[b] = "none"
    /\ \A d \in Builds : d < b => db[d] # "none"
    /\ db' = [db EXCEPT ![b] = "queued"]
    /\ tasks' = [tasks EXCEPT ![s] = [Task("submit_log", "reply") EXCEPT !.b = b]]
    /\ UNCHANGED << dbWorker, log, queue, senders, watchers, mishap >>

SubmitLog(t) ==
    /\ tasks[t].pc = "submit_log"
    /\ \E ok \in DbOutcomes(tasks[t].b) :
         /\ log' = IF ok THEN [log EXCEPT ![tasks[t].b] = "open"] ELSE log
         /\ tasks' = IF ok THEN Goto(t, "submit_enqueue") ELSE Return(t)
         /\ Fault(tasks[t].b, ok)
    /\ UNCHANGED << db, dbWorker, queue, senders, watchers >>

\* The request ends by spawning try_dispatch.
SubmitEnqueue(t) ==
    /\ tasks[t].pc = "submit_enqueue"
    /\ lanes' = Enqueue(lanes, tasks[t].b, PrioOf[tasks[t].b])
    /\ tasks' = [tasks EXCEPT ![t] = Task("try_dispatch", "idle")]
    /\ UNCHANGED << rows, active, workers, senders, watchers, mishap >>

(***************************************************************************)
(* try_dispatch.                                                           *)
(***************************************************************************)
\* Mutant: a connected worker is taken for idle.
IdleIfConnected == {c \in Conns : workers[c] = "connected"}

IdleWorkers ==
    {c \in Conns : workers[c] = "connected" /\ \A b \in Builds : ~Owns(c, b)}
IdleMatching(b) == {c \in IdleWorkers : WorkerArch[WorkerOf[c]] = BuildArch[b]}

\* The identity of a new token differs from that of every timer of b still about.
FreshTokens(b) == {n \in Tokens : \A t \in Tasks : ~(tasks[t].b = b /\ tasks[t].tok = n)}

\* Nothing pending, or no idle worker matches the head of the first lane.
NothingToDispatch(t) ==
    /\ tasks[t].pc = "try_dispatch"
    /\ HasPending(lanes) => IdleMatching(NextPending(lanes)) = {}
    /\ tasks' = [tasks EXCEPT ![t] = Home(tasks[t].ret)]
    /\ UNCHANGED << rows, queue, senders, watchers, mishap >>

\* pack_components fails when the files of a component cannot be read.
PackComponents == IF "pack_error" \in Events THEN BOOLEAN ELSE {TRUE}

\* Packing the component tarball touches nothing shared: task t goes on to the
\* send, or, after a pack error, to finalising the build as a failure.
Pack(t, b, c) ==
    {IF ok THEN [Task("send_new", tasks[t].ret) EXCEPT !.b = b, !.c = c]
     ELSE [Task("fin_db", tasks[t].ret) EXCEPT !.b = b, !.st = "failure"] :
       ok \in PackComponents}

\* Under the queue lock: pop, pick a worker, mark the row dispatched, create
\* the log watcher and the active entry.  When the statement fails the popped
\* build is dropped.
Dispatch(t) ==
    /\ tasks[t].pc = "try_dispatch"
    /\ HasPending(lanes)
    /\ LET b == NextPending(lanes) IN
       /\ FreshTokens(b) # {}
       /\ lanes' = PopPending(lanes)
       /\ \E c \in IdleMatching(b), ok \in DbOutcomes(b) : \E packed \in Pack(t, b, c) :
            /\ db' = IF ok THEN [db EXCEPT ![b] = "dispatched"] ELSE db
            /\ dbWorker' = IF ok THEN [dbWorker EXCEPT ![b] = WorkerOf[c]] ELSE dbWorker
            /\ watchers' = IF ok THEN watchers \union {b} ELSE watchers
            /\ active' = IF ok
                 THEN [active EXCEPT ![b] =
                        [conn |-> c, receipt |-> "awaiting", cancelled |-> FALSE,
                         tok |-> CHOOSE n \in FreshTokens(b) : TRUE]]
                 ELSE active
            /\ tasks' = IF ok
                 THEN [tasks EXCEPT ![t] = packed]
                 ELSE [tasks EXCEPT ![t] = Home(tasks[t].ret)]
            /\ Fault(b, ok)
    /\ UNCHANGED << log, workers, senders >>

\* send_and_recover: without a sender the dispatch is rolled back.  (The
\* receiving half lives until the sender is removed, so a present sender
\* always takes the two frames.)
SendAndRecover(c) == IF c \in senders THEN "arm_ack" ELSE "rollback_take"

\* BuildNew and its tarball go to the worker picked by Dispatch.
SendNew(t) ==
    /\ tasks[t].pc = "send_new"
    /\ tasks' = [tasks EXCEPT ![t].c = None, ![t].pc = SendAndRecover(tasks[t].c)]
    /\ UNCHANGED << rows, queue, senders, watchers, mishap >>

\* The ack timer is spawned with the token of whatever entry is active now.
\* The sweep goes on dispatching after a success.
ArmAck(t) ==
    /\ tasks[t].pc = "arm_ack"
    /\ LET b    == tasks[t].b
           next == IF t = Sweep THEN Task("try_dispatch", "idle") ELSE After(t)
       IN  IF IsActive(b) /\ ~active[b].cancelled
           THEN Spawn(t, next, [Task("ack_wait", "idle") EXCEPT
                                   !.b = b, !.tok = active[b].tok])
           ELSE tasks' = [tasks EXCEPT ![t] = next]
    /\ UNCHANGED << rows, queue, senders, watchers, mishap >>

\* The sleep of the ack timer elapses before the token is cancelled.
AckTimeout(t) ==
    /\ tasks[t].pc = "ack_wait"
    /\ tasks' = Goto(t, "rollback_take")
    /\ UNCHANGED << rows, queue, senders, watchers, mishap >>

\* Mutant: the sweep looks for work only when no worker is idle.
SweepTickInverted ==
    /\ tasks[Sweep] = Idle
    /\ HasPending(lanes) /\ IdleWorkers = {}
    /\ tasks' = [tasks EXCEPT ![Sweep] = Task("try_dispatch", "idle")]
    /\ UNCHANGED << rows, queue, senders, watchers, mishap >>

SweepTick ==
    /\ "sweep" \in Events
    /\ tasks[Sweep] = Idle
    /\ HasPending(lanes) /\ IdleWorkers # {}
    /\ tasks' = [tasks EXCEPT ![Sweep] = Task("try_dispatch", "idle")]
    /\ UNCHANGED << rows, queue, senders, watchers, mishap >>

(***************************************************************************)
(* rollback_active_to_queued: four steps, each visible to other tasks.     *)
(***************************************************************************)
RollbackTake(t) ==
    /\ tasks[t].pc = "rollback_take"
    /\ LET b == tasks[t].b IN
       IF IsActive(b)
       THEN /\ tasks' = Cancel(Goto(t, "rollback_db"), b)
            /\ active' = [active EXCEPT ![b] = NoActive]
       ELSE tasks' = Return(t) /\ active' = active
    /\ UNCHANGED << rows, lanes, workers, senders, watchers, mishap >>

RollbackDb(t) ==
    /\ tasks[t].pc = "rollback_db"
    /\ LET b == tasks[t].b IN
       \E ok \in DbOutcomes(tasks[t].b) :
         /\ db' = IF ok THEN [db EXCEPT ![b] = "queued"] ELSE db
         /\ dbWorker' = IF ok THEN [dbWorker EXCEPT ![b] = None] ELSE dbWorker
         /\ Fault(b, ok)
    /\ tasks' = Goto(t, "rollback_enqueue")
    /\ UNCHANGED << log, queue, senders, watchers >>

RollbackEnqueue(t) ==
    /\ tasks[t].pc = "rollback_enqueue"
    /\ lanes' = EnqueueFront(lanes, tasks[t].b, PrioOf[tasks[t].b])
    /\ tasks' = Goto(t, "rollback_watcher")
    /\ UNCHANGED << rows, active, workers, senders, watchers, mishap >>

RollbackWatcher(t) ==
    /\ tasks[t].pc = "rollback_watcher"
    /\ watchers' = watchers \ {tasks[t].b}
    /\ tasks' = Return(t)
    /\ UNCHANGED << rows, queue, senders, mishap >>

(***************************************************************************)
(* cleanup_terminal_state (steps fin) and handle_build_finished (steps     *)
(* done): the same four writes; the latter drops the active entry before   *)
(* it finishes the log.  remove_only is the dead-worker resolution that    *)
(* only drops the entry.                                                   *)
(***************************************************************************)
FinishDb(t) ==
    /\ tasks[t].pc \in {"fin_db", "done_db"}
    /\ \E ok \in DbOutcomes(tasks[t].b) :
         /\ db' = IF ok THEN [db EXCEPT ![tasks[t].b] = tasks[t].st] ELSE db
         /\ Fault(tasks[t].b, ok)
    /\ tasks' = [tasks EXCEPT ![t].st = "none",
                   ![t].pc = IF @ = "fin_db" THEN "fin_log" ELSE "done_active"]
    /\ UNCHANGED << dbWorker, log, queue, senders, watchers >>

FinishLog(t) ==
    /\ tasks[t].pc \in {"fin_log", "done_log"}
    /\ \E ok \in DbOutcomes(tasks[t].b) :
         /\ log' = IF ok /\ log[tasks[t].b] = "open"
                   THEN [log EXCEPT ![tasks[t].b] = "finished"] ELSE log
         /\ Fault(tasks[t].b, ok)
    /\ tasks' = Goto(t, IF tasks[t].pc = "fin_log" THEN "fin_active" ELSE "done_watcher")
    /\ UNCHANGED << db, dbWorker, queue, senders, watchers >>

FinishActive(t) ==
    /\ tasks[t].pc \in {"fin_active", "done_active", "remove_only"}
    /\ active' = [active EXCEPT ![tasks[t].b] = NoActive]
    /\ tasks' = CASE tasks[t].pc = "fin_active"  -> Goto(t, "fin_watcher")
                  [] tasks[t].pc = "done_active" -> Goto(t, "done_log")
                  [] OTHER                       -> Return(t)
    /\ UNCHANGED << rows, lanes, workers, senders, watchers, mishap >>

FinishWatcher(t) ==
    /\ tasks[t].pc \in {"fin_watcher", "done_watcher"}
    /\ watchers' = watchers \ {tasks[t].b}
    /\ tasks' = Return(t)
    /\ UNCHANGED << rows, queue, senders, mishap >>

(***************************************************************************)
(* Messages of the worker on connection c.  authorize_lifecycle_message    *)
(* lets through the messages of the connection that owns the active entry; *)
(* any other message is answered without a change of state.                *)
(***************************************************************************)
Authorized(c, b, handler) ==
    /\ tasks[c].pc = "recv"
    /\ Owns(c, b)
    /\ active' = [active EXCEPT ![b].receipt = "received", ![b].cancelled = TRUE]
    /\ tasks' = Cancel([tasks EXCEPT ![c] = handler], b)
    /\ UNCHANGED << rows, lanes, workers, senders, watchers, mishap >>

On(b, pc) == [Task(pc, "recv") EXCEPT !.b = b]

BuildAccepted(c, b) == Authorized(c, b, On(b, "accepted"))
BuildStarted(c, b) == Authorized(c, b, On(b, "started_db"))
BuildOutput(c, b) == Authorized(c, b, Task("recv", "recv"))
BuildFinished(c, b) ==
    \E st \in Reports :
        Authorized(c, b, [On(b, "done_db") EXCEPT !.st = st, !.then = "try_dispatch"])
BuildRejected(c, b) ==
    /\ "reject" \in Events
    /\ \/ Authorized(c, b, [On(b, "fin_db") EXCEPT !.st = "failure"])  \* integrity
       \/ Authorized(c, b, [On(b, "rollback_take") EXCEPT !.then = "try_dispatch"])

\* handle_build_accepted cancels the token of the entry active now.
AcceptedCancel(t) ==
    /\ tasks[t].pc = "accepted"
    /\ LET b == tasks[t].b IN
       IF IsActive(b)
       THEN /\ active' = [active EXCEPT ![b].cancelled = TRUE]
            /\ tasks' = Cancel(Return(t), b)
       ELSE active' = active /\ tasks' = Return(t)
    /\ UNCHANGED << rows, lanes, workers, senders, watchers, mishap >>

StartedDb(t) ==
    /\ tasks[t].pc = "started_db"
    /\ \E ok \in DbOutcomes(tasks[t].b) :
         /\ db' = IF ok THEN [db EXCEPT ![tasks[t].b] = "started"] ELSE db
         /\ Fault(tasks[t].b, ok)
    /\ tasks' = Return(t)
    /\ UNCHANGED << dbWorker, log, queue, senders, watchers >>

WorkerStopping(c) ==
    /\ "stopping" \in Events
    /\ tasks[c].pc = "recv"
    /\ workers[c] # "absent"
    /\ workers' = [workers EXCEPT ![c] = "stopping"]
    /\ UNCHANGED << rows, lanes, active, senders, watchers, tasks, mishap >>

\* worker_status(building b): the row is read first, the entry changed later.
\* A resumable build of another worker is answered without a change of state.
StatusBuilding(c, b) ==
    /\ "status" \in Events
    /\ tasks[c].pc = "recv"
    /\ db[b] # "none"
    /\ db[b] \in {"dispatched", "started"} => dbWorker[b] = WorkerOf[c]
    /\ tasks' = [tasks EXCEPT ![c] =
          On(b, CASE db[b] = "dispatched" -> "attach"
                  [] db[b] = "started"    -> "resume"
                  [] OTHER                -> "revoke_lookup")]
    /\ UNCHANGED << rows, queue, senders, watchers, mishap >>

Attach(t) ==
    /\ tasks[t].pc = "attach"
    /\ LET b == tasks[t].b IN
       IF IsActive(b)
       THEN /\ active' = [active EXCEPT ![b].conn = t, ![b].receipt = "received",
                                        ![b].cancelled = TRUE]
            /\ tasks' = Cancel(Return(t), b)
       ELSE active' = active /\ tasks' = Return(t)
    /\ UNCHANGED << rows, lanes, workers, senders, watchers, mishap >>

\* A started build moves to the connection that reports it.
Resume(t) ==
    /\ tasks[t].pc = "resume"
    /\ active' = IF IsActive(tasks[t].b) THEN [active EXCEPT ![tasks[t].b].conn = t]
                 ELSE active
    /\ tasks' = Return(t)
    /\ UNCHANGED << rows, lanes, workers, senders, watchers, mishap >>

\* worker_status(idle): snapshot of the entries of the other connections.
StatusIdle(c) ==
    /\ "status" \in Events
    /\ tasks[c].pc = "recv"
    /\ tasks' = [tasks EXCEPT ![c] = NextCandidate([Task("resolve_idle", "recv") EXCEPT
          !.todo = {[b |-> b, receipt |-> active[b].receipt,
                     live |-> workers[active[b].conn] = "connected"] :
                      b \in {d \in Builds : IsActive(d) /\ ~Owns(c, d)}}])]
    /\ UNCHANGED << rows, queue, senders, watchers, mishap >>

IdleReconcileDecision(st, receipt, live) ==
    CASE st = "dispatched" -> IF receipt = "awaiting" /\ live THEN "skip" ELSE "rollback"
      [] st = "started"    -> "failure"
      [] st = "revoking"   -> "revoked"
      [] OTHER             -> "skip"

\* Mutant: a state outside the table is written back as the final one.
DeadWorkerWritesBack(st, receipt) ==
    CASE st = "revoking"                 -> "revoked"
      [] st \in {"dispatched", "started"} -> "failure"
      [] OTHER                           -> st

DeadWorkerResolution(st, receipt) ==
    CASE st = "dispatched" -> IF receipt = "awaiting" THEN "rollback" ELSE "failure"
      [] st = "started"    -> "failure"
      [] st = "revoking"   -> "revoked"
      [] OTHER             -> "remove"

\* What task t does about candidate x of its snapshot.
Resolve(t, x, decision) ==
    LET rest == [tasks[t] EXCEPT !.todo = @ \ {x}]
        run  == [rest EXCEPT !.b = x.b, !.then = tasks[t].pc]
    IN  CASE decision = "skip"     -> NextCandidate(rest)
          [] decision = "rollback" -> [run EXCEPT !.pc = "rollback_take"]
          [] decision = "remove"   -> [run EXCEPT !.pc = "remove_only"]
          [] OTHER                 -> [run EXCEPT !.pc = "fin_db", !.st = decision]

\* idle_reconcile_one, on the row as it is now and the entry as it was.
IdleReconcileOne(t) ==
    /\ tasks[t].pc = "resolve_idle"
    /\ \E x \in tasks[t].todo : \E ok \in DbOutcomes(x.b) :
         tasks' = [tasks EXCEPT ![t] = Resolve(t, x,
             IF ok /\ dbWorker[x.b] = WorkerOf[t]
             THEN IdleReconcileDecision(db[x.b], x.receipt, x.live) ELSE "skip")]
    /\ UNCHANGED << rows, queue, senders, watchers, mishap >>

(***************************************************************************)
(* handle_worker_dead: snapshot the builds of connection tasks[t].c,       *)
(* resolve each, then dispatch.                                            *)
(***************************************************************************)
\* active_builds_with_receipt_for_connection.
WithReceipt(c) == {[b |-> b, receipt |-> active[b].receipt, live |-> FALSE] :
                     b \in {d \in Builds : Owns(c, d)}}

DeadSnapshot(t) ==
    /\ tasks[t].pc = "dead_snapshot"
    /\ tasks' = [tasks EXCEPT ![t] = NextCandidate([@ EXCEPT
          !.pc = "resolve_dead", !.c = None, !.todo = WithReceipt(tasks[t].c)])]
    /\ UNCHANGED << rows, queue, senders, watchers, mishap >>

ResolveDeadBuild(t) ==
    /\ tasks[t].pc = "resolve_dead"
    /\ \E x \in tasks[t].todo : \E ok \in DbOutcomes(x.b) :
         /\ tasks' = [tasks EXCEPT ![t] = Resolve(t, x,
               IF ok THEN DeadWorkerResolution(db[x.b], x.receipt) ELSE "skip")]
         /\ Fault(x.b, ok)
    /\ UNCHANGED << rows, queue, senders, watchers >>

(***************************************************************************)
(* Revocation: DELETE on a build, and send_build_revoke.                   *)
(***************************************************************************)
RevokeRequest(s, b) ==
    /\ "revoke" \in Events
    /\ tasks[s] = Idle
    /\ db[b] \in {"queued", "dispatched", "started"}
    /\ tasks' = [tasks EXCEPT ![s] = [Task(
          IF db[b] = "queued" THEN "revoke_remove" ELSE "revoke_lookup", "reply")
          EXCEPT !.b = b]]
    /\ UNCHANGED << rows, queue, senders, watchers, mishap >>

RevokeRemove(t) ==
    /\ tasks[t].pc = "revoke_remove"
    /\ lanes' = RemoveById(lanes, tasks[t].b)
    /\ tasks' = Goto(t, "revoke_mark")
    /\ UNCHANGED << rows, active, workers, senders, watchers, mishap >>

RevokeMark(t) ==
    /\ tasks[t].pc = "revoke_mark"
    /\ \E ok \in DbOutcomes(tasks[t].b) :
         /\ db' = IF ok THEN [db EXCEPT ![tasks[t].b] = "revoked"] ELSE db
         /\ Fault(tasks[t].b, ok)
    /\ tasks' = Return(t)
    /\ UNCHANGED << dbWorker, log, queue, senders, watchers >>

RevokeLookup(t) ==
    /\ tasks[t].pc = "revoke_lookup"
    /\ LET c == active[tasks[t].b].conn IN
       tasks' = IF c # None THEN [tasks EXCEPT ![t].pc = "revoke_db", ![t].c = c]
                ELSE Return(t)
    /\ UNCHANGED << rows, queue, senders, watchers, mishap >>

RevokeDb(t) ==
    /\ tasks[t].pc = "revoke_db"
    /\ \E ok \in DbOutcomes(tasks[t].b) :
         /\ db' = IF ok THEN [db EXCEPT ![tasks[t].b] = "revoking"] ELSE db
         /\ tasks' = IF ok THEN Goto(t, "revoke_send") ELSE Return(t)
         /\ Fault(tasks[t].b, ok)
    /\ UNCHANGED << dbWorker, log, queue, senders, watchers >>

\* Mutant: no timer when the worker has no sender.
RevokeSendNoTimer(t) ==
    /\ tasks[t].pc = "revoke_send"
    /\ \/ tasks[t].c \notin senders /\ tasks' = Return(t)
       \/ /\ tasks[t].c \in senders
          /\ Spawn(t, After(t), [Task("revoke_wait", "idle") EXCEPT !.b = tasks[t].b])
    /\ UNCHANGED << rows, queue, senders, watchers, mishap >>

\* BuildRevoke goes out on the connection looked up before; the timer starts.
RevokeSend(t) ==
    /\ tasks[t].pc = "revoke_send"
    /\ Spawn(t, After(t), [Task("revoke_wait", "idle") EXCEPT !.b = tasks[t].b])
    /\ UNCHANGED << rows, queue, senders, watchers, mishap >>

\* Mutant: a revocation is finalised only while the build is active.
RevokeTimeoutIfActive(t) ==
    /\ tasks[t].pc = "revoke_wait"
    /\ tasks' = IF db[tasks[t].b] = "revoking" /\ IsActive(tasks[t].b)
                THEN [tasks EXCEPT ![t].pc = "fin_db", ![t].st = "revoked"]
                ELSE Return(t)
    /\ UNCHANGED << rows, queue, senders, watchers, mishap >>

\* handle_revoke_timeout reads the row; only a revoking build is finalised.
RevokeTimeout(t) ==
    /\ tasks[t].pc = "revoke_wait"
    /\ \E ok \in DbOutcomes(tasks[t].b) :
         /\ tasks' = IF ok /\ db[tasks[t].b] = "revoking"
                     THEN [tasks EXCEPT ![t].pc = "fin_db", ![t].st = "revoked"]
                     ELSE Return(t)
         /\ Fault(tasks[t].b, ok)
    /\ UNCHANGED << rows, queue, senders, watchers >>

(***************************************************************************)
(* Connections: handle_connection, cleanup_worker and the grace period.    *)
(***************************************************************************)
\* States with a registered worker id.
Registered == {"connected", "disconnected", "stopping"}
\* Mutant: an entry in its grace period is not found.
LiveEntriesOf(w) == {c \in Conns : WorkerOf[c] = w /\ workers[c] = "connected"}
EntriesOf(w) == {c \in Conns : WorkerOf[c] = w /\ workers[c] \in Registered}

\* What wait_for_hello reads within its ten seconds: a hello, a message of
\* another type, or nothing it can parse.
WaitForHello == [got : {"hello", "other", "nothing"}, version : {1, 2}, arch : Archs]

\* The hello speaks version 2 and names the architecture in the worker's row.
HelloAccepted(c, hello) ==
    /\ hello.got = "hello"
    /\ hello.version = 2
    /\ WorkerArch[WorkerOf[c]] \in Archs
    /\ hello.arch = WorkerArch[WorkerOf[c]]

\* Any other first message ends the connection: it never had an entry in the
\* queue, so there is nothing to clean up.
HelloRefused(c) ==
    /\ "bad_hello" \in Events
    /\ tasks[c].pc = "new"
    /\ \E hello \in WaitForHello : ~HelloAccepted(c, hello)
    /\ tasks' = [tasks EXCEPT ![c] = Task("closed", "closed")]
    /\ UNCHANGED << rows, queue, senders, watchers, mishap >>

\* Registration, under the queue lock: the builds of an older entry of the
\* same worker move to the new connection, and the older entry goes.
Register(c) ==
    /\ tasks[c].pc = "new"
    /\ \E hello \in WaitForHello : HelloAccepted(c, hello)
    /\ \/ /\ EntriesOf(WorkerOf[c]) = {}
          /\ workers' = [workers EXCEPT ![c] = "connected"]
          /\ tasks' = Goto(c, "add_sender")
          /\ active' = active
       \/ \E old \in EntriesOf(WorkerOf[c]) :
          /\ workers' = [workers EXCEPT ![old] = "absent", ![c] = "connected"]
          /\ tasks' = [tasks EXCEPT ![c].pc = "supersede", ![c].c = old,
                                    ![c].st = workers[old], ![c].ret = "add_sender"]
          /\ active' = [b \in Builds |-> IF Owns(old, b)
                           THEN [active[b] EXCEPT !.conn = c] ELSE active[b]]
    /\ UNCHANGED << rows, lanes, senders, watchers, mishap >>

\* revoke_and_remove_superseded: whatever the old connection still receives, its
\* sender goes.
RemoveSuperseded(old) == senders \ {old}

\* If the superseded connection was live, its builds are resolved as those of a
\* dead worker.
Supersede(c) ==
    /\ tasks[c].pc = "supersede"
    /\ senders' = RemoveSuperseded(tasks[c].c)
    /\ tasks' = [tasks EXCEPT ![c] =
          IF @.st = "connected" THEN [@ EXCEPT !.pc = "dead_snapshot", !.st = "none"]
          ELSE Task("add_sender", "add_sender")]
    /\ UNCHANGED << rows, queue, watchers, mishap >>

AddSender(c) ==
    /\ tasks[c].pc = "add_sender"
    /\ senders' = senders \union {c}
    /\ tasks' = [tasks EXCEPT ![c] = Task("welcome", "closed")]
    /\ UNCHANGED << rows, queue, watchers, mishap >>

\* A welcome that cannot be sent goes straight to the cleanup.
Welcome(c) ==
    /\ tasks[c].pc = "welcome"
    /\ \/ Spawn(c, Task("recv", "recv"), Task("try_dispatch", "idle"))
       \/ tasks' = Goto(c, "close_sender")
    /\ UNCHANGED << rows, queue, senders, watchers, mishap >>

\* The builds a task has in hand.
InHand(t) ==
    ({tasks[t].b} \union {x.b : x \in tasks[t].todo}
       \union IF tasks[t].pc \in {"fd_sender", "dead_snapshot"}
              THEN {b \in Builds : Owns(tasks[t].c, b)} ELSE {})
    \intersect Builds

\* What is left of a task whose handler is dropped: the connection goes on to
\* its cleanup, a request is gone.
Dropped(t) == [tasks EXCEPT ![t] =
                 IF t \in Conns THEN Task("close_check", "closed") ELSE Idle]

\* The select in handle_connection ends, because the stream closed or because
\* the outbound half did; or the client of an HTTP request goes away.  The
\* handler in progress is dropped where it is suspended.
Drop(t) ==
    /\ tasks[t].ret \in {"recv", "reply"}
    /\ InHand(t) # {} => "drop" \in Events /\ MayHit(InHand(t))
    /\ tasks' = Dropped(t)
    /\ mishap' = mishap \union InHand(t)
    /\ UNCHANGED << rows, queue, senders, watchers >>

\* The one critical section that is itself suspended, try_dispatch's, may be
\* dropped after the build is popped and before its active entry exists.
DropInDispatch(t) ==
    /\ "drop" \in Events
    /\ tasks[t].ret \in {"recv", "reply"}
    /\ tasks[t].pc = "try_dispatch"
    /\ HasPending(lanes)
    /\ LET b == NextPending(lanes) IN
       \E c \in IdleMatching(b), executed \in BOOLEAN :
         /\ MayHit({b})
         /\ db' = IF executed THEN [db EXCEPT ![b] = "dispatched"] ELSE db
         /\ dbWorker' = IF executed THEN [dbWorker EXCEPT ![b] = WorkerOf[c]] ELSE dbWorker
         /\ mishap' = mishap \union {b}
    /\ lanes' = PopPending(lanes)
    /\ tasks' = Dropped(t)
    /\ UNCHANGED << log, active, workers, senders, watchers >>

CloseCheck(c) ==
    /\ tasks[c].pc = "close_check"
    /\ tasks' = [tasks EXCEPT ![c].pc = "close_sender",
                   ![c].st = IF workers[c] = "stopping" THEN "stopping" ELSE "none"]
    /\ UNCHANGED << rows, queue, senders, watchers, mishap >>

CloseSender(c) ==
    /\ tasks[c].pc = "close_sender"
    /\ senders' = senders \ {c}
    /\ tasks' = Goto(c, IF tasks[c].st = "stopping" THEN "close_dead" ELSE "close_arch")
    /\ UNCHANGED << rows, queue, watchers, mishap >>

\* Mutant: a connection without an entry closes without resolving its builds.
CloseArchReturns(c) ==
    /\ tasks[c].pc = "close_arch"
    /\ tasks' = [tasks EXCEPT ![c] =
          IF workers[c] \in {"connected", "disconnected"}
          THEN [@ EXCEPT !.pc = "close_disconnected"] ELSE Task("closed", "closed")]
    /\ UNCHANGED << rows, queue, senders, watchers, mishap >>

CloseArch(c) ==
    /\ tasks[c].pc = "close_arch"
    /\ tasks' = Goto(c, IF workers[c] \in {"connected", "disconnected"}
                        THEN "close_disconnected" ELSE "close_dead")
    /\ UNCHANGED << rows, queue, senders, watchers, mishap >>

\* set_worker_state: nothing happens to a connection without an entry.
SetWorkerState(c, st) ==
    workers' = IF workers[c] = "absent" THEN workers ELSE [workers EXCEPT ![c] = st]

CloseDisconnected(c) ==
    /\ tasks[c].pc = "close_disconnected"
    /\ SetWorkerState(c, "disconnected")
    /\ Spawn(c, Task("closed", "closed"), [Task("grace_wait", "idle") EXCEPT !.c = c])
    /\ UNCHANGED << rows, lanes, active, senders, watchers, mishap >>

CloseDead(c) ==
    /\ tasks[c].pc = "close_dead"
    /\ SetWorkerState(c, "dead")
    /\ tasks' = [tasks EXCEPT ![c] = [Task("dead_snapshot", "closed") EXCEPT !.c = c]]
    /\ UNCHANGED << rows, lanes, active, senders, watchers, mishap >>

GraceExpired(t) ==
    /\ tasks[t].pc = "grace_wait"
    /\ tasks' = IF workers[tasks[t].c] = "disconnected" THEN Goto(t, "grace_dead")
                ELSE Return(t)
    /\ UNCHANGED << rows, queue, senders, watchers, mishap >>

\* Mutant: the worker is marked dead and its builds stay.
GraceDeadKeepsBuilds(t) ==
    /\ tasks[t].pc = "grace_dead"
    /\ SetWorkerState(tasks[t].c, "dead")
    /\ tasks' = Return(t)
    /\ UNCHANGED << rows, lanes, active, senders, watchers, mishap >>

GraceDead(t) ==
    /\ tasks[t].pc = "grace_dead"
    /\ SetWorkerState(tasks[t].c, "dead")
    /\ tasks' = Goto(t, "dead_snapshot")
    /\ UNCHANGED << rows, lanes, active, senders, watchers, mishap >>

\* force_disconnect_worker, called by deregistration and token rotation.
ForceDisconnect(s, c) ==
    /\ "force_disconnect" \in Events
    /\ tasks[s] = Idle
    /\ workers[c] \in Registered
    /\ workers' = [workers EXCEPT ![c] = "absent"]
    /\ tasks' = [tasks EXCEPT ![s] = [Task("fd_sender", "reply") EXCEPT !.c = c]]
    /\ UNCHANGED << rows, lanes, active, senders, watchers, mishap >>

ForceSender(t) ==
    /\ tasks[t].pc = "fd_sender"
    /\ senders' = senders \ {tasks[t].c}
    /\ tasks' = Goto(t, "dead_snapshot")
    /\ UNCHANGED << rows, queue, watchers, mishap >>

(***************************************************************************)
(* The server stops at any point and starts again: run_startup_recovery.   *)
(***************************************************************************)
\* The order in which recovery re-enqueues: by submission.
Ascending == {s \in UNION {[1 .. n -> Builds] : n \in 0 .. MaxBuilds} :
                 \A i, j \in DOMAIN s : i < j => s[i] < s[j]}
\* Mutant: the default arm of the priority match is missing.
RecoveredNamed(p) ==
    {b \in Builds : db[b] = "queued" /\ PrioOf[b] = p /\ p # "normal" /\ b \notin Corrupt}
Recovered(p) == {b \in Builds : db[b] = "queued" /\ PrioOf[b] = p /\ b \notin Corrupt}

Restart ==
    /\ "restart" \in Events
    /\ db' = [b \in Builds |->
          CASE db[b] \in {"dispatched", "started"}     -> "failure"
            [] db[b] = "revoking"                      -> "revoked"
            [] db[b] = "queued" /\ b \in Corrupt       -> "failure"
            [] OTHER                                   -> db[b]]
    /\ log' = [b \in Builds |->
          IF db[b] \in InFlight /\ log[b] = "open" THEN "finished" ELSE log[b]]
    /\ \E ls \in [Priorities -> Ascending] :
          /\ \A p \in Priorities : {ls[p][i] : i \in DOMAIN ls[p]} = Recovered(p)
          /\ lanes' = ls
    /\ active' = [b \in Builds |-> NoActive]
    /\ workers' = [c \in Conns |-> "absent"]
    /\ senders' = {}
    /\ watchers' = {}
    /\ tasks' = [t \in Tasks |->
          IF t \notin Conns THEN Idle
          ELSE IF tasks[t].pc = "new" THEN tasks[t] ELSE Task("closed", "closed")]
    /\ mishap' = {}
    /\ UNCHANGED dbWorker

(***************************************************************************)
(* The specification.                                                      *)
(***************************************************************************)
\* A step of the server on behalf of task t.
Step(t) ==
    \/ SubmitLog(t) \/ SubmitEnqueue(t)
    \/ NothingToDispatch(t) \/ Dispatch(t) \/ SendNew(t) \/ ArmAck(t)
    \/ AckTimeout(t)
    \/ RollbackTake(t) \/ RollbackDb(t) \/ RollbackEnqueue(t) \/ RollbackWatcher(t)
    \/ FinishDb(t) \/ FinishLog(t) \/ FinishActive(t) \/ FinishWatcher(t)
    \/ AcceptedCancel(t) \/ StartedDb(t)
    \/ IdleReconcileOne(t) \/ DeadSnapshot(t) \/ ResolveDeadBuild(t)
    \/ RevokeRemove(t) \/ RevokeMark(t)
    \/ RevokeLookup(t) \/ RevokeDb(t) \/ RevokeSend(t) \/ RevokeTimeout(t)
    \/ GraceExpired(t) \/ GraceDead(t) \/ ForceSender(t)

ConnStep(c) ==
    \/ Supersede(c) \/ AddSender(c) \/ Welcome(c) \/ Attach(c) \/ Resume(c)
    \/ CloseCheck(c) \/ CloseSender(c) \/ CloseArch(c)
    \/ CloseDisconnected(c) \/ CloseDead(c)

\* A message of the worker at the other end of c.
Message(c) ==
    \/ \E b \in Builds :
         \/ BuildAccepted(c, b) \/ BuildStarted(c, b) \/ BuildOutput(c, b)
         \/ BuildFinished(c, b) \/ BuildRejected(c, b) \/ StatusBuilding(c, b)
    \/ StatusIdle(c)
    \/ WorkerStopping(c)

Request(s) ==
    \/ \E b \in Builds : SubmitInsert(s, b) \/ RevokeRequest(s, b)
    \/ \E c \in Conns : ForceDisconnect(s, c)

Next ==
    \/ \E t \in Tasks : Step(t) \/ Drop(t) \/ DropInDispatch(t)
    \/ \E c \in Conns : ConnStep(c) \/ Register(c) \/ HelloRefused(c) \/ Message(c)
    \/ \E s \in Slots : Request(s)
    \/ SweepTick
    \/ Restart

\* Tasks make progress and the sweep ticks; clients, workers and crashes need
\* not happen.
Fairness ==
    /\ \A t \in Tasks : WF_vars(Step(t))
    /\ \A c \in Conns : WF_vars(ConnStep(c))
    /\ WF_vars(SweepTick)

Spec == Init /\ [][Next]_vars
FairSpec == Spec /\ Fairness

(***************************************************************************)
(* Properties.                                                             *)
(***************************************************************************)
WorkerStates == {"absent", "dead"} \union Registered
Receipts == {"awaiting", "received"}
Pcs == {"idle", "new", "recv", "closed", "supersede", "add_sender", "welcome",
        "close_check", "close_sender", "close_arch", "close_disconnected", "close_dead",
        "submit_log", "submit_enqueue", "try_dispatch", "send_new", "arm_ack",
        "ack_wait", "rollback_take", "rollback_db", "rollback_enqueue",
        "rollback_watcher", "fin_db", "fin_log", "fin_active", "fin_watcher",
        "done_db", "done_active", "done_log", "done_watcher", "remove_only",
        "accepted", "started_db", "attach", "resume", "resolve_idle", "resolve_dead",
        "dead_snapshot", "revoke_remove", "revoke_mark", "revoke_lookup", "revoke_db",
        "revoke_send", "revoke_wait", "grace_wait", "grace_dead", "fd_sender"}
Returns == {"idle", "reply", "recv", "closed", "add_sender"}
Candidates == [b : Builds, receipt : Receipts, live : BOOLEAN]
TaskRecords == [pc : Pcs, b : Builds \union {0}, c : Conns \union {None},
                st : {"none"} \union Terminal \union Registered,
                todo : SUBSET Candidates, tok : Tokens \union {0},
                then : Returns \union {"try_dispatch", "resolve_idle", "resolve_dead"},
                ret : Returns]
ActiveRecords == [conn : Conns \union {None}, receipt : Receipts,
                  cancelled : BOOLEAN, tok : Tokens \union {0}]

\* Every variable stays within its type.
TypeOK ==
    /\ db \in [Builds -> DbStates]
    /\ dbWorker \in [Builds -> Workers \union {None}]
    /\ log \in [Builds -> {"none", "open", "finished"}]
    /\ lanes \in [Priorities -> Seq(Builds)]
    /\ active \in [Builds -> ActiveRecords]
    /\ workers \in [Conns -> WorkerStates]
    /\ senders \subseteq Conns
    /\ watchers \subseteq Builds
    /\ tasks \in [Tasks -> TaskRecords]
    /\ mishap \subseteq Builds

\* Task t holds build b between taking it from, and putting it into, the queue.
Carries(t, b) ==
    /\ tasks[t].b = b
    /\ tasks[t].pc \in {"submit_log", "submit_enqueue", "rollback_db", "rollback_enqueue"}

\* A build is in one place at most, and there once: at one position of one
\* lane, in the active map, or in the hands of one task that submits it or
\* rolls it back.  So no interleaving of submission, dispatch, rejection, ack
\* timeout, dead-worker resolution, idle reconciliation and revocation, no
\* dropped handler, failed statement or restart, queues or runs a build twice.
SingleHolder ==
    \A b \in Builds :
        /\ \A p, q \in Priorities : \A i \in DOMAIN lanes[p], j \in DOMAIN lanes[q] :
              lanes[p][i] = b /\ lanes[q][j] = b => p = q /\ i = j
        /\ QueueContains(lanes, b) => ~IsActive(b)
        /\ \A t \in Tasks : Carries(t, b) =>
              /\ ~QueueContains(lanes, b)
              /\ ~IsActive(b)
              /\ \A u \in Tasks : Carries(u, b) => u = t

\* A registered worker has at most one entry that is not dead, through any
\* overlap of reconnections, closing connections, grace monitors and forced
\* disconnections.
OneEntryPerWorker ==
    \A c, d \in Conns :
        workers[c] \in Registered /\ workers[d] \in Registered
            /\ WorkerOf[c] = WorkerOf[d] => c = d

\* A build whose row says queued is in a lane, or in the hands of a task that
\* will queue or revoke it: unless a statement failed or a handler was
\* dropped, no queued build is forgotten by the queue.
QueuedIsHeld ==
    \A b \in Builds \ mishap :
        db[b] = "queued" =>
            \/ QueueContains(lanes, b)
            \/ \E t \in Tasks : Carries(t, b)
            \/ \E t \in Tasks : tasks[t].b = b /\ tasks[t].pc = "revoke_mark"

\* A row in revoking has a task that will finalise it: the revocation that is
\* about to start the timer, the timer, or a finisher.
RevokingHasFinisher ==
    \A b \in Builds \ mishap :
        db[b] = "revoking" => \E t \in Tasks :
            /\ tasks[t].b = b
            /\ tasks[t].pc \in {"revoke_send", "revoke_wait", "fin_db", "done_db"}

\* Connection c still has its close or dead-worker resolution ahead of it.
Attended(c) ==
    \/ tasks[c].pc # "closed" /\ ~(tasks[c].ret = "closed" /\
          tasks[c].pc \in {"resolve_dead", "try_dispatch", "send_new", "arm_ack"})
    \/ \E t \in Tasks : tasks[t].c = c /\ tasks[t].pc \in
          {"grace_wait", "grace_dead", "supersede", "dead_snapshot", "fd_sender"}

\* An active entry always has something that will take it away if its worker
\* never speaks again: its connection is not yet past its cleanup, or some
\* task is resolving the build.
ActiveHasGuardian ==
    \A b \in Builds \ mishap :
        IsActive(b) =>
            \/ Attended(active[b].conn)
            \/ \E t \in Tasks : tasks[t].b = b \/ \E x \in tasks[t].todo : x.b = b

\* Task t is an ack timer of build b whose sleep is still running.
Waiting(t, b) == tasks[t].pc = "ack_wait" /\ tasks[t].b = b

\* A timer that sleeps belongs to the entry that is active now and not yet
\* acknowledged: no timer of an earlier dispatch is left to wake up in the next
\* one, and a cancelled token has no sleeper.
TimerMatchesEntry ==
    \A t \in Tasks, b \in Builds : Waiting(t, b) /\ IsActive(b) =>
        tasks[t].tok = active[b].tok /\ ~active[b].cancelled

(***************************************************************************)
(* Progress, under Fairness.                                               *)
(***************************************************************************)
\* A revocation ends, whether or not the worker answers.
RevokeCompletes == \A b \in Builds : db[b] = "revoking" ~> db[b] # "revoking"

\* A build assigned to a connection that is gone is taken from it.
OrphanReleased ==
    \A b \in Builds : \A c \in Conns :
        Owns(c, b) /\ tasks[c].pc = "closed" ~> ~Owns(c, b)

\* The queue does not stand still while the worker its head needs is idle.
HeadDispatched ==
    []<>~(HasPending(lanes) /\ IdleMatching(NextPending(lanes)) # {})

(***************************************************************************)
(* What the documentation says and the code does not keep.                 *)
(***************************************************************************)
\* A build revoked while queued is never dispatched: the DELETE table has it
\* removed from its lane and marked revoked synchronously.
RevokedIsFinal ==
    [][\A b \in Builds : db[b] = "revoked" => db'[b] # "dispatched"]_vars

\* Task t is an ack timer of build b whose sleep has elapsed; its rollback is
\* about to take the queue lock.
Elapsed(t, b) == tasks[t].pc = "rollback_take" /\ tasks[t].b = b /\ tasks[t].tok # 0

\* An ack timer never re-queues a build its worker has already acknowledged.
AcknowledgedNotRequeued ==
    \A t \in Tasks, b \in Builds :
        Elapsed(t, b) /\ IsActive(b) => active[b].receipt = "awaiting"

\* The rollback of an ack timer is about the dispatch that started the timer.
ElapsedMatchesEntry ==
    \A t \in Tasks, b \in Builds :
        Elapsed(t, b) /\ IsActive(b) => tasks[t].tok = active[b].tok
=============================================================================
