-------------------------- MODULE ServerInvariants ---------------------------
(***************************************************************************)
(* The inductive invariants of BuildServer.                                *)
(*                                                                         *)
(* IInv has the types and SingleHolder.  SingleHolder needs to know that a *)
(* task has a build in hand wherever its next step uses one (TasksOK), and *)
(* that a build whose row does not exist yet is nowhere (Known), so that a *)
(* submission starts from a build nobody holds.                            *)
(*                                                                         *)
(* LInv has what the tasks keep true together, and rests on IInv.  A       *)
(* sleeping timer must also keep its build out of the lanes and out of the *)
(* hands of tasks (TimersOK), since a build that is re-queued and          *)
(* dispatched again gets a new entry; and a dead entry must belong to a    *)
(* connection that is past its cleanup (ConnsOK), since a message or a     *)
(* closing stream could otherwise bring the entry back to life.            *)
(*                                                                         *)
(* GInv has ActiveHasGuardian in the form in which a step keeps it.  A     *)
(* task that merely mentions a build, or a monitor whose worker is no      *)
(* longer disconnected, will not take the build away; GInv names the tasks *)
(* that will (Takes) and the connections whose builds are going to be      *)
(* listed (Watched).                                                       *)
(***************************************************************************)
EXTENDS ServerCustody

\* Steps at which a task carries its build, as in Carries.
CarryPcs == {"submit_log", "submit_enqueue", "rollback_db", "rollback_enqueue"}

\* Steps that do not use the build of the task.
NoBuildPcs == {"idle", "new", "recv", "closed", "supersede", "add_sender", "welcome",
    "close_check", "close_sender", "close_arch", "close_disconnected", "close_dead",
    "try_dispatch", "resolve_idle", "resolve_dead", "dead_snapshot", "grace_wait",
    "grace_dead", "fd_sender"}

\* Steps that use the connection of the task.
ConnPcs == {"supersede", "send_new", "dead_snapshot", "grace_wait", "grace_dead",
    "fd_sender"}

\* A task record that some step of the server may have produced.
GoodTask(r) ==
    /\ r \in TaskRecords
    /\ r.pc \notin NoBuildPcs => r.b \in Builds
    /\ r.pc \in {"fin_db", "done_db"} => r.st \in Terminal
    /\ r.pc \in ConnPcs => r.c \in Conns
    /\ r.b \in Builds => db[r.b] # "none"
    /\ \A x \in r.todo : db[x.b] # "none"

TasksOK == tasks \in [Tasks -> TaskRecords] /\ \A t \in Tasks : GoodTask(tasks[t])

\* A build that was never submitted is nowhere.
Known == \A b \in Builds : db[b] = "none" => ~QueueContains(lanes, b) /\ ~IsActive(b)

IInv == TypeOK /\ TasksOK /\ SingleHolder /\ Known

\* Steps at which a task holds a queued build, and at which it will end a
\* revocation.
HeldPcs == CarryPcs \union {"revoke_mark"}
FinishPcs == {"revoke_send", "revoke_wait", "fin_db", "done_db"}
GracePcs == {"grace_wait", "grace_dead"}
SubmitPcs == {"submit_log", "submit_enqueue"}

\* Steps of a connection before handle_worker_dead or its end.
OpenPcs == {"new", "recv", "supersede", "add_sender", "welcome", "close_check",
            "close_sender", "close_arch", "close_disconnected", "close_dead"}
Past(c) == tasks[c].ret = "closed" /\ tasks[c].pc \notin OpenPcs

Held(b) ==
    \/ QueueContains(lanes, b)
    \/ \E t \in Tasks : tasks[t].b = b /\ tasks[t].pc \in HeldPcs
Finishing(b) == \E t \in Tasks : tasks[t].b = b /\ tasks[t].pc \in FinishPcs

TimersOK ==
    \A t \in Tasks, b \in Builds : Waiting(t, b) =>
        /\ ~QueueContains(lanes, b)
        /\ \A u \in Tasks : ~Carries(u, b)
        /\ IsActive(b) => tasks[t].tok = active[b].tok /\ ~active[b].cancelled

ConnsOK ==
    /\ \A c \in Conns : workers[c] = "dead" => Past(c)
    /\ \A t \in Tasks : tasks[t].pc \in GracePcs => Past(tasks[t].c)
    /\ \A c \in Conns : tasks[c].pc = "new" => workers[c] = "absent"
    /\ \A c \in Conns : tasks[c].pc \notin SubmitPcs \union {"ack_wait"}

LInv == TimersOK /\ ConnsOK /\ OneEntryPerWorker /\ QueuedIsHeld /\ RevokingHasFinisher

\* Steps of the helpers that resolve_dead runs for a candidate, and its own.
HelperPcs == {"rollback_take", "rollback_db", "rollback_enqueue", "rollback_watcher",
    "fin_db", "fin_log", "fin_active", "fin_watcher", "remove_only", "resolve_dead"}

\* Steps at which a task will drop the active entry of its build.
TakePcs == {"rollback_take", "fin_db", "fin_log", "fin_active", "done_db", "done_active",
    "remove_only"}

\* Steps at which a task will list the builds of its connection.
SnapshotPcs == {"grace_dead", "dead_snapshot", "fd_sender"}

\* The task with record r will drop the entry of b, or has b on the list of a
\* dead worker's builds.
Takes(r, b) ==
    \/ r.b = b /\ r.pc \in TakePcs
    \/ (r.pc = "resolve_dead" \/ r.then = "resolve_dead") /\ \E x \in r.todo : x.b = b
Lists(r, c) == r.c = c /\ r.pc \in SnapshotPcs
Monitors(r, c) == r.c = c /\ r.pc = "grace_wait"
IsPast(r) == r.ret = "closed" /\ r.pc \notin OpenPcs

\* The builds of connection c will be listed: by its own cleanup, by its grace
\* monitor, or by a task that is about to do so.
Watched(c) ==
    \/ ~IsPast(tasks[c]) /\ tasks[c].pc # "close_disconnected"
    \/ tasks[c].pc = "close_disconnected" /\ workers[c] # "absent"
    \/ workers[c] = "disconnected" /\ \E t \in Tasks : Monitors(tasks[t], c)
    \/ \E t \in Tasks : Lists(tasks[t], c)
Guarded(b) == Watched(active[b].conn) \/ \E t \in Tasks : Takes(tasks[t], b)

\* Where a task goes on after a helper and after its handler.
GoodReturn(r) ==
    /\ r.then = "resolve_dead" => r.pc \in HelperPcs
    /\ r.pc \in {"attach", "resume"} => r.ret = "recv"
    /\ r.pc = "supersede" => r.ret = "add_sender"
    /\ r.pc = "closed" => r.ret = "closed"
    /\ r.pc \in GracePcs => r.ret = "idle"

GInv ==
    /\ \A t \in Tasks : GoodReturn(tasks[t])
    /\ \A c \in Conns : workers[c] = "connected" => ~IsPast(tasks[c])
    /\ \A b \in Builds : IsActive(b) => tasks[active[b].conn].pc # "new"
    /\ \A b \in Builds \ mishap : IsActive(b) => Guarded(b)
=============================================================================
