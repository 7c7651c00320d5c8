-------------------------- MODULE WorkerSupervisor --------------------------
(***************************************************************************)
(* The worker process: the supervisor of the active build, which outlives  *)
(* connections (cbsd-worker/src/build/supervisor.rs), the websocket loop   *)
(* that serves it (src/ws/handler.rs, src/ws/connection.rs), the streamer  *)
(* of the subprocess' output, the metrics sampler of a connection          *)
(* (src/metrics/sampler.rs), and SIGTERM (src/signal.rs).                  *)
(*                                                                         *)
(* One action is what a task does between two suspension points.  The      *)
(* supervisor's mutex is held across a suspension point in one place only, *)
(* the send on the outbound channel of the connection, so the lock is the  *)
(* streamer waiting there; every other critical section is one step        *)
(* that waits for LockFree.                                                *)
(*                                                                         *)
(* The server is the environment: it may send any message at any time, and *)
(* a connection may fail at any send or receive.  An output message is its *)
(* number in the output of its build, and 0 is the BuildFinished that ends *)
(* it.  A build stands for one execution of it.                            *)
(***************************************************************************)
EXTENDS Naturals, Sequences

CONSTANTS
    Builds,      \* executions the server may dispatch to this worker
    None,        \* no build
    MaxOutput,   \* output messages a build may produce
    ChanCap,     \* OUTPUT_CHANNEL_CAPACITY
    SpoolCap,    \* spool budget, in messages
    Retirers,    \* retire tasks in flight at a time
    SampleCap,   \* metrics samples on the channel at a time
    Events       \* the optional events of the environment that may happen

ASSUME BoundsAssumption == MaxOutput \in Nat /\ ChanCap \in Nat \ {0} /\ SpoolCap \in Nat
ASSUME IdentityAssumption == None \notin Builds

Fin == 0
\* BuildOutput and BuildFinished.
Messages == [b : Builds, n : 0 .. MaxOutput]
\* A metrics sample belongs to no build, and its number to no output.
Metrics == [b |-> None, n |-> MaxOutput + 1]
Frames == Messages \union {Metrics}
Phases == {"accepted", "started", "revoking", "terminal"}
AllEvents == {"revoke", "reject", "sigterm", "spool_error", "stream_error", "drop",
              "metrics"}

VARIABLES
    active,     \* SupervisorState.active
    transport,  \* SupervisorState.transport: "none", "live", or "closed" when its
                \* receiver is gone
    chan,       \* messages in the outbound channel of the connection
    spool,      \* contents of the spool file of each build
    ws,         \* the task of reconnect_loop and run_connection
    streamer,   \* run_output_streamer of each build
    proc,       \* the subprocess of each build
    retire,     \* spawned retire tasks
    stopping,   \* ShutdownState.stopping
    woken,      \* the waiter registered at the last select was notified
    sent,       \* history: what has been put on the wire of each build's output
    overrun     \* history: builds whose spool exceeded its budget or met an I/O error

vars == << active, transport, chan, spool, ws, streamer, proc, retire, stopping, woken,
           sent, overrun >>
supervisor == << active, transport, spool >>
build == << streamer, proc, retire >>

NoBuild == [b |-> None, phase |-> "accepted", exec |-> FALSE, task |-> FALSE,
            pending |-> FALSE, path |-> FALSE, bytes |-> 0, exhausted |-> FALSE]
Accepted(b) == [NoBuild EXCEPT !.b = b, !.exec = TRUE]
NoRetire == [pc |-> "idle", b |-> None, task |-> FALSE, exec |-> FALSE, path |-> FALSE]
At(pc) == [pc |-> pc, b |-> None, todo |-> << >>, task |-> FALSE, exec |-> FALSE,
           path |-> FALSE]

Init ==
    /\ active = NoBuild
    /\ transport = "none"
    /\ chan = << >>
    /\ spool = [b \in Builds |-> << >>]
    /\ ws = At("connect")
    /\ streamer = [b \in Builds |-> [pc |-> "none", n |-> 0, made |-> 0]]
    /\ proc = [b \in Builds |-> "none"]
    /\ retire = [i \in Retirers |-> NoRetire]
    /\ stopping = FALSE
    /\ woken = FALSE
    /\ sent = [b \in Builds |-> << >>]
    /\ overrun = {}

-----------------------------------------------------------------------------
(* The supervisor's mutex and its helpers *)

LockFree == \A b \in Builds : streamer[b].pc # "send"

\* BuildExecutor::kill; SIGKILL follows if SIGTERM does not end the process.
Kill(b) == [proc EXCEPT ![b] = IF @ = "running" THEN "killed" ELSE @]
\* Mutant: the executor is not told.
KillNothing == proc
KillActive == IF active.exec THEN Kill(active.b) ELSE proc

\* The connection is over: run_connection has returned and dropped its receiver.
Leave ==
    /\ ws' = At("detach")
    /\ chan' = << >>
    /\ transport' = IF transport = "live" THEN "closed" ELSE transport

\* One send on the socket: it fails, and the connection with it, or it succeeds
\* and the loop goes on at record next.
Send(next) ==
    \/ /\ ws' = next
       /\ UNCHANGED << chan, transport >>
    \/ "drop" \in Events /\ Leave

\* A message of the build's own output is on the wire.
OnWire(m) == sent' = IF m = Metrics THEN sent ELSE [sent EXCEPT ![m.b] = Append(@, m.n)]

\* Mutant: a build that was reported is not retired.
NoRetireSpawned(m) == UNCHANGED retire
\* A BuildFinished on the wire starts a retire task.
SpawnRetire(m) ==
    IF m.n = Fin
    THEN \E i \in Retirers :
           /\ retire[i].pc = "idle"
           /\ retire' = [retire EXCEPT ![i] = [NoRetire EXCEPT !.pc = "take", !.b = m.b]]
    ELSE UNCHANGED retire

-----------------------------------------------------------------------------
(* reconnect_loop, and the part of run_connection before its message loop *)

Connect ==
    /\ ws.pc = "connect"
    /\ ws' = At(IF stopping THEN "exit" ELSE "dial")
    /\ UNCHANGED << supervisor, chan, build, stopping, woken, sent, overrun >>

\* connect: the server takes the connection and the worker's key, or not.
Dial ==
    /\ ws.pc = "dial"
    /\ \/ ws' = At("hello")
       \/ "drop" \in Events /\ ws' = At(IF stopping THEN "exit" ELSE "backoff")
    /\ UNCHANGED << supervisor, chan, build, stopping, woken, sent, overrun >>

SendHello ==
    /\ ws.pc = "hello"
    /\ Send(At("welcome"))
    /\ UNCHANGED << active, spool, build, stopping, woken, sent, overrun >>

\* wait_for_welcome, which ignores messages of other types; an Error, a frame it
\* cannot parse or a close ends the connection.
WaitForWelcome ==
    /\ ws.pc = "welcome"
    /\ \/ ws' = At("attach") /\ UNCHANGED << chan, transport >>
       \/ "drop" \in Events /\ Leave
    /\ UNCHANGED << active, spool, build, stopping, woken, sent, overrun >>

AttachTransport ==
    /\ ws.pc = "attach" /\ LockFree
    /\ transport' = "live"
    /\ chan' = << >>
    /\ ws' = At("take")
    /\ UNCHANGED << active, spool, build, stopping, woken, sent, overrun >>

HasTerminal == active.phase = "terminal" /\ active.pending
\* Mutant: the pending terminal is copied.
ReportedKeepsTerminal == active
\* The record after the reconnect snapshot: a pending terminal is taken.
Reported == [active EXCEPT !.pending = @ /\ ~HasTerminal]

\* take_reconnect_messages, under the lock: what to report is snapshotted.
TakeReconnect ==
    /\ ws.pc = "take" /\ LockFree
    /\ LET path == active.path /\ active.bytes > 0 IN
       IF active.b = None
       THEN ws' = At("status") /\ UNCHANGED active
       ELSE /\ ws' = [At(IF path THEN "drain" ELSE "status") EXCEPT
                        !.b = active.b,
                        !.todo = IF HasTerminal THEN << [b |-> active.b, n |-> Fin] >>
                                 ELSE << >>]
            /\ active' = Reported
    /\ UNCHANGED << transport, chan, spool, build, stopping, woken, sent, overrun >>

\* The spool file is read and then removed, without the lock; the messages of a
\* file that cannot be read are lost, and a file that cannot be removed stays.
DrainSpool ==
    /\ ws.pc = "drain"
    /\ \/ /\ ws' = [ws EXCEPT !.pc = "unlink", !.todo = spool[ws.b] \o @]
          /\ UNCHANGED overrun
       \/ /\ "spool_error" \in Events
          /\ ws' = [ws EXCEPT !.pc = "unlink"]
          /\ overrun' = overrun \union {ws.b}
    /\ UNCHANGED << supervisor, chan, build, stopping, woken, sent >>

\* Mutant: the drained file is left in place.
DrainedFile(file) == file
RemovedFile(file) == << >>

RemoveSpool ==
    /\ ws.pc = "unlink"
    /\ \/ /\ spool' = [spool EXCEPT ![ws.b] = RemovedFile(@)]
          /\ UNCHANGED overrun
       \/ /\ "spool_error" \in Events
          /\ overrun' = overrun \union {ws.b}
          /\ UNCHANGED spool
    /\ ws' = [ws EXCEPT !.pc = "drained"]
    /\ UNCHANGED << active, transport, chan, build, stopping, woken, sent >>

SpoolDrained ==
    /\ ws.pc = "drained" /\ LockFree
    /\ active' = IF active.b = ws.b THEN [active EXCEPT !.bytes = 0, !.path = FALSE] ELSE active
    /\ ws' = [ws EXCEPT !.pc = "status"]
    /\ UNCHANGED << transport, chan, spool, build, stopping, woken, sent, overrun >>

\* WorkerStatus is sent: Building of ws.b, or Idle when ws.b is None.
SendStatus ==
    /\ ws.pc = "status"
    /\ Send([ws EXCEPT !.pc = "flush", !.b = None])
    /\ UNCHANGED << active, spool, build, stopping, woken, sent, overrun >>

Flush ==
    /\ ws.pc = "flush" /\ ws.todo # << >>
    /\ \/ /\ ws' = [ws EXCEPT !.todo = Tail(@)]
          /\ OnWire(Head(ws.todo))
          /\ SpawnRetire(Head(ws.todo))
          /\ UNCHANGED << chan, transport >>
       \/ /\ "drop" \in Events
          /\ Leave
          /\ UNCHANGED << sent, retire >>
    /\ UNCHANGED << active, spool, streamer, proc, stopping, woken, overrun >>

Flushed ==
    /\ ws.pc = "flush" /\ ws.todo = << >>
    /\ ws' = At("loop")
    /\ UNCHANGED << supervisor, chan, build, stopping, woken, sent, overrun >>

DetachTransport ==
    /\ ws.pc = "detach" /\ LockFree
    /\ transport' = "none"
    /\ ws' = At(IF stopping THEN "exit" ELSE "backoff")
    /\ UNCHANGED << active, chan, spool, build, stopping, woken, sent, overrun >>

\* The delay is over, or the waiter was notified of the shutdown.
Backoff ==
    /\ ws.pc = "backoff"
    /\ ws' = At("connect") \/ (woken /\ ws' = At("exit"))
    /\ woken' = FALSE
    /\ UNCHANGED << supervisor, chan, build, stopping, sent, overrun >>

-----------------------------------------------------------------------------
(* The message loop of run_connection: taking any branch of the select drops  *)
(* the waiter for the shutdown, and with it a notification that had arrived.  *)

\* A build is dispatched at most once here.
ReceiveBuildNew(b) ==
    /\ ws.pc = "loop" /\ proc[b] = "none"
    /\ ws' = [ws EXCEPT !.pc = "new_check", !.b = b]
    /\ woken' = FALSE
    /\ UNCHANGED << supervisor, chan, build, stopping, sent, overrun >>

ReceiveBuildRevoke(b) ==
    /\ "revoke" \in Events
    /\ ws.pc = "loop"
    /\ ws' = [ws EXCEPT !.pc = "revoke", !.b = b]
    /\ woken' = FALSE
    /\ UNCHANGED << supervisor, chan, build, stopping, sent, overrun >>

\* A frame the loop ignores: a ping, a message that does not parse, a second
\* Welcome, or the UnauthorizedBuildAction that answers a stale message.
ReceiveIgnored ==
    /\ ws.pc = "loop"
    /\ woken' = FALSE
    /\ UNCHANGED << supervisor, chan, ws, build, stopping, sent, overrun >>

\* A close frame, a receive error, or an Error message of the server.
ConnectionLost ==
    /\ "drop" \in Events
    /\ ws.pc = "loop"
    /\ Leave
    /\ woken' = FALSE
    /\ UNCHANGED << active, spool, build, stopping, sent, overrun >>

\* The next message of the outbound channel, sent or lost with the connection.
ForwardOutput ==
    /\ ws.pc = "loop" /\ chan # << >>
    /\ woken' = FALSE
    /\ \/ /\ chan' = Tail(chan)
          /\ OnWire(Head(chan))
          /\ SpawnRetire(Head(chan))
          /\ UNCHANGED << ws, transport >>
       \/ /\ "drop" \in Events
          /\ Leave
          /\ UNCHANGED << sent, retire >>
    /\ UNCHANGED << active, spool, streamer, proc, stopping, overrun >>

\* The shutdown branch: WorkerStopping is sent, whether or not that succeeds.
ShutdownNotified ==
    /\ ws.pc = "loop" /\ woken
    /\ woken' = FALSE
    /\ ws' = At("sd_take")
    /\ UNCHANGED << supervisor, chan, build, stopping, sent, overrun >>

-----------------------------------------------------------------------------
(* The metrics sampler *)

\* The sampler is spawned when the loop is entered and aborted when
\* run_connection returns.
Sampling == ws.pc \in {"loop", "new_check", "new_tarball", "spawn", "register", "started",
                       "mark", "attach_task", "revoke", "sd_take", "sd_join", "sd_clear"}

\* send_or_count: try_send, which drops the sample when the channel is full.
SendOrCount == IF Len(chan) < ChanCap THEN Append(chan, Metrics) ELSE chan

\* A tick of run_sampler, whose reading of the spool takes the lock.  Its interval
\* is long against a turn of the message loop: SampleCap samples wait at a time.
Sample ==
    /\ "metrics" \in Events
    /\ Sampling /\ LockFree
    /\ Len(SelectSeq(chan, LAMBDA m : m = Metrics)) < SampleCap
    /\ chan' = SendOrCount
    /\ UNCHANGED << supervisor, ws, build, stopping, woken, sent, overrun >>

-----------------------------------------------------------------------------
(* handle_build_new and BuildRevoke *)

\* Mutant: a build that only waits to be reported does not count.
BusyBuilding == active.b # None /\ active.phase # "terminal"
Busy == active.b # None

\* active_build_id: BuildRejected when a build is active.
NewCheck ==
    /\ ws.pc = "new_check" /\ LockFree
    /\ IF Busy THEN Send(At("loop"))
       ELSE ws' = [ws EXCEPT !.pc = "new_tarball"] /\ UNCHANGED << chan, transport >>
    /\ UNCHANGED << active, spool, build, stopping, woken, sent, overrun >>

\* read_binary_frame: the next frame that is not a ping, if it is binary.
ReadBinaryFrame == {"tarball"} \union IF "reject" \in Events THEN {"text", "closed"} ELSE {}
\* validate_and_unpack, after the temporary directory was made.
Unpacked(frame) == {frame = "tarball"} \union IF "reject" \in Events THEN {FALSE} ELSE {}

\* The tarball is read and unpacked: BuildAccepted, or BuildRejected.
NewTarball ==
    /\ ws.pc = "new_tarball"
    /\ \E frame \in ReadBinaryFrame : \E ok \in Unpacked(frame) :
         IF ok THEN Send([ws EXCEPT !.pc = "spawn"]) ELSE Send(At("loop"))
    /\ UNCHANGED << active, spool, build, stopping, woken, sent, overrun >>

\* spawn_build: a child that does not take its descriptor from stdin counts as
\* one that did not start.
Spawned == [proc EXCEPT ![ws.b] = "running"]

\* The subprocess starts, or BuildFinished(failure) is sent.
SpawnBuild ==
    /\ ws.pc = "spawn"
    /\ \/ /\ proc' = Spawned
          /\ ws' = [ws EXCEPT !.pc = "register"]
          /\ UNCHANGED << chan, transport >>
       \/ /\ "reject" \in Events
          /\ Send(At("loop"))
          /\ UNCHANGED proc
    /\ UNCHANGED << active, spool, streamer, retire, stopping, woken, sent, overrun >>

\* register_accepted; refused when a build is active, and then
\* BuildFinished(failure) is sent.
RegisterAccepted ==
    /\ ws.pc = "register" /\ LockFree
    /\ IF active.b = None
       THEN /\ active' = Accepted(ws.b)
            /\ ws' = [ws EXCEPT !.pc = "started"]
            /\ UNCHANGED << chan, transport >>
       ELSE Send(At("loop")) /\ UNCHANGED active
    /\ UNCHANGED << spool, build, stopping, woken, sent, overrun >>

SendStarted ==
    /\ ws.pc = "started"
    /\ Send([ws EXCEPT !.pc = "mark"])
    /\ UNCHANGED << active, spool, build, stopping, woken, sent, overrun >>

\* mark_started.
Started == IF active.b = ws.b /\ active.phase = "accepted"
           THEN [active EXCEPT !.phase = "started"] ELSE active

\* The build is marked as started, then the streamer is spawned.
MarkStarted ==
    /\ ws.pc = "mark" /\ LockFree
    /\ active' = Started
    /\ streamer' = [streamer EXCEPT ![ws.b].pc = "read"]
    /\ ws' = [ws EXCEPT !.pc = "attach_task"]
    /\ UNCHANGED << transport, chan, spool, proc, retire, stopping, woken, sent, overrun >>

AttachOutputTask ==
    /\ ws.pc = "attach_task" /\ LockFree
    /\ active' = IF active.b = ws.b THEN [active EXCEPT !.task = TRUE] ELSE active
    /\ ws' = At("loop")
    /\ UNCHANGED << transport, chan, spool, build, stopping, woken, sent, overrun >>

\* on_build_revoke forgets a pending terminal.
Revoking == [active EXCEPT !.phase = "revoking", !.pending = FALSE]

\* The active build is killed; with no active build BuildFinished(revoked) is
\* sent.
OnBuildRevoke ==
    /\ ws.pc = "revoke" /\ LockFree
    /\ IF active.b = ws.b
       THEN /\ active' = Revoking
            /\ proc' = KillActive
            /\ ws' = At("loop")
            /\ UNCHANGED << chan, transport >>
       ELSE /\ IF active.b = None THEN Send(At("loop"))
               ELSE ws' = At("loop") /\ UNCHANGED << chan, transport >>
            /\ UNCHANGED << active, proc >>
    /\ UNCHANGED << spool, streamer, retire, stopping, woken, sent, overrun >>

-----------------------------------------------------------------------------
(* The subprocess and the streamer of its output *)

Alive == ws.pc # "exit"

ProcessExits(b) ==
    /\ proc[b] \in {"running", "killed"}
    /\ proc' = [proc EXCEPT ![b] = "exited"]
    /\ UNCHANGED << supervisor, chan, ws, streamer, retire, stopping, woken, sent, overrun >>

\* stream_output flushes a batch.
StreamOutput(b) ==
    /\ Alive /\ streamer[b].pc = "read" /\ streamer[b].made < MaxOutput
    /\ streamer' = [streamer EXCEPT ![b] = [pc |-> "have", n |-> @.made + 1, made |-> @.made + 1]]
    /\ UNCHANGED << supervisor, chan, ws, proc, retire, stopping, woken, sent, overrun >>

\* stream_output ends at end of file or with a read error, in which case the
\* subprocess may still run; either way BuildFinished is produced.
StreamEnd(b) ==
    /\ Alive /\ streamer[b].pc = "read"
    /\ proc[b] = "exited" \/ "stream_error" \in Events
    /\ streamer' = [streamer EXCEPT ![b].pc = "have", ![b].n = Fin]
    /\ UNCHANGED << supervisor, chan, ws, proc, retire, stopping, woken, sent, overrun >>

\* Mutant: the budget is compared with what is already spooled.
OverBudgetLate == active.bytes > SpoolCap
OverBudget == active.bytes + 1 > SpoolCap

\* Mutant: only the phase records that the build ended.
TerminalPhaseOnly == [active EXCEPT !.phase = "terminal"]
TerminalPending == [active EXCEPT !.phase = "terminal", !.pending = TRUE]

\* spool_and_finalize: a terminal is kept in the record and output goes to the
\* spool file; over budget or after a write error the build is killed and a
\* failure is its terminal.
SpoolAndFinalize(m) ==
    \/ /\ active.exhausted
       /\ UNCHANGED << active, spool, proc, overrun >>
    \/ /\ ~active.exhausted /\ m.n = Fin
       /\ active' = TerminalPending
       /\ UNCHANGED << spool, proc, overrun >>
    \/ /\ ~active.exhausted /\ m.n # Fin
       /\ OverBudget \/ "spool_error" \in Events
       /\ active' = [TerminalPending EXCEPT !.exhausted = TRUE, !.path = @ \/ ~OverBudget]
       /\ proc' = KillActive
       /\ overrun' = overrun \union {m.b}
       /\ UNCHANGED spool
    \/ /\ ~active.exhausted /\ m.n # Fin /\ ~OverBudget
       /\ active' = [active EXCEPT !.path = TRUE, !.bytes = @ + 1]
       /\ spool' = [spool EXCEPT ![m.b] = Append(@, m)]
       /\ UNCHANGED << proc, overrun >>

InHand(b) == [b |-> b, n |-> streamer[b].n]
Handled(b) == [streamer EXCEPT ![b].pc = IF streamer[b].n = Fin THEN "done" ELSE "read"]

\* on_output_message takes the lock: the message is dropped, put on the channel
\* or spooled, or the channel is full and the streamer waits with the lock held.
OnOutputMessage(b) ==
    /\ Alive /\ streamer[b].pc = "have" /\ LockFree
    /\ \/ /\ active.b # b
          /\ streamer' = Handled(b)
          /\ UNCHANGED << supervisor, chan, proc, overrun >>
       \/ /\ active.b = b /\ transport = "live" /\ Len(chan) < ChanCap
          /\ chan' = Append(chan, InHand(b))
          /\ streamer' = Handled(b)
          /\ UNCHANGED << supervisor, proc, overrun >>
       \/ /\ active.b = b /\ transport = "live" /\ Len(chan) >= ChanCap
          /\ streamer' = [streamer EXCEPT ![b].pc = "send"]
          /\ UNCHANGED << supervisor, chan, proc, overrun >>
       \/ /\ active.b = b /\ transport # "live"
          /\ transport' = "none"
          /\ SpoolAndFinalize(InHand(b))
          /\ streamer' = Handled(b)
          /\ UNCHANGED chan
    /\ UNCHANGED << ws, retire, stopping, woken, sent >>

\* The wait for room on the channel ends: there is room, or it was closed.
OutputSent(b) ==
    /\ Alive /\ streamer[b].pc = "send"
    /\ \/ /\ transport = "live" /\ Len(chan) < ChanCap
          /\ chan' = Append(chan, InHand(b))
          /\ UNCHANGED << supervisor, proc, overrun >>
       \/ /\ transport = "closed"
          /\ transport' = "none"
          /\ SpoolAndFinalize(InHand(b))
          /\ UNCHANGED chan
    /\ streamer' = Handled(b)
    /\ UNCHANGED << ws, retire, stopping, woken, sent >>

-----------------------------------------------------------------------------
(* retire, shutdown and SIGTERM *)

\* The record gives up its handles to the task that ends the build.
Released == [active EXCEPT !.task = FALSE, !.exec = FALSE, !.path = FALSE]

\* Mutant: the subprocess is not awaited.
StreamerJoined(h) == h.task => streamer[h.b].pc = "done"
\* The handles the record held have been awaited.
Joined(h) == /\ h.task => streamer[h.b].pc = "done"
             /\ h.exec => proc[h.b] = "exited"

RetireTake(i) ==
    /\ Alive /\ retire[i].pc = "take" /\ LockFree
    /\ IF active.b = retire[i].b
       THEN /\ retire' = [retire EXCEPT ![i].pc = "join", ![i].task = active.task,
                                        ![i].exec = active.exec, ![i].path = active.path]
            /\ active' = Released
       ELSE retire' = [retire EXCEPT ![i] = NoRetire] /\ UNCHANGED active
    /\ UNCHANGED << transport, chan, spool, ws, streamer, proc, stopping, woken, sent, overrun >>

\* The streamer and then the subprocess have been awaited, and the spool file is
\* removed.
RetireJoin(i) ==
    /\ Alive /\ retire[i].pc = "join"
    /\ Joined(retire[i])
    /\ spool' = IF retire[i].path THEN [spool EXCEPT ![retire[i].b] = << >>] ELSE spool
    /\ retire' = [retire EXCEPT ![i].pc = "clear"]
    /\ UNCHANGED << active, transport, chan, ws, streamer, proc, stopping, woken, sent, overrun >>

RetireClear(i) ==
    /\ Alive /\ retire[i].pc = "clear" /\ LockFree
    /\ active' = IF active.b = retire[i].b THEN NoBuild ELSE active
    /\ retire' = [retire EXCEPT ![i] = NoRetire]
    /\ UNCHANGED << transport, chan, spool, ws, streamer, proc, stopping, woken, sent, overrun >>

\* Supervisor::shutdown, run by the websocket loop.
ShutdownTake ==
    /\ ws.pc = "sd_take" /\ LockFree
    /\ IF active.b = None
       THEN Leave /\ UNCHANGED << active, proc >>
       ELSE /\ proc' = KillActive
            /\ ws' = [ws EXCEPT !.pc = "sd_join", !.b = active.b, !.task = active.task,
                                !.exec = active.exec, !.path = active.path]
            /\ active' = Released
            /\ UNCHANGED << chan, transport >>
    /\ UNCHANGED << spool, streamer, retire, stopping, woken, sent, overrun >>

ShutdownJoin ==
    /\ ws.pc = "sd_join"
    /\ Joined(ws)
    /\ spool' = IF ws.path THEN [spool EXCEPT ![ws.b] = << >>] ELSE spool
    /\ ws' = [ws EXCEPT !.pc = "sd_clear"]
    /\ UNCHANGED << active, transport, chan, build, stopping, woken, sent, overrun >>

ShutdownClear ==
    /\ ws.pc = "sd_clear" /\ LockFree
    /\ active' = IF active.b = ws.b THEN NoBuild ELSE active
    /\ Leave
    /\ UNCHANGED << spool, build, stopping, woken, sent, overrun >>

\* The signal handler: notify_waiters reaches a waiter registered now, and no
\* later one.
Sigterm ==
    /\ "sigterm" \in Events
    /\ Alive /\ ~stopping
    /\ stopping' = TRUE
    /\ woken' = (ws.pc \in {"loop", "backoff"})
    /\ UNCHANGED << supervisor, chan, ws, build, sent, overrun >>

-----------------------------------------------------------------------------
Awaiting == Dial \/ WaitForWelcome \/ NewTarball
Connecting == Connect \/ SendHello \/ AttachTransport \/ TakeReconnect \/ DrainSpool
              \/ RemoveSpool \/ SpoolDrained \/ SendStatus \/ Flush \/ Flushed
              \/ DetachTransport \/ Backoff
Dispatching == NewCheck \/ SpawnBuild \/ RegisterAccepted \/ SendStarted
               \/ MarkStarted \/ AttachOutputTask \/ OnBuildRevoke
Stopping == ShutdownNotified \/ ShutdownTake \/ ShutdownJoin \/ ShutdownClear
Receiving == ConnectionLost \/ ReceiveIgnored
             \/ \E b \in Builds : ReceiveBuildNew(b) \/ ReceiveBuildRevoke(b)
Streaming(b) == StreamOutput(b) \/ StreamEnd(b) \/ OnOutputMessage(b) \/ OutputSent(b)
Retiring(i) == RetireTake(i) \/ RetireJoin(i) \/ RetireClear(i)

Next ==
    \/ Awaiting \/ Connecting \/ Dispatching \/ Stopping \/ Receiving \/ ForwardOutput
    \/ Sample \/ Sigterm
    \/ \E b \in Builds : ProcessExits(b) \/ Streaming(b)
    \/ \E i \in Retirers : Retiring(i)

Spec == Init /\ [][Next]_vars

\* The runtime polls every task that can go on, and select! polls its branches in
\* random order, so that a flood of server messages does not shut out the
\* outbound channel for ever.  A send on the socket ends, with or without success.
\* kill() escalates to SIGKILL, so a killed subprocess ends.  Nothing is assumed of
\* the server, which may never take a connection, answer a Hello or send a tarball, or of a subprocess
\* that nobody killed.
Fairness ==
    /\ WF_vars(Connecting \/ Dispatching \/ Stopping)
    /\ SF_vars(ForwardOutput)
    /\ \A b \in Builds : WF_vars(Streaming(b)) /\ WF_vars(proc[b] = "killed" /\ ProcessExits(b))
    /\ \A i \in Retirers : WF_vars(Retiring(i))

FairSpec == Spec /\ Fairness

-----------------------------------------------------------------------------
(* Properties *)

\* The outcome of the build is on the wire.
Finished(b) == \E i \in DOMAIN sent[b] : sent[b][i] = Fin

WsPcs == {"connect", "dial", "hello", "welcome", "attach", "take", "drain", "unlink",
          "drained", "status",
          "flush", "detach", "backoff", "loop", "new_check", "new_tarball", "spawn",
          "register", "started", "mark", "attach_task", "revoke", "sd_take", "sd_join",
          "sd_clear", "exit"}

ActiveRecords == [b : Builds \union {None}, phase : Phases, exec : BOOLEAN, task : BOOLEAN,
                  pending : BOOLEAN, path : BOOLEAN, bytes : 0 .. SpoolCap,
                  exhausted : BOOLEAN]
WsRecords == [pc : WsPcs, b : Builds \union {None}, todo : Seq(Messages), task : BOOLEAN,
              exec : BOOLEAN, path : BOOLEAN]
StreamerRecords == [pc : {"none", "read", "have", "send", "done"}, n : 0 .. MaxOutput,
                    made : 0 .. MaxOutput]
RetireRecords == [pc : {"idle", "take", "join", "clear"}, b : Builds \union {None},
                  task : BOOLEAN, exec : BOOLEAN, path : BOOLEAN]

\* Every variable has its type; the outbound channel and the spool stay within
\* their capacities.
TypeOK ==
    /\ active \in ActiveRecords
    /\ transport \in {"none", "live", "closed"}
    /\ chan \in Seq(Frames) /\ Len(chan) <= ChanCap
    /\ spool \in [Builds -> Seq(Messages)]
    /\ ws \in WsRecords
    /\ streamer \in [Builds -> StreamerRecords]
    /\ proc \in [Builds -> {"none", "running", "killed", "exited"}]
    /\ retire \in [Retirers -> RetireRecords]
    /\ stopping \in BOOLEAN /\ woken \in BOOLEAN
    /\ sent \in [Builds -> Seq(0 .. MaxOutput)]
    /\ overrun \subseteq Builds

\* Output of a build goes on the wire in the order it was produced and at most
\* once, over all reconnects: spooled output before live output, and nothing
\* replayed (run_connection attaches the transport before it drains the spool).
OutputOrder ==
    \A b \in Builds \ overrun : \A i, j \in DOMAIN sent[b] :
      i < j /\ sent[b][j] # Fin => sent[b][i] < sent[b][j]

\* BuildFinished is the last thing a build puts on the wire and is put there once,
\* whether it travels on the channel or waits for a reconnect (on_output_message,
\* spool_and_finalize, take_reconnect_messages).
TerminalLast ==
    \A b \in Builds \ overrun : \A i \in DOMAIN sent[b] : sent[b][i] = Fin => i = Len(sent[b])

\* A worker without an active build runs no subprocess and streams no output: it
\* takes a new build, and reports Idle, only when the last one is gone (retire
\* clears the record last).
QuietWhenFree ==
    active.b = None /\ ~stopping =>
        \A b \in Builds \ overrun :
          /\ proc[b] \in {"none", "exited"} \/ (ws.pc = "register" /\ ws.b = b)
          /\ streamer[b].pc \in {"none", "done"}

\* handle_build_new checks for an active build and registers the new one much
\* later, after several awaits; no other build can have been registered by then.
RegisterNeverBusy == ws.pc = "register" => active.b = None

\* A terminal produced by the streamer is not lost: until it is on the wire it is
\* in the record, on the channel or in the hands of the connection ("a connection
\* drop cannot lose the build", supervisor.rs).
TerminalKept ==
    \A b \in Builds :
      active.b = b /\ streamer[b].pc = "done" =>
        \/ Finished(b) \/ active.pending
        \/ \E i \in DOMAIN chan : chan[i] = [b |-> b, n |-> Fin]
        \/ \E i \in DOMAIN ws.todo : ws.todo[i] = [b |-> b, n |-> Fin]

\* A stopped worker leaves no subprocess running that was not told to stop
\* ("Kill any active build and await it. Called on local worker shutdown").
ExitLeavesNoBuild == ws.pc = "exit" => \A b \in Builds : proc[b] # "running"

\* A received BuildRevoke is carried out: the loop does not wait for ever for the
\* supervisor's mutex ("never held across long awaits").
RevokeHandled == (ws.pc = "revoke") ~> (ws.pc # "revoke")

\* The end of a build's output leads to BuildFinished on the wire or pending,
\* unless the connection is lost in between.
FinishReported ==
    \A b \in Builds :
      (active.b = b /\ streamer[b].pc = "have" /\ streamer[b].n = Fin)
        ~> (Finished(b) \/ active.pending \/ b \in overrun \/ ws.pc \in {"detach", "exit"})

\* A build that was reported and whose subprocess ended leaves the worker free.
Retired ==
    \A b \in Builds :
      (Finished(b) /\ proc[b] = "exited") ~> (active.b # b \/ ws.pc = "exit")

\* A revoked build whose output is streamed ends, is reported and is retired, as
\* long as the connection lasts.
RevokeEnds ==
    \A b \in Builds :
      (ws.pc = "revoke" /\ ws.b = b /\ active.b = b /\ streamer[b].pc \notin {"none", "done"})
        ~> (active.b # b \/ b \in overrun \/ ws.pc \in {"detach", "exit"})
=============================================================================
