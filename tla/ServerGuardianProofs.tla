------------------------ MODULE ServerGuardianProofs -------------------------
(***************************************************************************)
(* Every step of BuildServer keeps GInv: an active build never loses the   *)
(* task or the connection that will take it away.                          *)
(*                                                                         *)
(* A task without a role is no guardian, whatever it does.  A guardian     *)
(* passes its role on: the closing connection to the grace monitor or to   *)
(* its own list, the monitor to the list, the list to the helper that runs *)
(* for a candidate, the helper back to what is left of the list.           *)
(***************************************************************************)
EXTENDS ServerStepProofs

\* Steps of a guardian.
RolePcs == HelperPcs \union TakePcs \union SnapshotPcs \union {"grace_wait"}
\* A task with record r has no role.
Roleless(r) == r.pc \notin RolePcs /\ r.then # "resolve_dead"

\* A task with record r may go on as q: it does not pass the cleanup of its
\* connection unseen.
Sound(r, q) ==
    /\ GoodReturn(q)
    /\ IsPast(q) => IsPast(r)
    /\ q.pc = "close_disconnected" => r.pc = "close_disconnected"
    /\ q.pc = "new" => r.pc = "new"

\* It passes its role for build b of connection c on.
Passes(r, q, b, c) ==
    /\ Takes(r, b) => Takes(q, b)
    /\ Lists(r, c) => Lists(q, c) \/ Takes(q, b)
    /\ Monitors(r, c) /\ workers[c] = "disconnected" => Monitors(q, c) \/ Lists(q, c)

\* Task u stays as it is, or had no role.
Continues(u) ==
    \/ tasks'[u] = tasks[u]
    \/ Roleless(tasks[u]) /\ Sound(tasks[u], tasks'[u])

LEMMA NoRole ==
    ASSUME NEW r, Roleless(r)
    PROVE  /\ \A b : ~Takes(r, b)
           /\ \A c : ~Lists(r, c) /\ ~Monitors(r, c)
BY DEF Roleless, RolePcs, Takes, Lists, Monitors, HelperPcs

LEMMA ContinuesFacts ==
    ASSUME GInv, NEW u \in Tasks, Continues(u)
    PROVE  Sound(tasks[u], tasks'[u]) /\ \A b, c : Passes(tasks[u], tasks'[u], b, c)
<1>1. CASE tasks'[u] = tasks[u]
  <2>1. GoodReturn(tasks[u])
    BY DEF GInv
  <2> QED BY <1>1, <2>1, ZenonT(60) DEF Sound, Passes
<1>2. CASE Roleless(tasks[u]) /\ Sound(tasks[u], tasks'[u])
  BY <1>2, NoRole, ZenonT(60) DEF Passes
<1> QED BY <1>1, <1>2, ZenonT(60) DEF Continues

\* The guardian of b passes its role on, and the connection of b stays watched.
LEMMA GuardKept ==
    ASSUME NEW b \in Builds, NEW c \in Conns, active[b].conn = c, active'[b].conn = c,
           Guarded(b), workers'[c] = workers[c], Sound(tasks[c], tasks'[c]),
           \A u \in Tasks : Passes(tasks[u], tasks'[u], b, c)
    PROVE  Guarded(b)'
<1>1. CASE \E u \in Tasks : Takes(tasks[u], b)
  BY <1>1, ZenonT(60) DEF Passes, Guarded
<1>2. CASE \E u \in Tasks : Lists(tasks[u], c)
  BY <1>2, ZenonT(60) DEF Passes, Guarded, Watched
<1>3. CASE workers[c] = "disconnected" /\ \E u \in Tasks : Monitors(tasks[u], c)
  BY <1>3, ZenonT(60) DEF Passes, Guarded, Watched
<1>4. CASE \/ ~IsPast(tasks[c]) /\ tasks[c].pc # "close_disconnected"
           \/ tasks[c].pc = "close_disconnected" /\ workers[c] # "absent"
  <2>1. ~IsPast(tasks[c])
    BY <1>4 DEF IsPast, OpenPcs
  <2>2. ~IsPast(tasks'[c])
    BY <2>1, ZenonT(60) DEF Sound
  <2>3. CASE tasks'[c].pc # "close_disconnected"
    BY <2>2, <2>3, ZenonT(60) DEF Guarded, Watched
  <2>4. CASE tasks'[c].pc = "close_disconnected"
    <3>1. tasks[c].pc = "close_disconnected"
      BY <2>4, ZenonT(60) DEF Sound
    <3> QED BY <1>4, <2>4, <3>1, ZenonT(60) DEF Guarded, Watched
  <2> QED BY <2>3, <2>4
<1> QED BY <1>1, <1>2, <1>3, <1>4, ZenonT(60) DEF Guarded, Watched

\* A connection of an active entry.
LEMMA EntryConn ==
    ASSUME IInv, NEW b \in Builds, IsActive(b)
    PROVE  active[b].conn \in Conns /\ active[b].conn \in Tasks
BY DEF IInv, TypeOK, ActiveRecords, IsActive, Tasks

\* A step that leaves the workers alone and gives no connection an entry.
Withdraws ==
    /\ workers' = workers /\ mishap \subseteq mishap'
    /\ \A b \in Builds : active'[b].conn \in {active[b].conn, None}

LEMMA GuardStep ==
    ASSUME IInv, GInv, Withdraws,
           \A u \in Tasks : Sound(tasks[u], tasks'[u]),
           \A b \in Builds \ mishap' : active'[b].conn # None =>
             \A u \in Tasks : Passes(tasks[u], tasks'[u], b, active[b].conn)
    PROVE  GInv'
<1>1. \A t \in Tasks : GoodReturn(tasks'[t])
  BY ZenonT(60) DEF Sound
<1>2. Conns \subseteq Tasks /\ workers' = workers /\ mishap \subseteq mishap'
  BY DEF Tasks, Withdraws
<1>3. \A c \in Conns : workers'[c] = "connected" => ~IsPast(tasks'[c])
  BY <1>2, ZenonT(60) DEF GInv, Sound
<1>4. ASSUME NEW b \in Builds, IsActive(b)'
      PROVE  /\ IsActive(b) /\ active'[b].conn = active[b].conn
             /\ active[b].conn \in Conns /\ active[b].conn \in Tasks
  <2>1. IsActive(b) /\ active'[b].conn = active[b].conn
    BY <1>4, ZenonT(60) DEF IsActive, Withdraws
  <2> QED BY <2>1, EntryConn
<1>5. ASSUME NEW b \in Builds, IsActive(b)' PROVE tasks'[active'[b].conn].pc # "new"
  BY <1>4, <1>5, ZenonT(60) DEF GInv, Sound
<1>6. ASSUME NEW b \in Builds \ mishap', IsActive(b)' PROVE Guarded(b)'
  <2>1. Guarded(b)
    BY <1>2, <1>4, <1>6, ZenonT(60) DEF GInv
  <2>2. \A u \in Tasks : Passes(tasks[u], tasks'[u], b, active[b].conn)
    BY <1>6, ZenonT(60) DEF IsActive
  <2> QED BY <1>2, <1>4, <1>6, <2>1, <2>2, GuardKept, ZenonT(60)
<1> QED BY <1>1, <1>3, <1>5, <1>6, ZenonT(60) DEF GInv

\* A step of tasks without a role.
LEMMA GuardCalm ==
    ASSUME IInv, GInv, Withdraws, \A u \in Tasks : Continues(u)
    PROVE  GInv'
BY ContinuesFacts, GuardStep, ZenonT(60)

(***************************************************************************)
(* Records.                                                                *)
(***************************************************************************)

\* Steps whose place in a handler matters.
MarkedPcs == GracePcs \union {"attach", "resume", "supersede", "closed",
    "close_disconnected", "new"}

LEMMA SoundWhen ==
    ASSUME NEW r, NEW q, q.pc \notin MarkedPcs,
           q.then = "resolve_dead" => q.pc \in HelperPcs,
           q.ret # "closed" \/ q.pc \in OpenPcs \/ IsPast(r)
    PROVE  Sound(r, q)
BY DEF Sound, GoodReturn, MarkedPcs, GracePcs, IsPast

LEMMA ContinueOne ==
    ASSUME TasksOK, NEW t \in Tasks, NEW q, tasks' = [tasks EXCEPT ![t] = q],
           Roleless(tasks[t]), Sound(tasks[t], q)
    PROVE  \A u \in Tasks : Continues(u)
<1>1. tasks'[t] = q /\ \A u \in Tasks \ {t} : tasks'[u] = tasks[u]
  BY DEF TasksOK
<1>2. Continues(t)
  BY <1>1, ZenonT(60) DEF Continues
<1>3. \A u \in Tasks \ {t} : Continues(u)
  BY <1>1, ZenonT(60) DEF Continues
<1> QED BY <1>2, <1>3

LEMMA ContinueCancel ==
    ASSUME TasksOK, GInv, NEW t \in Tasks, NEW q, NEW b,
           tasks' = Cancel([tasks EXCEPT ![t] = q], b), q.pc # "ack_wait"
    PROVE  tasks'[t] = q /\ \A u \in Tasks \ {t} : Continues(u)
<1> DEFINE ts == [tasks EXCEPT ![t] = q]
<1>1. ts[t] = q /\ \A u \in Tasks \ {t} : ts[u] = tasks[u]
  BY DEF TasksOK
<1>2. \A u \in Tasks : tasks'[u] = IF ts[u].pc = "ack_wait" /\ ts[u].b = b /\ ts[u].tok = active[b].tok
                                   THEN Idle ELSE ts[u]
  BY DEF Cancel
<1> HIDE DEF ts
<1>3. tasks'[t] = q
  BY <1>1, <1>2
<1>4. ASSUME NEW u \in Tasks \ {t} PROVE Continues(u)
  <2>1. CASE tasks[u].pc = "ack_wait" /\ tasks'[u] = Idle
    <3>1. Roleless(tasks[u])
      <4>1. GoodReturn(tasks[u])
        BY DEF GInv
      <4> QED BY <2>1, <4>1 DEF GoodReturn, Roleless, RolePcs, HelperPcs, TakePcs, SnapshotPcs
    <3>2. Sound(tasks[u], Idle)
      BY SoundWhen DEF Idle, Task, MarkedPcs, GracePcs
    <3> QED BY <2>1, <3>1, <3>2, ZenonT(60) DEF Continues
  <2>2. CASE tasks'[u] = tasks[u]
    BY <2>2, ZenonT(60) DEF Continues
  <2> QED BY <1>1, <1>2, <2>1, <2>2
<1> QED BY <1>3, <1>4

LEMMA RoleFree ==
    ASSUME GInv, NEW t \in Tasks, tasks[t].pc \notin RolePcs
    PROVE  Roleless(tasks[t])
BY DEF GInv, GoodReturn, Roleless, RolePcs

LEMMA QueueWithdraws ==
    ASSUME UNCHANGED queue, mishap \subseteq mishap'
    PROVE  Withdraws
BY DEF queue, Withdraws

LEMMA FaultWithdraws ==
    ASSUME UNCHANGED queue, NEW b, NEW ok, Fault(b, ok)
    PROVE  Withdraws
BY DEF queue, Withdraws, Fault

LEMMA HomeSound ==
    ASSUME TasksOK, NEW t \in Tasks, tasks[t].pc \notin OpenPcs
    PROVE  Sound(tasks[t], Home(tasks[t].ret)) /\ Home(tasks[t].ret).pc # "ack_wait"
<1>1. tasks[t].ret \in Returns
  BY DEF TasksOK, TaskRecords
<1> QED BY <1>1 DEF Home, Idle, Task, Returns, Sound, GoodReturn, IsPast, HelperPcs, GracePcs

\* A helper of resolve_dead goes back to what is left of the list.
LEMMA AfterSound ==
    ASSUME TasksOK, NEW t \in Tasks, tasks[t].pc \notin OpenPcs
    PROVE  /\ Sound(tasks[t], After(t)) /\ After(t).pc # "ack_wait"
           /\ \A b : tasks[t].then = "resolve_dead" /\ (\E x \in tasks[t].todo : x.b = b)
                      => Takes(After(t), b)
<1>1. tasks[t] \in TaskRecords
  BY DEF TasksOK
<1>2. CASE tasks[t].then \in {"resolve_dead", "resolve_idle"}
  <2> DEFINE q == [tasks[t] EXCEPT !.pc = tasks[t].then, !.b = 0, !.st = "none"]
  <2>1. /\ q.pc = tasks[t].then /\ q.then = tasks[t].then /\ q.ret = tasks[t].ret
        /\ q.todo = tasks[t].todo
    BY <1>1 DEF TaskRecords
  <2>2. After(t) = IF q.todo = {} THEN Task("try_dispatch", q.ret) ELSE q
    BY <1>2 DEF After, NextCandidate
  <2> HIDE DEF q
  <2>3. Sound(tasks[t], q)
    BY <1>2, <2>1 DEF Sound, GoodReturn, IsPast, HelperPcs, GracePcs
  <2>4. tasks[t].ret \in Returns
    BY <1>1 DEF TaskRecords
  <2>5. Sound(tasks[t], Task("try_dispatch", q.ret))
    BY <2>1, <2>4 DEF Task, Returns, Sound, GoodReturn, IsPast, HelperPcs, GracePcs
  <2>6. After(t).pc # "ack_wait"
    BY <1>2, <2>1, <2>2 DEF Task
  <2>7. \A b : tasks[t].then = "resolve_dead" /\ (\E x \in tasks[t].todo : x.b = b)
                 => Takes(After(t), b)
    BY <2>1, <2>2, ZenonT(60) DEF Takes
  <2> QED BY <2>2, <2>3, <2>5, <2>6, <2>7
<1>3. CASE tasks[t].then = "try_dispatch"
  <2>1. tasks[t].ret \in Returns
    BY <1>1 DEF TaskRecords
  <2> QED BY <1>3, <2>1 DEF After, Task, Returns, Sound, GoodReturn, IsPast, HelperPcs, GracePcs
<1>4. CASE tasks[t].then \notin {"resolve_dead", "resolve_idle", "try_dispatch"}
  BY <1>4, HomeSound DEF After
<1> QED BY <1>2, <1>3, <1>4

\* A task without a role becomes q, returns, or takes its next step.
LEMMA TaskGuard ==
    ASSUME IInv, GInv, Withdraws, NEW t \in Tasks, NEW q, tasks[t].pc \notin RolePcs,
           tasks' = [tasks EXCEPT ![t] = q], Sound(tasks[t], q)
    PROVE  GInv'
BY RoleFree, ContinueOne, GuardCalm, ZenonT(60) DEF IInv

LEMMA ReturnGuard ==
    ASSUME IInv, GInv, Withdraws, NEW t \in Tasks, tasks[t].pc \notin RolePcs,
           tasks[t].pc \notin OpenPcs, tasks' = Return(t)
    PROVE  GInv'
BY AfterSound, TaskGuard, ZenonT(60) DEF IInv, Return

LEMMA GotoSound ==
    ASSUME TasksOK, NEW t \in Tasks, NEW pc, pc \notin MarkedPcs,
           tasks[t].then = "resolve_dead" => pc \in HelperPcs,
           tasks[t].pc \notin OpenPcs \/ pc \in OpenPcs
    PROVE  Sound(tasks[t], [tasks[t] EXCEPT !.pc = pc])
<1> DEFINE q == [tasks[t] EXCEPT !.pc = pc]
<1>1. q.pc = pc /\ q.then = tasks[t].then /\ q.ret = tasks[t].ret
  BY DEF TasksOK, TaskRecords
<1>2. q.ret # "closed" \/ q.pc \in OpenPcs \/ IsPast(tasks[t])
  BY <1>1 DEF IsPast
<1> HIDE DEF q
<1>3. Sound(tasks[t], q)
  BY <1>1, <1>2, SoundWhen, ZenonT(60)
<1> QED BY <1>3 DEF q

LEMMA GotoGuard ==
    ASSUME IInv, GInv, Withdraws, NEW t \in Tasks, NEW pc, tasks[t].pc \notin RolePcs,
           pc \notin MarkedPcs, tasks[t].pc \notin OpenPcs \/ pc \in OpenPcs,
           tasks' = Goto(t, pc)
    PROVE  GInv'
<1>1. TasksOK /\ tasks[t].then # "resolve_dead"
  BY RoleFree DEF IInv, Roleless
<1>2. Sound(tasks[t], [tasks[t] EXCEPT !.pc = pc])
  BY <1>1, GotoSound, ZenonT(60)
<1>3. tasks' = [tasks EXCEPT ![t] = [tasks[t] EXCEPT !.pc = pc]]
  BY <1>1 DEF Goto, TasksOK
<1> QED BY <1>2, <1>3, TaskGuard, ZenonT(60)

\* A task without a role starts another one.
LEMMA SpawnGuard ==
    ASSUME IInv, GInv, Withdraws, NEW t \in Tasks, NEW next, NEW new,
           tasks[t].pc \notin RolePcs, Spawn(t, next, new),
           Sound(tasks[t], next), Sound(Idle, new), Sound(tasks[t], new)
    PROVE  GInv'
<1>1. PICK s \in Free \union (IF next = Idle THEN {t} \intersect Slots ELSE {}) :
         tasks' = [tasks EXCEPT ![t] = next, ![s] = new]
  BY ZenonT(60) DEF Spawn
<1>2. s \in Tasks /\ (s = t \/ tasks[s] = Idle)
  BY <1>1 DEF Free, Tasks
<1>3. /\ tasks'[s] = new /\ (t # s => tasks'[t] = next)
      /\ \A u \in Tasks \ {s, t} : tasks'[u] = tasks[u]
  BY <1>1, <1>2 DEF IInv, TasksOK
<1>4. Roleless(tasks[t]) /\ Roleless(Idle)
  <2>1. Roleless(Idle)
    BY DEF Idle, Task, Roleless, RolePcs, HelperPcs, TakePcs, SnapshotPcs
  <2> QED BY <2>1, RoleFree
<1>5. Continues(s)
  BY <1>2, <1>3, <1>4, ZenonT(60) DEF Continues
<1>6. Continues(t)
  BY <1>3, <1>4, <1>5, ZenonT(60) DEF Continues
<1>7. \A u \in Tasks \ {s, t} : Continues(u)
  BY <1>3, ZenonT(60) DEF Continues
<1> QED BY <1>5, <1>6, <1>7, GuardCalm, ZenonT(60)

LEMMA FieldsGuard ==
    ASSUME IInv, GInv, Withdraws, NEW t \in Tasks, NEW q, tasks' = [tasks EXCEPT ![t] = q],
           tasks[t].pc \notin RolePcs, tasks[t].pc \notin OpenPcs \/ q.pc \in OpenPcs,
           q.pc \notin MarkedPcs, q.then = tasks[t].then, q.ret = tasks[t].ret
    PROVE  GInv'
<1>1. q.then # "resolve_dead"
  BY RoleFree DEF Roleless
<1>2. q.ret # "closed" \/ q.pc \in OpenPcs \/ IsPast(tasks[t])
  BY DEF IsPast
<1> QED BY <1>1, <1>2, SoundWhen, TaskGuard, ZenonT(60)

(***************************************************************************)
(* The actions.                                                            *)
(***************************************************************************)

LEMMA SubmitGuard ==
    ASSUME IInv, GInv, NEW t \in Tasks,
           SubmitLog(t) \/ SubmitEnqueue(t) \/ \E b \in Builds : SubmitInsert(t, b)
    PROVE  GInv'
<1>1. CASE SubmitLog(t)
  <2>1. PICK ok : /\ tasks' = IF ok THEN Goto(t, "submit_enqueue") ELSE Return(t)
                  /\ Fault(tasks[t].b, ok)
    BY <1>1 DEF SubmitLog
  <2>2. Withdraws
    BY <1>1, <2>1, FaultWithdraws DEF SubmitLog
  <2>3. /\ tasks[t].pc \notin RolePcs \union OpenPcs /\ "submit_enqueue" \notin MarkedPcs
    BY <1>1 DEF SubmitLog, RolePcs, HelperPcs, TakePcs, SnapshotPcs, OpenPcs, MarkedPcs, GracePcs
  <2> QED BY <2>1, <2>2, <2>3, GotoGuard, ReturnGuard
<1>2. CASE SubmitEnqueue(t)
  <2>1. Withdraws
    BY <1>2 DEF SubmitEnqueue, Withdraws
  <2>2. tasks[t].pc \notin RolePcs
    BY <1>2 DEF SubmitEnqueue, RolePcs, HelperPcs, TakePcs, SnapshotPcs
  <2>3. Sound(tasks[t], Task("try_dispatch", "idle"))
    BY DEF Task, Sound, GoodReturn, IsPast, GracePcs
  <2>4. tasks' = [tasks EXCEPT ![t] = Task("try_dispatch", "idle")]
    BY <1>2 DEF SubmitEnqueue
  <2> QED BY <2>1, <2>2, <2>3, <2>4, TaskGuard
<1>3. CASE \E b \in Builds : SubmitInsert(t, b)
  <2>1. PICK b \in Builds : SubmitInsert(t, b)
    BY <1>3
  <2> DEFINE q == [Task("submit_log", "reply") EXCEPT !.b = b]
  <2>2. Withdraws
    BY <2>1, QueueWithdraws DEF SubmitInsert
  <2>3. tasks[t].pc \notin RolePcs
    BY <2>1 DEF SubmitInsert, Idle, Task, RolePcs, HelperPcs, TakePcs, SnapshotPcs
  <2>4. Sound(tasks[t], q)
    BY DEF Task, Sound, GoodReturn, IsPast, GracePcs
  <2>5. tasks' = [tasks EXCEPT ![t] = q]
    BY <2>1 DEF SubmitInsert
  <2> HIDE DEF q
  <2> QED BY <2>2, <2>3, <2>4, <2>5, TaskGuard
<1> QED BY <1>1, <1>2, <1>3

LEMMA DispatcherGuard ==
    ASSUME IInv, GInv, NEW t \in Tasks, NothingToDispatch(t) \/ SendNew(t) \/ AckTimeout(t)
    PROVE  GInv'
<1>1. Withdraws /\ tasks[t].pc \notin RolePcs \union OpenPcs
  BY QueueWithdraws DEF NothingToDispatch, SendNew, AckTimeout, RolePcs, HelperPcs, TakePcs,
     SnapshotPcs, OpenPcs
<1>2. CASE NothingToDispatch(t)
  BY <1>1, <1>2, HomeSound, TaskGuard, ZenonT(60) DEF NothingToDispatch, IInv
<1>3. CASE SendNew(t)
  <2> DEFINE q == [tasks[t] EXCEPT !.c = None, !.pc = SendAndRecover(tasks[t].c)]
  <2>1. tasks' = [tasks EXCEPT ![t] = q]
    BY <1>3 DEF SendNew, IInv, TasksOK
  <2>2. q.then = tasks[t].then /\ q.ret = tasks[t].ret /\ q.pc \notin MarkedPcs
    BY DEF IInv, TasksOK, TaskRecords, SendAndRecover, MarkedPcs, GracePcs
  <2> HIDE DEF q
  <2> QED BY <1>1, <2>1, <2>2, FieldsGuard
<1>4. CASE AckTimeout(t)
  <2>1. tasks' = Goto(t, "rollback_take") /\ "rollback_take" \notin MarkedPcs
    BY <1>4 DEF AckTimeout, MarkedPcs, GracePcs
  <2> QED BY <1>1, <2>1, GotoGuard
<1> QED BY <1>2, <1>3, <1>4

LEMMA SweepGuard ==
    ASSUME IInv, GInv, SweepTick
    PROVE  GInv'
<1>1. /\ Withdraws /\ Sweep \in Tasks /\ tasks[Sweep].pc \notin RolePcs
      /\ tasks' = [tasks EXCEPT ![Sweep] = Task("try_dispatch", "idle")]
  BY QueueWithdraws DEF SweepTick, Tasks, Idle, Task, RolePcs, HelperPcs, TakePcs, SnapshotPcs
<1>2. Sound(tasks[Sweep], Task("try_dispatch", "idle"))
  BY DEF Task, Sound, GoodReturn, IsPast, GracePcs
<1> QED BY <1>1, <1>2, TaskGuard

LEMMA ArmAckGuard ==
    ASSUME IInv, GInv, NEW t \in Tasks, ArmAck(t)
    PROVE  GInv'
<1> DEFINE next == IF t = Sweep THEN Task("try_dispatch", "idle") ELSE After(t)
           new == [Task("ack_wait", "idle") EXCEPT !.b = tasks[t].b,
                                                   !.tok = active[tasks[t].b].tok]
<1>1. Withdraws /\ tasks[t].pc \notin RolePcs \union OpenPcs
  BY QueueWithdraws DEF ArmAck, RolePcs, HelperPcs, TakePcs, SnapshotPcs, OpenPcs
<1>2. Sound(tasks[t], next)
  <2>1. Sound(tasks[t], Task("try_dispatch", "idle"))
    BY DEF Task, Sound, GoodReturn, IsPast, GracePcs
  <2> QED BY <1>1, <2>1, AfterSound, ZenonT(60) DEF IInv
<1>3. \A r : Sound(r, new)
  BY DEF Task, Sound, GoodReturn, IsPast, GracePcs
<1>4. Spawn(t, next, new) \/ tasks' = [tasks EXCEPT ![t] = next]
  BY DEF ArmAck
<1> HIDE DEF next, new
<1> QED BY <1>1, <1>2, <1>3, <1>4, SpawnGuard, TaskGuard, ZenonT(60)

LEMMA RevokeGuard ==
    ASSUME IInv, GInv, NEW t \in Tasks,
           \/ RevokeRemove(t) \/ RevokeMark(t) \/ RevokeLookup(t) \/ RevokeDb(t)
           \/ RevokeTimeout(t) \/ StartedDb(t)
    PROVE  GInv'
<1>1. tasks[t].pc \notin RolePcs \union OpenPcs
  BY DEF RevokeRemove, RevokeMark, RevokeLookup, RevokeDb, RevokeTimeout, StartedDb,
     RolePcs, HelperPcs, TakePcs, SnapshotPcs, OpenPcs
<1>2. Withdraws
  <2>1. CASE RevokeRemove(t) \/ RevokeLookup(t)
    BY <2>1 DEF RevokeRemove, RevokeLookup, Withdraws, queue
  <2>2. CASE RevokeMark(t) \/ RevokeDb(t) \/ RevokeTimeout(t) \/ StartedDb(t)
    BY <2>2, FaultWithdraws DEF RevokeMark, RevokeDb, RevokeTimeout, StartedDb
  <2> QED BY <2>1, <2>2
<1>3. CASE RevokeRemove(t) \/ RevokeDb(t)
  <2>1. tasks' \in {Goto(t, "revoke_mark"), Goto(t, "revoke_send"), Return(t)}
    BY <1>3 DEF RevokeRemove, RevokeDb
  <2>2. "revoke_mark" \notin MarkedPcs /\ "revoke_send" \notin MarkedPcs
    BY DEF MarkedPcs, GracePcs
  <2> QED BY <1>1, <1>2, <2>1, <2>2, GotoGuard, ReturnGuard
<1>4. CASE RevokeMark(t) \/ StartedDb(t)
  BY <1>1, <1>2, <1>4, ReturnGuard DEF RevokeMark, StartedDb
<1>5. CASE RevokeLookup(t) /\ tasks' # Return(t)
  <2> DEFINE q == [tasks[t] EXCEPT !.pc = "revoke_db", !.c = active[tasks[t].b].conn]
  <2>1. tasks' = [tasks EXCEPT ![t] = q]
    BY <1>5 DEF RevokeLookup, IInv, TasksOK
  <2>2. q.then = tasks[t].then /\ q.ret = tasks[t].ret /\ q.pc \notin MarkedPcs
    BY DEF IInv, TasksOK, TaskRecords, MarkedPcs, GracePcs
  <2> HIDE DEF q
  <2> QED BY <1>1, <1>2, <2>1, <2>2, FieldsGuard
<1>6. CASE RevokeTimeout(t) /\ tasks' # Return(t)
  <2> DEFINE q == [tasks[t] EXCEPT !.pc = "fin_db", !.st = "revoked"]
  <2>1. tasks' = [tasks EXCEPT ![t] = q]
    BY <1>6 DEF RevokeTimeout, IInv, TasksOK
  <2>2. q.then = tasks[t].then /\ q.ret = tasks[t].ret /\ q.pc \notin MarkedPcs
    BY DEF IInv, TasksOK, TaskRecords, MarkedPcs, GracePcs
  <2> HIDE DEF q
  <2> QED BY <1>1, <1>2, <2>1, <2>2, FieldsGuard
<1> QED BY <1>1, <1>2, <1>3, <1>4, <1>5, <1>6, ReturnGuard

LEMMA RevokeSendGuard ==
    ASSUME IInv, GInv, NEW t \in Tasks, RevokeSend(t)
    PROVE  GInv'
<1> DEFINE new == [Task("revoke_wait", "idle") EXCEPT !.b = tasks[t].b]
<1>1. Withdraws /\ tasks[t].pc \notin RolePcs \union OpenPcs
  BY QueueWithdraws DEF RevokeSend, RolePcs, HelperPcs, TakePcs, SnapshotPcs, OpenPcs
<1>2. Sound(tasks[t], After(t))
  BY <1>1, AfterSound, ZenonT(60) DEF IInv
<1>3. \A r : Sound(r, new)
  BY DEF Task, Sound, GoodReturn, IsPast, GracePcs
<1>4. Spawn(t, After(t), new)
  BY DEF RevokeSend
<1> HIDE DEF new
<1> QED BY <1>1, <1>2, <1>3, <1>4, SpawnGuard, ZenonT(60)

LEMMA RevokeRequestGuard ==
    ASSUME IInv, GInv, NEW s \in Tasks, NEW b \in Builds, RevokeRequest(s, b)
    PROVE  GInv'
<1> DEFINE q == [Task(IF db[b] = "queued" THEN "revoke_remove" ELSE "revoke_lookup", "reply")
                  EXCEPT !.b = b]
<1>1. /\ Withdraws /\ tasks[s].pc \notin RolePcs
      /\ tasks' = [tasks EXCEPT ![s] = q]
  BY QueueWithdraws DEF RevokeRequest, Idle, Task, RolePcs, HelperPcs, TakePcs, SnapshotPcs
<1>2. Sound(tasks[s], q)
  BY DEF Task, Sound, GoodReturn, IsPast, GracePcs
<1> HIDE DEF q
<1> QED BY <1>1, <1>2, TaskGuard

\* Messages.
LEMMA CancelGuard ==
    ASSUME IInv, GInv, Withdraws, NEW t \in Tasks, NEW q, NEW b, tasks[t].pc \notin RolePcs,
           tasks' = Cancel([tasks EXCEPT ![t] = q], b), q.pc # "ack_wait", Sound(tasks[t], q)
    PROVE  GInv'
<1>1. tasks'[t] = q /\ \A u \in Tasks \ {t} : Continues(u)
  BY ContinueCancel, ZenonT(60) DEF IInv
<1>2. Continues(t)
  BY <1>1, RoleFree, ZenonT(60) DEF Continues
<1> QED BY <1>1, <1>2, GuardCalm, ZenonT(60)

LEMMA AcceptedCancelGuard ==
    ASSUME IInv, GInv, NEW t \in Tasks, AcceptedCancel(t)
    PROVE  GInv'
<1>1. tasks[t].pc \notin RolePcs \union OpenPcs
  BY DEF AcceptedCancel, RolePcs, HelperPcs, TakePcs, SnapshotPcs, OpenPcs
<1>2. Withdraws
  BY DEF AcceptedCancel, Withdraws, IInv, TypeOK, ActiveRecords
<1>3. tasks' = Return(t) \/ tasks' = Cancel([tasks EXCEPT ![t] = After(t)], tasks[t].b)
  BY DEF AcceptedCancel, Return
<1>4. Sound(tasks[t], After(t)) /\ After(t).pc # "ack_wait"
  BY <1>1, AfterSound, ZenonT(60) DEF IInv
<1> QED BY <1>1, <1>2, <1>3, <1>4, ReturnGuard, CancelGuard, ZenonT(60)

LEMMA AuthorizedGuard ==
    ASSUME IInv, GInv, NEW c \in Conns, NEW b \in Builds, NEW q, Authorized(c, b, q),
           q.pc \notin MarkedPcs \union {"ack_wait"}, q.then # "resolve_dead", q.ret # "closed"
    PROVE  GInv'
<1>1. c \in Tasks /\ tasks[c].pc \notin RolePcs
  BY DEF Authorized, RolePcs, HelperPcs, TakePcs, SnapshotPcs, Tasks
<1>2. Withdraws
  BY DEF Authorized, Withdraws, IInv, TypeOK, ActiveRecords
<1>3. tasks' = Cancel([tasks EXCEPT ![c] = q], b)
  BY DEF Authorized
<1>4. Sound(tasks[c], q)
  BY SoundWhen
<1> QED BY <1>1, <1>2, <1>3, <1>4, CancelGuard, ZenonT(60)

LEMMA LifecycleGuard ==
    ASSUME IInv, GInv, NEW c \in Conns, NEW b \in Builds,
           \/ BuildAccepted(c, b) \/ BuildStarted(c, b) \/ BuildOutput(c, b)
           \/ BuildFinished(c, b) \/ BuildRejected(c, b)
    PROVE  GInv'
<1> DEFINE Good(r) == /\ r.pc \notin MarkedPcs \union {"ack_wait"}
                      /\ r.then # "resolve_dead" /\ r.ret # "closed"
<1>1. \A st : Good([On(b, "done_db") EXCEPT !.st = st, !.then = "try_dispatch"])
  BY DEF On, Task, MarkedPcs, GracePcs
<1>2. /\ Good(On(b, "accepted")) /\ Good(On(b, "started_db")) /\ Good(Task("recv", "recv"))
  BY DEF On, Task, MarkedPcs, GracePcs
<1>3. /\ Good([On(b, "fin_db") EXCEPT !.st = "failure"])
      /\ Good([On(b, "rollback_take") EXCEPT !.then = "try_dispatch"])
  BY DEF On, Task, MarkedPcs, GracePcs
<1> HIDE DEF Good
<1>4. PICK r : Authorized(c, b, r) /\ Good(r)
  BY <1>1, <1>2, <1>3, ZenonT(60)
     DEF BuildAccepted, BuildStarted, BuildOutput, BuildFinished, BuildRejected
<1> QED BY <1>4, AuthorizedGuard DEF Good

LEMMA CandidateSound ==
    ASSUME NEW r, NEW q, Sound(r, q), q.ret \in Returns, q.ret = "closed" => IsPast(r)
    PROVE  Sound(r, NextCandidate(q))
<1>1. Sound(r, Task("try_dispatch", q.ret))
  BY DEF Task, Returns, Sound, GoodReturn, IsPast, GracePcs
<1> QED BY <1>1, ZenonT(60) DEF NextCandidate

LEMMA StatusGuard ==
    ASSUME IInv, GInv, NEW c \in Conns,
           StatusIdle(c) \/ \E b \in Builds : StatusBuilding(c, b)
    PROVE  GInv'
<1>1. Withdraws /\ c \in Tasks /\ tasks[c].pc \notin RolePcs
  BY QueueWithdraws DEF StatusIdle, StatusBuilding, Tasks, RolePcs, HelperPcs, TakePcs,
     SnapshotPcs
<1>2. CASE StatusIdle(c)
  <2> DEFINE q == [Task("resolve_idle", "recv") EXCEPT
                     !.todo = {[b |-> b, receipt |-> active[b].receipt,
                                live |-> workers[active[b].conn] = "connected"] :
                                  b \in {d \in Builds : IsActive(d) /\ ~Owns(c, d)}}]
  <2>1. tasks' = [tasks EXCEPT ![c] = NextCandidate(q)]
    BY <1>2 DEF StatusIdle
  <2>2. q.pc = "resolve_idle" /\ q.then = "recv" /\ q.ret = "recv"
    BY DEF Task
  <2> HIDE DEF q
  <2>3. Sound(tasks[c], q)
    BY <2>2, SoundWhen DEF MarkedPcs, GracePcs
  <2>4. Sound(tasks[c], NextCandidate(q))
    BY <2>2, <2>3, CandidateSound DEF Returns
  <2> QED BY <1>1, <2>1, <2>4, TaskGuard, ZenonT(60)
<1>3. CASE \E b \in Builds : StatusBuilding(c, b)
  <2>1. PICK b \in Builds, pc \in {"attach", "resume", "revoke_lookup"} :
          tasks' = [tasks EXCEPT ![c] = On(b, pc)]
    BY <1>3, ZenonT(60) DEF StatusBuilding
  <2>2. Sound(tasks[c], On(b, pc))
    BY DEF On, Task, Sound, GoodReturn, IsPast, GracePcs
  <2> QED BY <1>1, <2>1, <2>2, TaskGuard, ZenonT(60)
<1> QED BY <1>2, <1>3

\* What becomes of a resolver and of the list it works through.
LEMMA ResolveFacts ==
    ASSUME TasksOK, NEW t \in Tasks, GoodReturn(tasks[t]), NEW x, NEW decision,
           tasks[t].pc \in {"resolve_idle", "resolve_dead"}
    PROVE  /\ Sound(tasks[t], Resolve(t, x, decision))
           /\ tasks[t].pc = "resolve_dead" =>
                \A b : /\ \E y \in tasks[t].todo : y.b = b
                       /\ b # x.b \/ decision # "skip"
                       => Takes(Resolve(t, x, decision), b)
<1> DEFINE rest == [tasks[t] EXCEPT !.todo = @ \ {x}]
           run  == [rest EXCEPT !.b = x.b, !.then = tasks[t].pc]
           back == [run EXCEPT !.pc = "rollback_take"]
           drop == [run EXCEPT !.pc = "remove_only"]
           fin  == [run EXCEPT !.pc = "fin_db", !.st = decision]
           Left == tasks[t].todo \ {x}
           Runs(r) == /\ r.pc \in {"rollback_take", "remove_only", "fin_db"} /\ r.b = x.b
                      /\ r.ret = tasks[t].ret /\ r.then = tasks[t].pc /\ r.todo = Left
<1>1. tasks[t] \in TaskRecords /\ tasks[t].ret \in Returns
  BY DEF TasksOK, TaskRecords
<1>2. /\ rest.pc = tasks[t].pc /\ rest.ret = tasks[t].ret /\ rest.todo = Left
      /\ rest.then = tasks[t].then
  BY <1>1, ZenonT(60) DEF TaskRecords
<1>3. Runs(back) /\ Runs(drop) /\ Runs(fin)
  <2>1. Runs(back)
    BY <1>1, ZenonT(60) DEF TaskRecords
  <2>2. Runs(drop)
    BY <1>1, ZenonT(60) DEF TaskRecords
  <2>3. Runs(fin)
    BY <1>1, ZenonT(60) DEF TaskRecords
  <2> QED BY <2>1, <2>2, <2>3
<1>4. \/ decision = "skip" /\ Resolve(t, x, decision) = NextCandidate(rest)
      \/ decision # "skip" /\ Resolve(t, x, decision) \in {back, drop, fin}
  BY DEF Resolve
<1> HIDE DEF rest, back, drop, fin
<1>5. CASE decision # "skip"
  <2>1. PICK r : r = Resolve(t, x, decision) /\ Runs(r)
    BY <1>3, <1>4, <1>5
  <2>2. Sound(tasks[t], r)
    BY <2>1 DEF Sound, GoodReturn, IsPast, GracePcs, OpenPcs, HelperPcs
  <2>3. ASSUME NEW b, \E y \in tasks[t].todo : y.b = b, tasks[t].pc = "resolve_dead"
        PROVE  Takes(r, b)
    <3>1. CASE b = x.b
      BY <2>1, <3>1 DEF Takes, TakePcs
    <3>2. CASE b # x.b
      BY <2>1, <2>3, <3>2, ZenonT(60) DEF Takes
    <3> QED BY <3>1, <3>2
  <2> QED BY <2>1, <2>2, <2>3
<1>6. CASE decision = "skip"
  <2>1. Sound(tasks[t], rest)
    BY <1>2 DEF Sound, GoodReturn, IsPast, GracePcs, OpenPcs, HelperPcs
  <2>2. Sound(tasks[t], NextCandidate(rest))
    BY <1>1, <1>2, <2>1, CandidateSound DEF IsPast, OpenPcs
  <2>3. ASSUME NEW b, NEW y \in tasks[t].todo, y.b = b, b # x.b, tasks[t].pc = "resolve_dead"
        PROVE  Takes(NextCandidate(rest), b)
    <3>1. y \in rest.todo /\ rest.pc = "resolve_dead"
      BY <1>2, <2>3
    <3> QED BY <2>3, <3>1, ZenonT(60) DEF NextCandidate, Takes
  <2> QED BY <1>4, <1>6, <2>2, <2>3
<1> QED BY <1>5, <1>6

LEMMA IdleReconcileGuard ==
    ASSUME IInv, GInv, NEW t \in Tasks, IdleReconcileOne(t)
    PROVE  GInv'
<1>1. PICK x, decision : tasks' = [tasks EXCEPT ![t] = Resolve(t, x, decision)]
  BY Zenon DEF IdleReconcileOne
<1>2. Withdraws /\ tasks[t].pc \notin RolePcs
  BY QueueWithdraws DEF IdleReconcileOne, RolePcs, HelperPcs, TakePcs, SnapshotPcs
<1>3. TasksOK /\ GoodReturn(tasks[t]) /\ tasks[t].pc = "resolve_idle"
  BY DEF IdleReconcileOne, IInv, GInv
<1>4. Sound(tasks[t], Resolve(t, x, decision))
  BY <1>3, ResolveFacts
<1> QED BY <1>1, <1>2, <1>4, TaskGuard, ZenonT(60)

LEMMA ConnectionGuard ==
    ASSUME IInv, GInv, NEW c \in Conns,
           Supersede(c) \/ AddSender(c) \/ Welcome(c) \/ CloseCheck(c) \/ CloseSender(c)
    PROVE  GInv'
<1>1. /\ Withdraws /\ c \in Tasks /\ tasks[c].pc \notin RolePcs
      /\ tasks[c] \in TaskRecords /\ tasks \in [Tasks -> TaskRecords]
  BY QueueWithdraws DEF Supersede, AddSender, Welcome, CloseCheck, CloseSender, Tasks, RolePcs,
     HelperPcs, TakePcs, SnapshotPcs, IInv, TasksOK
<1>2. CASE Supersede(c)
  <2> DEFINE q == [tasks[c] EXCEPT !.pc = "dead_snapshot", !.st = "none"]
  <2>1. tasks[c].ret = "add_sender" /\ tasks[c].then # "resolve_dead"
    BY <1>1, <1>2, RoleFree DEF Supersede, GInv, GoodReturn, Roleless
  <2>2. q.pc = "dead_snapshot" /\ q.then = tasks[c].then /\ q.ret = tasks[c].ret
    BY <1>1 DEF TaskRecords
  <2>3. tasks' \in {[tasks EXCEPT ![c] = q],
                    [tasks EXCEPT ![c] = Task("add_sender", "add_sender")]}
    BY <1>1, <1>2 DEF Supersede
  <2> HIDE DEF q
  <2>4. Sound(tasks[c], q)
    BY <2>1, <2>2, SoundWhen DEF MarkedPcs, GracePcs
  <2>5. Sound(tasks[c], Task("add_sender", "add_sender"))
    BY DEF Task, Sound, GoodReturn, IsPast, GracePcs
  <2> QED BY <1>1, <2>3, <2>4, <2>5, TaskGuard, ZenonT(60)
<1>3. CASE AddSender(c)
  <2>1. Sound(tasks[c], Task("welcome", "closed"))
    BY DEF Task, Sound, GoodReturn, IsPast, GracePcs, OpenPcs
  <2> QED BY <1>1, <1>3, <2>1, TaskGuard, ZenonT(60) DEF AddSender
<1>4. CASE Welcome(c)
  <2>1. \A r : Sound(r, Task("recv", "recv")) /\ Sound(r, Task("try_dispatch", "idle"))
    BY DEF Task, Sound, GoodReturn, IsPast, GracePcs
  <2>2. CASE Spawn(c, Task("recv", "recv"), Task("try_dispatch", "idle"))
    BY <1>1, <2>1, <2>2, SpawnGuard, ZenonT(60)
  <2>3. CASE tasks' = Goto(c, "close_sender")
    <3>1. "close_sender" \in OpenPcs /\ "close_sender" \notin MarkedPcs
      BY DEF OpenPcs, MarkedPcs, GracePcs
    <3> QED BY <1>1, <2>3, <3>1, GotoGuard
  <2> QED BY <1>4, <2>2, <2>3 DEF Welcome
<1>5. CASE CloseCheck(c)
  <2> DEFINE q == [tasks[c] EXCEPT !.pc = "close_sender",
                     !.st = IF workers[c] = "stopping" THEN "stopping" ELSE "none"]
  <2>1. tasks' = [tasks EXCEPT ![c] = q]
    BY <1>1, <1>5 DEF CloseCheck
  <2>2. /\ q.then = tasks[c].then /\ q.ret = tasks[c].ret /\ q.pc \notin MarkedPcs
        /\ q.pc \in OpenPcs
    BY <1>1 DEF TaskRecords, MarkedPcs, GracePcs, OpenPcs
  <2> HIDE DEF q
  <2> QED BY <1>1, <2>1, <2>2, FieldsGuard
<1>6. CASE CloseSender(c)
  <2>1. \A pc \in {"close_dead", "close_arch"} : pc \in OpenPcs /\ pc \notin MarkedPcs
    BY DEF OpenPcs, MarkedPcs, GracePcs
  <2>2. PICK pc \in {"close_dead", "close_arch"} : tasks' = Goto(c, pc)
    BY <1>6, ZenonT(60) DEF CloseSender
  <2> QED BY <1>1, <2>1, <2>2, GotoGuard
<1> QED BY <1>2, <1>3, <1>4, <1>5, <1>6

LEMMA DropInDispatchGuard ==
    ASSUME IInv, GInv, NEW t \in Tasks, DropInDispatch(t)
    PROVE  GInv'
<1> DEFINE q == IF t \in Conns THEN Task("close_check", "closed") ELSE Idle
<1>1. Withdraws /\ tasks[t].pc \notin RolePcs
  BY DEF DropInDispatch, Withdraws, RolePcs, HelperPcs, TakePcs, SnapshotPcs
<1>2. Sound(tasks[t], q)
  BY DEF Idle, Task, Sound, GoodReturn, IsPast, GracePcs, OpenPcs
<1>3. tasks' = [tasks EXCEPT ![t] = q]
  BY DEF DropInDispatch, Dropped
<1> HIDE DEF q
<1> QED BY <1>1, <1>2, <1>3, TaskGuard

(***************************************************************************)
(* Steps that move an entry or the state of a worker.                      *)
(***************************************************************************)

\* The guardian of b goes on; the connection of b is watched after the step.
GuardianStays(b) ==
    LET c == active[b].conn IN
    /\ active'[b].conn = c /\ workers'[c] = workers[c] /\ Sound(tasks[c], tasks'[c])
    /\ b \notin mishap' => \A u \in Tasks : Passes(tasks[u], tasks'[u], b, c)
ComesUnderWatch(b) ==
    /\ tasks'[active'[b].conn].pc # "new"
    /\ b \notin mishap' => Watched(active[b].conn)'

LEMMA GuardBuilds ==
    ASSUME IInv, GInv, mishap \subseteq mishap', \A t \in Tasks : GoodReturn(tasks'[t]),
           \A c \in Conns : workers'[c] = "connected" => ~IsPast(tasks'[c]),
           \A b \in Builds : IsActive(b)' => GuardianStays(b) \/ ComesUnderWatch(b)
    PROVE  GInv'
<1>1. ASSUME NEW b \in Builds, IsActive(b)'
      PROVE  tasks'[active'[b].conn].pc # "new" /\ (b \notin mishap' => Guarded(b)')
  <2>1. CASE ComesUnderWatch(b)
    BY <2>1, ZenonT(60) DEF ComesUnderWatch, Guarded
  <2>2. CASE GuardianStays(b)
    <3>1. IsActive(b) /\ active'[b].conn = active[b].conn
      BY <1>1, <2>2, ZenonT(60) DEF GuardianStays, IsActive
    <3>2. active[b].conn \in Conns
      BY <3>1, EntryConn
    <3>3. tasks'[active'[b].conn].pc # "new"
      BY <2>2, <3>1, ZenonT(60) DEF GuardianStays, Sound, GInv
    <3>4. ASSUME b \notin mishap' PROVE Guarded(b)'
      <4>1. Guarded(b)
        BY <3>1, <3>4, ZenonT(60) DEF GInv
      <4> QED BY <2>2, <3>1, <3>2, <3>4, <4>1, GuardKept, ZenonT(60) DEF GuardianStays
    <3> QED BY <3>3, <3>4
  <2> QED BY <1>1, <2>1, <2>2
<1> QED BY <1>1, ZenonT(60) DEF GInv

LEMMA PassesFree ==
    ASSUME NEW r, NEW q, Roleless(r) \/ q = r
    PROVE  \A b, c : Passes(r, q, b, c)
BY NoRole, ZenonT(60) DEF Passes

\* One task without a role changes.
LEMMA OneFree ==
    ASSUME IInv, GInv, NEW t \in Tasks, NEW q, tasks' = [tasks EXCEPT ![t] = q],
           tasks[t].pc \notin RolePcs, GoodReturn(q)
    PROVE  /\ tasks'[t] = q
           /\ \A u \in Tasks \ {t} : tasks'[u] = tasks[u] /\ Sound(tasks[u], tasks'[u])
           /\ \A u \in Tasks : GoodReturn(tasks'[u])
           /\ \A u \in Tasks : \A b, c : Passes(tasks[u], tasks'[u], b, c)
<1>1. tasks'[t] = q /\ \A u \in Tasks \ {t} : tasks'[u] = tasks[u]
  BY DEF IInv, TasksOK
<1>2. \A u \in Tasks : GoodReturn(tasks[u])
  BY DEF GInv
<1>3. \A u \in Tasks \ {t} : Sound(tasks[u], tasks'[u])
  BY <1>1, <1>2, ZenonT(60) DEF Sound
<1>4. \A u \in Tasks : GoodReturn(tasks'[u])
  BY <1>1, <1>2, ZenonT(60)
<1>5. \A u \in Tasks : \A b, c : Passes(tasks[u], tasks'[u], b, c)
  BY <1>1, RoleFree, PassesFree, ZenonT(60)
<1> QED BY <1>1, <1>3, <1>4, <1>5

LEMMA HelloRefusedGuard ==
    ASSUME IInv, LInv, GInv, NEW c \in Conns, HelloRefused(c)
    PROVE  GInv'
<1> DEFINE q == Task("closed", "closed")
<1>1. /\ c \in Tasks /\ tasks[c].pc = "new" /\ tasks' = [tasks EXCEPT ![c] = q]
      /\ active' = active /\ workers' = workers /\ mishap' = mishap /\ Conns \subseteq Tasks
  BY DEF HelloRefused, Tasks, queue
<1>2. tasks[c].pc \notin RolePcs /\ GoodReturn(q)
  BY <1>1 DEF RolePcs, HelperPcs, TakePcs, SnapshotPcs, GoodReturn, Task, GracePcs
<1> HIDE DEF q
<1>3. /\ \A u \in Tasks \ {c} : tasks'[u] = tasks[u] /\ Sound(tasks[u], tasks'[u])
      /\ \A u \in Tasks : GoodReturn(tasks'[u])
      /\ \A u \in Tasks : \A b, d : Passes(tasks[u], tasks'[u], b, d)
  BY <1>1, <1>2, OneFree, ZenonT(60)
<1>4. workers[c] = "absent"
  BY <1>1, ZenonT(60) DEF LInv, ConnsOK
<1>5. \A d \in Conns : workers'[d] = "connected" => ~IsPast(tasks'[d])
  <2>1. \A d \in Conns \ {c} : workers'[d] = "connected" => ~IsPast(tasks'[d])
    BY <1>1, <1>3, ZenonT(60) DEF GInv
  <2>2. workers'[c] # "connected"
    BY <1>1, <1>4
  <2> QED BY <2>1, <2>2
<1>6. ASSUME NEW b \in Builds, IsActive(b)' PROVE GuardianStays(b)
  <2>1. IsActive(b)
    BY <1>1, <1>6 DEF IsActive
  <2>2. active[b].conn \in Tasks \ {c}
    BY <1>1, <2>1, EntryConn, ZenonT(60) DEF GInv
  <2> QED BY <1>1, <1>3, <2>2, ZenonT(60) DEF GuardianStays
<1> QED BY <1>1, <1>3, <1>5, <1>6, GuardBuilds, ZenonT(60)

LEMMA CloseArchGuard ==
    ASSUME IInv, GInv, NEW c \in Conns, CloseArch(c)
    PROVE  GInv'
<1> DEFINE pc == IF workers[c] \in {"connected", "disconnected"}
                 THEN "close_disconnected" ELSE "close_dead"
           q == [tasks[c] EXCEPT !.pc = pc]
<1>1. /\ c \in Tasks /\ tasks[c].pc = "close_arch" /\ tasks' = [tasks EXCEPT ![c] = q]
      /\ active' = active /\ workers' = workers /\ mishap' = mishap /\ Conns \subseteq Tasks
  BY DEF CloseArch, Tasks, queue, Goto, IInv, TasksOK
<1>2. /\ q.pc \in {"close_disconnected", "close_dead"}
      /\ q.pc = "close_disconnected" => workers[c] # "absent"
      /\ q.then = tasks[c].then
  BY <1>1 DEF IInv, TasksOK, TaskRecords
<1> HIDE DEF q
<1>3. tasks[c].pc \notin RolePcs
  BY <1>1 DEF RolePcs, HelperPcs, TakePcs, SnapshotPcs
<1>4. GoodReturn(q)
  BY <1>1, <1>2, <1>3, RoleFree DEF Roleless, GoodReturn, GracePcs
<1>5. /\ tasks'[c] = q
      /\ \A u \in Tasks \ {c} : tasks'[u] = tasks[u] /\ Sound(tasks[u], tasks'[u])
      /\ \A u \in Tasks : GoodReturn(tasks'[u])
      /\ \A u \in Tasks : \A b, d : Passes(tasks[u], tasks'[u], b, d)
  BY <1>1, <1>3, <1>4, OneFree, ZenonT(60)
<1>6. ~IsPast(tasks'[c]) /\ tasks'[c].pc # "new"
  BY <1>2, <1>5 DEF IsPast, OpenPcs
<1>7. \A d \in Conns : workers'[d] = "connected" => ~IsPast(tasks'[d])
  BY <1>1, <1>5, <1>6, ZenonT(60) DEF GInv
<1>8. ASSUME NEW b \in Builds, IsActive(b)' PROVE GuardianStays(b) \/ ComesUnderWatch(b)
  <2>1. active[b].conn \in Tasks /\ active'[b].conn = active[b].conn
    BY <1>1, <1>8, EntryConn DEF IsActive
  <2>2. CASE active[b].conn = c
    <3>1. Watched(active[b].conn)'
      BY <1>1, <1>2, <1>5, <1>6, <2>1, <2>2, ZenonT(60) DEF Watched
    <3> QED BY <1>6, <2>1, <2>2, <3>1, ZenonT(60) DEF ComesUnderWatch
  <2>3. CASE active[b].conn # c
    BY <1>1, <1>5, <2>1, <2>3, ZenonT(60) DEF GuardianStays
  <2> QED BY <2>2, <2>3
<1> QED BY <1>1, <1>5, <1>7, <1>8, GuardBuilds, ZenonT(60)

LEMMA WorkerStoppingGuard ==
    ASSUME IInv, GInv, NEW c \in Conns, WorkerStopping(c)
    PROVE  GInv'
<1>1. /\ c \in Tasks /\ tasks[c].pc = "recv" /\ tasks' = tasks
      /\ active' = active /\ mishap' = mishap /\ Conns \subseteq Tasks
      /\ workers'[c] = "stopping" /\ \A d \in Conns \ {c} : workers'[d] = workers[d]
  BY DEF WorkerStopping, Tasks, IInv, TypeOK
<1>2. \A d \in Conns : workers'[d] = "connected" => ~IsPast(tasks'[d])
  BY <1>1, ZenonT(60) DEF GInv
<1>3. \A u \in Tasks : GoodReturn(tasks'[u]) /\ Sound(tasks[u], tasks'[u])
  BY <1>1, ZenonT(60) DEF GInv, Sound
<1>4. \A u \in Tasks : \A b, d : Passes(tasks[u], tasks'[u], b, d)
  BY <1>1, PassesFree, ZenonT(60)
<1>5. ASSUME NEW b \in Builds, IsActive(b)' PROVE GuardianStays(b) \/ ComesUnderWatch(b)
  <2>1. /\ active[b].conn \in Conns /\ active[b].conn \in Tasks
        /\ active'[b].conn = active[b].conn
    BY <1>1, <1>5, EntryConn DEF IsActive
  <2>2. CASE active[b].conn # c
    BY <1>1, <1>3, <1>4, <2>1, <2>2, ZenonT(60) DEF GuardianStays
  <2>3. CASE active[b].conn = c
    <3>1. tasks'[c].pc = "recv"
      BY <1>1
    <3>2. ~IsPast(tasks'[c]) /\ tasks'[c].pc # "close_disconnected" /\ tasks'[c].pc # "new"
      BY <3>1 DEF IsPast, OpenPcs
    <3>3. Watched(active[b].conn)'
      BY <2>1, <2>3, <3>2, ZenonT(60) DEF Watched
    <3> QED BY <2>1, <2>3, <3>2, <3>3, ZenonT(60) DEF ComesUnderWatch
  <2> QED BY <2>2, <2>3
<1> QED BY <1>1, <1>2, <1>3, <1>5, GuardBuilds, ZenonT(60)

\* A worker leaves, and a task without a role will list its builds.
LEMMA GoneGuard ==
    ASSUME IInv, GInv, NEW t \in Tasks, NEW q, NEW c \in Conns,
           tasks' = [tasks EXCEPT ![t] = q], GoodReturn(q), Lists(q, c),
           tasks[t].pc \notin RolePcs \/ Lists(tasks[t], c), tasks[t].then # "resolve_dead",
           t \in Conns => t = c \/ Sound(tasks[t], q),
           active' = active, mishap' = mishap, workers'[c] # "connected",
           \A d \in Conns \ {c} : workers'[d] = workers[d]
    PROVE  GInv'
<1>1. /\ tasks'[t] = q /\ \A u \in Tasks \ {t} : tasks'[u] = tasks[u]
      /\ Conns \subseteq Tasks
  BY DEF IInv, TasksOK, Tasks
<1>2. \A u \in Tasks : GoodReturn(tasks'[u])
  BY <1>1, ZenonT(60) DEF GInv
<1>3. \A d \in Conns \ {c} : Sound(tasks[d], tasks'[d])
  BY <1>1, <1>2, ZenonT(60) DEF Sound
<1>4. \A d \in Conns : workers'[d] = "connected" => ~IsPast(tasks'[d])
  BY <1>3, ZenonT(60) DEF GInv, Sound
<1>5. q.pc \in SnapshotPcs /\ q.c = c
  BY DEF Lists
<1>6. ASSUME NEW u \in Tasks, NEW b, NEW d \in Conns \ {c}
      PROVE  Passes(tasks[u], tasks'[u], b, d)
  <2>1. CASE u # t
    BY <1>1, <2>1, PassesFree, ZenonT(60)
  <2>2. CASE u = t /\ tasks[t].pc \notin RolePcs
    BY <2>2, RoleFree, PassesFree, ZenonT(60)
  <2>3. CASE u = t /\ Lists(tasks[t], c)
    BY <2>3 DEF Passes, Lists, Takes, Monitors, SnapshotPcs, TakePcs
  <2> QED BY <2>1, <2>2, <2>3
<1>7. ASSUME NEW b \in Builds, IsActive(b)' PROVE GuardianStays(b) \/ ComesUnderWatch(b)
  <2>1. /\ active[b].conn \in Conns /\ active[b].conn \in Tasks
        /\ active'[b].conn = active[b].conn
    BY <1>7, EntryConn DEF IsActive
  <2>2. CASE active[b].conn # c
    BY <1>3, <1>6, <2>1, <2>2, ZenonT(60) DEF GuardianStays
  <2>3. CASE active[b].conn = c
    <3>1. Watched(active[b].conn)'
      BY <1>1, <2>1, <2>3, ZenonT(60) DEF Watched
    <3>2. IsActive(b) /\ tasks[c].pc # "new"
      BY <1>7, <2>3, ZenonT(60) DEF IsActive, GInv
    <3>3. tasks'[c].pc # "new"
      BY <1>1, <1>5, <3>2 DEF SnapshotPcs
    <3> QED BY <2>1, <2>3, <3>1, <3>3, ZenonT(60) DEF ComesUnderWatch
  <2> QED BY <2>2, <2>3
<1> QED BY <1>2, <1>4, <1>7, GuardBuilds, ZenonT(60)

LEMMA WorkerStateSet ==
    ASSUME TypeOK, NEW c \in Conns, NEW st, SetWorkerState(c, st)
    PROVE  /\ workers'[c] = IF workers[c] = "absent" THEN "absent" ELSE st
           /\ \A d \in Conns \ {c} : workers'[d] = workers[d]
BY DEF TypeOK, SetWorkerState

LEMMA GoneSteps ==
    ASSUME IInv, GInv, NEW c \in Conns,
           \/ CloseDead(c)
           \/ \E s \in Slots : ForceDisconnect(s, c)
           \/ \E t \in Tasks : tasks[t].c = c /\ GraceDead(t)
    PROVE  GInv'
<1>1. TypeOK /\ tasks \in [Tasks -> TaskRecords] /\ Conns \subseteq Tasks /\ Slots \subseteq Tasks
  BY DEF IInv, TasksOK, Tasks
<1>2. CASE CloseDead(c)
  <2> DEFINE q == [Task("dead_snapshot", "closed") EXCEPT !.c = c]
  <2>1. /\ tasks' = [tasks EXCEPT ![c] = q] /\ active' = active /\ mishap' = mishap
        /\ tasks[c].pc = "close_dead"
    BY <1>2 DEF CloseDead
  <2>2. GoodReturn(q) /\ Lists(q, c)
    BY DEF Task, GoodReturn, GracePcs, Lists, SnapshotPcs
  <2> HIDE DEF q
  <2>3. tasks[c].pc \notin RolePcs /\ tasks[c].then # "resolve_dead"
    <3>1. tasks[c].pc \notin RolePcs
      BY <2>1 DEF RolePcs, HelperPcs, TakePcs, SnapshotPcs
    <3> QED BY <1>1, <3>1, RoleFree DEF Roleless
  <2>4. workers'[c] # "connected" /\ \A d \in Conns \ {c} : workers'[d] = workers[d]
    BY <1>1, <1>2, WorkerStateSet DEF CloseDead
  <2> QED BY <1>1, <2>1, <2>2, <2>3, <2>4, GoneGuard, ZenonT(60)
<1>3. CASE \E s \in Slots : ForceDisconnect(s, c)
  <2>1. PICK s \in Slots : ForceDisconnect(s, c)
    BY <1>3
  <2> DEFINE q == [Task("fd_sender", "reply") EXCEPT !.c = c]
  <2>2. /\ tasks' = [tasks EXCEPT ![s] = q] /\ active' = active /\ mishap' = mishap
        /\ tasks[s] = Idle
    BY <2>1 DEF ForceDisconnect
  <2>3. GoodReturn(q) /\ Lists(q, c)
    BY DEF Task, GoodReturn, GracePcs, Lists, SnapshotPcs
  <2> HIDE DEF q
  <2>4. tasks[s].pc \notin RolePcs /\ tasks[s].then # "resolve_dead" /\ s \notin Conns
    BY <2>2, IdentityAssumption DEF Idle, Task, RolePcs, HelperPcs, TakePcs, SnapshotPcs
  <2>5. workers'[c] # "connected" /\ \A d \in Conns \ {c} : workers'[d] = workers[d]
    BY <1>1, <2>1 DEF ForceDisconnect, TypeOK
  <2> QED BY <1>1, <2>2, <2>3, <2>4, <2>5, GoneGuard, ZenonT(60)
<1>4. CASE \E t \in Tasks : tasks[t].c = c /\ GraceDead(t)
  <2>1. PICK t \in Tasks : tasks[t].c = c /\ GraceDead(t)
    BY <1>4
  <2> DEFINE q == [tasks[t] EXCEPT !.pc = "dead_snapshot"]
  <2>2. /\ tasks' = [tasks EXCEPT ![t] = q] /\ active' = active /\ mishap' = mishap
        /\ tasks[t].pc = "grace_dead"
    BY <1>1, <2>1 DEF GraceDead, Goto
  <2>3. tasks[t].then # "resolve_dead" /\ tasks[t].ret = "idle"
    BY <2>2 DEF GInv, GoodReturn, GracePcs, HelperPcs
  <2>4. q.pc = "dead_snapshot" /\ q.then = tasks[t].then /\ q.ret = "idle" /\ q.c = c
    BY <1>1, <2>1, <2>3 DEF TaskRecords
  <2> HIDE DEF q
  <2>5. GoodReturn(q) /\ Lists(q, c) /\ Sound(tasks[t], q)
    BY <2>3, <2>4 DEF GoodReturn, GracePcs, Lists, SnapshotPcs, Sound, IsPast
  <2>6. Lists(tasks[t], c)
    BY <2>1, <2>2 DEF Lists, SnapshotPcs
  <2>7. workers'[c] # "connected" /\ \A d \in Conns \ {c} : workers'[d] = workers[d]
    BY <1>1, <2>1, WorkerStateSet DEF GraceDead
  <2> QED BY <2>2, <2>3, <2>5, <2>6, <2>7, GoneGuard, ZenonT(60)
<1> QED BY <1>2, <1>3, <1>4

\* The monitor of the grace period takes over from the closing connection.
LEMMA CloseDisconnectedGuard ==
    ASSUME IInv, GInv, NEW c \in Conns, CloseDisconnected(c)
    PROVE  GInv'
<1> DEFINE q == Task("closed", "closed")
           new == [Task("grace_wait", "idle") EXCEPT !.c = c]
<1>1. /\ c \in Tasks /\ tasks[c].pc = "close_disconnected" /\ active' = active
      /\ mishap' = mishap /\ Conns \subseteq Tasks /\ Spawn(c, q, new)
  BY DEF CloseDisconnected, Tasks
<1>2. /\ workers'[c] = IF workers[c] = "absent" THEN "absent" ELSE "disconnected"
      /\ \A d \in Conns \ {c} : workers'[d] = workers[d]
  BY WorkerStateSet DEF CloseDisconnected, IInv
<1>3. q # Idle
  BY DEF Task, Idle
<1>4. PICK s \in Free : tasks' = [tasks EXCEPT ![c] = q, ![s] = new]
  BY <1>1, <1>3, ZenonT(60) DEF Spawn
<1>5. s \in Tasks \ Conns /\ tasks[s] = Idle
  BY <1>4, IdentityAssumption DEF Free, Tasks
<1>6. /\ tasks'[c] = q /\ tasks'[s] = new
      /\ \A u \in Tasks \ {c, s} : tasks'[u] = tasks[u]
  BY <1>1, <1>4, <1>5 DEF IInv, TasksOK
<1>7. /\ Roleless(tasks[s]) /\ tasks[c].pc \notin RolePcs /\ GoodReturn(q) /\ GoodReturn(new)
      /\ Monitors(new, c) /\ q.pc = "closed"
  BY <1>1, <1>5 DEF Idle, Task, Roleless, RolePcs, HelperPcs, TakePcs, SnapshotPcs, GoodReturn,
     GracePcs, Monitors
<1> HIDE DEF q, new
<1>8. Roleless(tasks[c])
  BY <1>1, <1>7, RoleFree
<1>9. \A u \in Tasks : GoodReturn(tasks'[u])
  BY <1>6, <1>7, ZenonT(60) DEF GInv
<1>10. \A d \in Conns \ {c} : Sound(tasks[d], tasks'[d])
  BY <1>1, <1>5, <1>6, <1>9, ZenonT(60) DEF Sound
<1>11. \A d \in Conns : workers'[d] = "connected" => ~IsPast(tasks'[d])
  <2>1. workers'[c] # "connected"
    BY <1>2
  <2>2. \A d \in Conns \ {c} : workers'[d] = "connected" => ~IsPast(tasks'[d])
    BY <1>2, <1>10, ZenonT(60) DEF GInv, Sound
  <2> QED BY <2>1, <2>2
<1>12. \A u \in Tasks : \A b, d : Passes(tasks[u], tasks'[u], b, d)
  BY <1>6, <1>7, <1>8, PassesFree, ZenonT(60)
<1>13. ASSUME NEW b \in Builds, IsActive(b)'
       PROVE  tasks'[active'[b].conn].pc # "new" /\ (b \notin mishap' => Guarded(b)')
  <2>1. /\ active[b].conn \in Conns /\ active[b].conn \in Tasks /\ IsActive(b)
        /\ active'[b].conn = active[b].conn
    BY <1>1, <1>13, EntryConn DEF IsActive
  <2>2. tasks'[active'[b].conn].pc # "new"
    BY <1>6, <1>7, <1>10, <2>1, ZenonT(60) DEF Sound, GInv
  <2>3. ASSUME b \notin mishap' PROVE Guarded(b)'
    <3>1. Guarded(b)
      BY <1>1, <2>1, <2>3, ZenonT(60) DEF GInv
    <3>2. CASE active[b].conn # c
      BY <1>2, <1>10, <1>12, <2>1, <3>1, <3>2, GuardKept, ZenonT(60)
    <3>3. CASE active[b].conn = c /\ workers[c] # "absent"
      <4>1. workers'[c] = "disconnected"
        BY <1>2, <3>3
      <4> QED BY <1>5, <1>6, <1>7, <2>1, <3>3, <4>1, ZenonT(60) DEF Guarded, Watched
    <3>4. CASE active[b].conn = c /\ workers[c] = "absent"
      <4>1. (\E u \in Tasks : Lists(tasks[u], c)) \/ \E u \in Tasks : Takes(tasks[u], b)
        BY <1>1, <3>1, <3>4 DEF Guarded, Watched
      <4> QED BY <1>12, <2>1, <3>4, <4>1, ZenonT(60) DEF Passes, Guarded, Watched
    <3> QED BY <3>2, <3>3, <3>4
  <2> QED BY <2>2, <2>3
<1> QED BY <1>9, <1>11, <1>13, ZenonT(60) DEF GInv

\* The builds of the superseded entry come under the watch of the new connection.
LEMMA RegisterGuard ==
    ASSUME IInv, GInv, NEW c \in Conns, Register(c)
    PROVE  GInv'
<1>1. /\ c \in Tasks /\ Conns \subseteq Tasks /\ tasks[c].pc = "new" /\ mishap' = mishap
      /\ tasks \in [Tasks -> TaskRecords] /\ workers \in [Conns -> WorkerStates]
      /\ active \in [Builds -> ActiveRecords]
  BY DEF Register, Tasks, IInv, TasksOK, TypeOK
<1>2. tasks[c].pc \notin RolePcs
  BY <1>1 DEF RolePcs, HelperPcs, TakePcs, SnapshotPcs
<1>3. PICK q, C :
        /\ tasks' = [tasks EXCEPT ![c] = q] /\ q.pc \in {"add_sender", "supersede"}
        /\ q.then = tasks[c].then /\ (q.pc = "supersede" => q.ret = "add_sender")
        /\ C \subseteq Conns
        /\ \A d \in Conns \ {c} : workers'[d] = IF d \in C THEN "absent" ELSE workers[d]
        /\ \A b \in Builds : active'[b].conn = IF active[b].conn \in C THEN c
                                               ELSE active[b].conn
  <2>1. CASE /\ workers' = [workers EXCEPT ![c] = "connected"]
             /\ tasks' = Goto(c, "add_sender") /\ active' = active
    <3> DEFINE q == [tasks[c] EXCEPT !.pc = "add_sender"]
               none == {}
    <3>1. tasks' = [tasks EXCEPT ![c] = q]
      BY <1>1, <2>1 DEF Goto
    <3>2. q.pc = "add_sender" /\ q.then = tasks[c].then
      BY <1>1 DEF TaskRecords
    <3>3. /\ \A d \in Conns \ {c} : workers'[d] = IF d \in none THEN "absent" ELSE workers[d]
          /\ \A b \in Builds : active'[b].conn = IF active[b].conn \in none THEN c
                                                 ELSE active[b].conn
      BY <1>1, <2>1
    <3>4. none \subseteq Conns /\ (q.pc = "supersede" => q.ret = "add_sender")
          /\ q.pc \in {"add_sender", "supersede"}
      BY <3>2
    <3> HIDE DEF q, none
    <3> QED BY <3>1, <3>2, <3>3, <3>4, ZenonT(60)
  <2>2. CASE \E old \in EntriesOf(WorkerOf[c]) :
          /\ workers' = [workers EXCEPT ![old] = "absent", ![c] = "connected"]
          /\ tasks' = [tasks EXCEPT ![c].pc = "supersede", ![c].c = old,
                                    ![c].st = workers[old], ![c].ret = "add_sender"]
          /\ active' = [b \in Builds |-> IF Owns(old, b)
                           THEN [active[b] EXCEPT !.conn = c] ELSE active[b]]
    <3>1. PICK old \in Conns :
          /\ workers' = [workers EXCEPT ![old] = "absent", ![c] = "connected"]
          /\ tasks' = [tasks EXCEPT ![c].pc = "supersede", ![c].c = old,
                                    ![c].st = workers[old], ![c].ret = "add_sender"]
          /\ active' = [b \in Builds |-> IF Owns(old, b)
                           THEN [active[b] EXCEPT !.conn = c] ELSE active[b]]
      BY <2>2, ZenonT(60) DEF EntriesOf
    <3> DEFINE q == [tasks[c] EXCEPT !.pc = "supersede", !.c = old, !.st = workers[old],
                                     !.ret = "add_sender"]
    <3>2. tasks' = [tasks EXCEPT ![c] = q]
      BY <1>1, <3>1
    <3>3. q.pc = "supersede" /\ q.then = tasks[c].then /\ q.ret = "add_sender"
      BY <1>1 DEF TaskRecords
    <3> HIDE DEF q
    <3>4. \A d \in Conns \ {c} : workers'[d] = IF d \in {old} THEN "absent" ELSE workers[d]
      BY <1>1, <3>1
    <3>5. \A b \in Builds : active'[b].conn = IF active[b].conn \in {old} THEN c
                                              ELSE active[b].conn
      BY <1>1, <3>1 DEF Owns, ActiveRecords
    <3>6. {old} \subseteq Conns /\ q.pc \in {"add_sender", "supersede"}
      BY <3>3
    <3> QED BY <3>2, <3>3, <3>4, <3>5, <3>6, ZenonT(60)
  <2> QED BY <2>1, <2>2 DEF Register
<1>4. GoodReturn(q)
  BY <1>1, <1>2, <1>3, RoleFree DEF Roleless, GoodReturn, GracePcs
<1>5. /\ tasks'[c] = q
      /\ \A u \in Tasks \ {c} : tasks'[u] = tasks[u] /\ Sound(tasks[u], tasks'[u])
      /\ \A u \in Tasks : GoodReturn(tasks'[u])
      /\ \A u \in Tasks : \A b, d : Passes(tasks[u], tasks'[u], b, d)
  BY <1>1, <1>2, <1>3, <1>4, OneFree, ZenonT(60)
<1>6. ~IsPast(tasks'[c]) /\ tasks'[c].pc # "new" /\ tasks'[c].pc # "close_disconnected"
  BY <1>3, <1>5 DEF IsPast, OpenPcs
<1>7. \A d \in Conns : workers'[d] = "connected" => ~IsPast(tasks'[d])
  <2>1. \A d \in Conns \ {c} : workers'[d] = "connected" => workers[d] = "connected"
    BY <1>3
  <2> QED BY <1>1, <1>5, <1>6, <2>1, ZenonT(60) DEF GInv
<1>8. ASSUME NEW b \in Builds, IsActive(b)' PROVE GuardianStays(b) \/ ComesUnderWatch(b)
  <2>1. IsActive(b)
    BY <1>1, <1>3, <1>8, IdentityAssumption DEF IsActive
  <2>2. active[b].conn \in Conns \ {c}
    BY <1>1, <2>1, EntryConn, ZenonT(60) DEF GInv
  <2>3. CASE active'[b].conn = c
    <3>1. Watched(active[b].conn)'
      BY <1>6, <2>3, ZenonT(60) DEF Watched
    <3> QED BY <1>6, <2>3, <3>1, ZenonT(60) DEF ComesUnderWatch
  <2>4. CASE active'[b].conn # c
    <3>1. active'[b].conn = active[b].conn /\ active[b].conn \notin C
      BY <1>3, <2>4
    <3>2. workers'[active[b].conn] = workers[active[b].conn]
      BY <1>3, <2>2, <3>1
    <3> QED BY <1>1, <1>5, <2>2, <3>1, <3>2, ZenonT(60) DEF GuardianStays
  <2> QED BY <2>3, <2>4
<1> QED BY <1>1, <1>5, <1>7, <1>8, GuardBuilds, ZenonT(60)

\* The entry of the build moves to the connection that reports it.
LEMMA ReportedGuard ==
    ASSUME IInv, GInv, NEW t \in Conns, Attach(t) \/ Resume(t)
    PROVE  GInv'
<1>1. /\ t \in Tasks /\ Conns \subseteq Tasks /\ tasks[t].pc \in {"attach", "resume"}
      /\ mishap' = mishap /\ workers' = workers /\ active \in [Builds -> ActiveRecords]
  BY DEF Attach, Resume, Tasks, IInv, TypeOK
<1>2. tasks[t].ret = "recv" /\ tasks[t].pc \notin RolePcs \union OpenPcs
  BY <1>1 DEF GInv, GoodReturn, RolePcs, HelperPcs, TakePcs, SnapshotPcs, OpenPcs
<1>3. \A b \in Builds : active'[b].conn \in {active[b].conn, t}
  BY <1>1 DEF Attach, Resume, ActiveRecords
<1>4. Sound(tasks[t], After(t)) /\ After(t).pc # "ack_wait"
  BY <1>1, <1>2, AfterSound, ZenonT(60) DEF IInv
<1>5. \A u \in Tasks : Continues(u)
  <2>1. CASE tasks' = Return(t)
    BY <1>1, <1>2, <1>4, <2>1, ContinueOne, RoleFree, ZenonT(60) DEF Return, IInv
  <2>2. CASE tasks' = Cancel([tasks EXCEPT ![t] = After(t)], tasks[t].b)
    <3>1. tasks'[t] = After(t) /\ \A u \in Tasks \ {t} : Continues(u)
      BY <1>1, <1>4, <2>2, ContinueCancel, ZenonT(60) DEF IInv
    <3>2. Continues(t)
      BY <1>1, <1>2, <1>4, <3>1, RoleFree, ZenonT(60) DEF Continues
    <3> QED BY <3>1, <3>2
  <2> QED BY <2>1, <2>2 DEF Attach, Resume, Return
<1>6. \A u \in Tasks : Sound(tasks[u], tasks'[u]) /\ \A b, c : Passes(tasks[u], tasks'[u], b, c)
  BY <1>5, ContinuesFacts, ZenonT(60)
<1>7. \A u \in Tasks : GoodReturn(tasks'[u])
  BY <1>6, ZenonT(60) DEF Sound
<1>8. \A c \in Conns : workers'[c] = "connected" => ~IsPast(tasks'[c])
  BY <1>1, <1>6, ZenonT(60) DEF Sound, GInv
<1>9. ~IsPast(tasks'[t]) /\ tasks'[t].pc # "new" /\ tasks'[t].pc # "close_disconnected"
  BY <1>1, <1>2, <1>6 DEF Sound, IsPast
<1>10. ASSUME NEW b \in Builds, IsActive(b)' PROVE GuardianStays(b) \/ ComesUnderWatch(b)
  <2>1. CASE active'[b].conn = t
    <3>1. Watched(active[b].conn)'
      BY <1>9, <2>1, ZenonT(60) DEF Watched
    <3> QED BY <1>9, <2>1, <3>1, ZenonT(60) DEF ComesUnderWatch
  <2>2. CASE active'[b].conn = active[b].conn
    <3>1. active[b].conn \in Tasks
      BY <1>10, <2>2, EntryConn DEF IsActive
    <3> QED BY <1>1, <1>6, <2>2, <3>1, ZenonT(60) DEF GuardianStays
  <2> QED BY <1>3, <2>1, <2>2
<1> QED BY <1>1, <1>7, <1>8, <1>10, GuardBuilds, ZenonT(60)

(***************************************************************************)
(* Steps of guardians.                                                     *)
(***************************************************************************)

LEMMA RoleStep ==
    ASSUME IInv, GInv, Withdraws, NEW t \in Tasks, NEW q, tasks'[t] = q,
           \A u \in Tasks \ {t} : Continues(u), Sound(tasks[t], q),
           \A b \in Builds \ mishap' : active'[b].conn # None =>
             Passes(tasks[t], q, b, active[b].conn)
    PROVE  GInv'
BY ContinuesFacts, GuardStep, ZenonT(60)

LEMMA OthersContinue ==
    ASSUME TasksOK, NEW t \in Tasks, NEW q, tasks' = [tasks EXCEPT ![t] = q]
    PROVE  tasks'[t] = q /\ \A u \in Tasks \ {t} : Continues(u)
BY DEF TasksOK, Continues

\* A helper: its build stays in its hands or is inactive, and its list stays.
LEMMA HelperGuard ==
    ASSUME IInv, GInv, Withdraws, NEW t \in Tasks, NEW q, tasks'[t] = q,
           \A u \in Tasks \ {t} : Continues(u), Sound(tasks[t], q),
           tasks[t].pc \notin SnapshotPcs \union {"grace_wait", "resolve_dead"},
           \A b : tasks[t].then = "resolve_dead" /\ (\E x \in tasks[t].todo : x.b = b)
                    => Takes(q, b),
           tasks[t].pc \in TakePcs => \/ q.pc \in TakePcs /\ q.b = tasks[t].b
                                      \/ active'[tasks[t].b].conn = None
    PROVE  GInv'
<1>1. ASSUME NEW b \in Builds, active'[b].conn # None, NEW c
      PROVE  Passes(tasks[t], q, b, c)
  <2>1. ~Lists(tasks[t], c) /\ ~Monitors(tasks[t], c)
    BY DEF Lists, Monitors
  <2>2. ASSUME Takes(tasks[t], b) PROVE Takes(q, b)
    <3>1. CASE tasks[t].b = b /\ tasks[t].pc \in TakePcs
      BY <1>1, <3>1 DEF Takes
    <3>2. CASE tasks[t].then = "resolve_dead" /\ \E x \in tasks[t].todo : x.b = b
      BY <3>2
    <3> QED BY <2>2, <3>1, <3>2 DEF Takes
  <2> QED BY <2>1, <2>2, ZenonT(60) DEF Passes
<1> QED BY <1>1, RoleStep, ZenonT(60)

LEMMA HelperFields ==
    ASSUME IInv, GInv, Withdraws, NEW t \in Tasks, NEW q, tasks'[t] = q,
           \A u \in Tasks \ {t} : Continues(u),
           tasks[t].pc \notin SnapshotPcs \union {"grace_wait", "resolve_dead"} \union OpenPcs,
           q.then = tasks[t].then, q.todo = tasks[t].todo, q.ret = tasks[t].ret,
           q.b = tasks[t].b, q.pc \notin MarkedPcs,
           tasks[t].pc \in HelperPcs => q.pc \in HelperPcs,
           tasks[t].pc \in TakePcs => q.pc \in TakePcs \/ active'[tasks[t].b].conn = None
    PROVE  GInv'
<1>1. tasks[t].then = "resolve_dead" => q.pc \in HelperPcs
  BY DEF GInv, GoodReturn
<1>2. q.ret # "closed" \/ q.pc \in OpenPcs \/ IsPast(tasks[t])
  BY DEF IsPast
<1>3. Sound(tasks[t], q)
  BY <1>1, <1>2, SoundWhen, ZenonT(60)
<1>4. \A b : tasks[t].then = "resolve_dead" /\ (\E x \in tasks[t].todo : x.b = b)
               => Takes(q, b)
  BY ZenonT(60) DEF Takes
<1> QED BY <1>3, <1>4, HelperGuard

LEMMA HelperReturn ==
    ASSUME IInv, GInv, Withdraws, NEW t \in Tasks, tasks' = Return(t),
           tasks[t].pc \notin SnapshotPcs \union {"grace_wait", "resolve_dead"} \union OpenPcs,
           tasks[t].pc \in TakePcs => active'[tasks[t].b].conn = None
    PROVE  GInv'
<1>1. TasksOK
  BY DEF IInv
<1>2. tasks'[t] = After(t) /\ \A u \in Tasks \ {t} : Continues(u)
  BY <1>1, OthersContinue, ZenonT(60) DEF Return
<1>3. /\ Sound(tasks[t], After(t))
      /\ \A b : tasks[t].then = "resolve_dead" /\ (\E x \in tasks[t].todo : x.b = b)
                  => Takes(After(t), b)
  BY <1>1, AfterSound, ZenonT(60)
<1> QED BY <1>2, <1>3, HelperGuard

LEMMA HelperGoto ==
    ASSUME IInv, GInv, Withdraws, NEW t \in Tasks, NEW pc, tasks' = Goto(t, pc),
           tasks[t].pc \notin SnapshotPcs \union {"grace_wait", "resolve_dead"} \union OpenPcs,
           pc \notin MarkedPcs, tasks[t].pc \in HelperPcs => pc \in HelperPcs,
           tasks[t].pc \in TakePcs => pc \in TakePcs \/ active'[tasks[t].b].conn = None
    PROVE  GInv'
<1> DEFINE q == [tasks[t] EXCEPT !.pc = pc]
<1>1. TasksOK /\ tasks' = [tasks EXCEPT ![t] = q]
  BY DEF IInv, TasksOK, Goto
<1>2. /\ q.then = tasks[t].then /\ q.todo = tasks[t].todo /\ q.ret = tasks[t].ret
      /\ q.b = tasks[t].b /\ q.pc = pc
  BY <1>1 DEF TasksOK, TaskRecords
<1> HIDE DEF q
<1>3. tasks'[t] = q /\ \A u \in Tasks \ {t} : Continues(u)
  BY <1>1, OthersContinue, ZenonT(60)
<1> QED BY <1>2, <1>3, HelperFields

LEMMA RollbackTakeGuard ==
    ASSUME IInv, GInv, NEW t \in Tasks, RollbackTake(t)
    PROVE  GInv'
<1>1. PICK b \in Builds : b = tasks[t].b
  BY InHandKnown DEF RollbackTake, NoBuildPcs
<1>2. /\ workers' = workers /\ mishap' = mishap /\ tasks[t].pc = "rollback_take" /\ TasksOK
      /\ active \in [Builds -> ActiveRecords]
      /\ tasks[t].pc \notin SnapshotPcs \union {"grace_wait", "resolve_dead"} \union OpenPcs
  BY DEF RollbackTake, IInv, TypeOK, SnapshotPcs, OpenPcs
<1>3. CASE ~IsActive(b)
  <2>1. active' = active /\ tasks' = Return(t)
    BY <1>1, <1>3, ZenonT(60) DEF RollbackTake
  <2>2. Withdraws /\ active'[tasks[t].b].conn = None
    BY <1>1, <1>2, <1>3, <2>1 DEF Withdraws, IsActive
  <2> QED BY <1>2, <2>1, <2>2, HelperReturn
<1>4. CASE IsActive(b)
  <2> DEFINE q == [tasks[t] EXCEPT !.pc = "rollback_db"]
  <2>1. /\ active' = [active EXCEPT ![b] = NoActive]
        /\ tasks' = Cancel(Goto(t, "rollback_db"), b)
    BY <1>1, <1>4, ZenonT(60) DEF RollbackTake
  <2>2. Goto(t, "rollback_db") = [tasks EXCEPT ![t] = q]
    BY <1>2, ZenonT(60) DEF Goto, TasksOK
  <2>3. /\ q.then = tasks[t].then /\ q.todo = tasks[t].todo /\ q.ret = tasks[t].ret
        /\ q.b = tasks[t].b /\ q.pc = "rollback_db"
    BY <1>2 DEF TasksOK, TaskRecords
  <2> HIDE DEF q
  <2>4. tasks'[t] = q /\ \A u \in Tasks \ {t} : Continues(u)
    BY <1>2, <2>1, <2>2, <2>3, ContinueCancel, ZenonT(60)
  <2>5. Withdraws /\ active'[tasks[t].b].conn = None
    BY <1>1, <1>2, <2>1 DEF Withdraws, NoActive
  <2>6. q.pc \in HelperPcs /\ q.pc \notin MarkedPcs
    BY <2>3 DEF HelperPcs, MarkedPcs, GracePcs
  <2> QED BY <1>2, <2>3, <2>4, <2>5, <2>6, HelperFields
<1> QED BY <1>3, <1>4

LEMMA RollbackGuard ==
    ASSUME IInv, GInv, NEW t \in Tasks,
           RollbackDb(t) \/ RollbackEnqueue(t) \/ RollbackWatcher(t) \/ FinishWatcher(t)
    PROVE  GInv'
<1>1. /\ tasks[t].pc \notin SnapshotPcs \union {"grace_wait", "resolve_dead"} \union OpenPcs
      /\ tasks[t].pc \notin TakePcs
  BY DEF RollbackDb, RollbackEnqueue, RollbackWatcher, FinishWatcher, SnapshotPcs, OpenPcs,
     TakePcs
<1>2. Withdraws
  <2>1. CASE RollbackDb(t)
    BY <2>1, FaultWithdraws DEF RollbackDb
  <2>2. CASE RollbackEnqueue(t) \/ RollbackWatcher(t) \/ FinishWatcher(t)
    BY <2>2 DEF RollbackEnqueue, RollbackWatcher, FinishWatcher, Withdraws, queue
  <2> QED BY <2>1, <2>2
<1>3. CASE RollbackDb(t) \/ RollbackEnqueue(t)
  <2>1. \A pc \in {"rollback_enqueue", "rollback_watcher"} : pc \in HelperPcs /\ pc \notin MarkedPcs
    BY DEF HelperPcs, MarkedPcs, GracePcs
  <2>2. PICK pc \in {"rollback_enqueue", "rollback_watcher"} : tasks' = Goto(t, pc)
    BY <1>3 DEF RollbackDb, RollbackEnqueue
  <2> QED BY <1>1, <1>2, <2>1, <2>2, HelperGoto
<1>4. CASE RollbackWatcher(t) \/ FinishWatcher(t)
  <2>1. tasks' = Return(t)
    BY <1>4 DEF RollbackWatcher, FinishWatcher
  <2> QED BY <1>1, <1>2, <2>1, HelperReturn
<1> QED BY <1>3, <1>4

LEMMA FinishGuard ==
    ASSUME IInv, GInv, NEW t \in Tasks, FinishDb(t) \/ FinishLog(t) \/ FinishActive(t)
    PROVE  GInv'
<1>1. /\ TasksOK /\ active \in [Builds -> ActiveRecords]
      /\ tasks[t].pc \notin SnapshotPcs \union {"grace_wait", "resolve_dead"} \union OpenPcs
  BY DEF FinishDb, FinishLog, FinishActive, SnapshotPcs, OpenPcs, IInv, TypeOK
<1>2. CASE FinishDb(t)
  <2> DEFINE pc == IF tasks[t].pc = "fin_db" THEN "fin_log" ELSE "done_active"
             q == [tasks[t] EXCEPT !.st = "none", !.pc = pc]
  <2>1. tasks' = [tasks EXCEPT ![t] = q] /\ tasks[t].pc \in {"fin_db", "done_db"}
    BY <1>1, <1>2 DEF FinishDb, TasksOK
  <2>2. /\ q.then = tasks[t].then /\ q.todo = tasks[t].todo /\ q.ret = tasks[t].ret
        /\ q.b = tasks[t].b /\ q.pc = pc
    BY <1>1 DEF TasksOK, TaskRecords
  <2>3. /\ q.pc \in TakePcs /\ q.pc \notin MarkedPcs
        /\ tasks[t].pc \in HelperPcs => q.pc \in HelperPcs
    BY <2>1, <2>2 DEF HelperPcs, TakePcs, MarkedPcs, GracePcs
  <2> HIDE DEF q, pc
  <2>4. tasks'[t] = q /\ \A u \in Tasks \ {t} : Continues(u)
    BY <1>1, <2>1, OthersContinue, ZenonT(60)
  <2>5. Withdraws
    BY <1>2, FaultWithdraws DEF FinishDb
  <2> QED BY <1>1, <2>2, <2>3, <2>4, <2>5, HelperFields
<1>3. CASE FinishLog(t)
  <2> DEFINE pc == IF tasks[t].pc = "fin_log" THEN "fin_active" ELSE "done_watcher"
  <2>1. tasks' = Goto(t, pc) /\ tasks[t].pc \in {"fin_log", "done_log"}
    BY <1>3 DEF FinishLog
  <2>2. /\ pc \notin MarkedPcs
        /\ tasks[t].pc \in HelperPcs => pc \in HelperPcs
        /\ tasks[t].pc \in TakePcs => pc \in TakePcs
    BY <2>1 DEF HelperPcs, TakePcs, MarkedPcs, GracePcs
  <2>3. Withdraws
    BY <1>3, FaultWithdraws DEF FinishLog
  <2> HIDE DEF pc
  <2> QED BY <1>1, <2>1, <2>2, <2>3, HelperGoto
<1>4. CASE FinishActive(t)
  <2>1. tasks[t].b \in Builds
    BY <1>4, InHandKnown DEF FinishActive, NoBuildPcs
  <2>2. Withdraws /\ active'[tasks[t].b].conn = None
    BY <1>1, <1>4, <2>1 DEF FinishActive, Withdraws, NoActive
  <2>3. CASE tasks[t].pc = "fin_active"
    <3>1. tasks' = Goto(t, "fin_watcher")
      BY <1>4, <2>3 DEF FinishActive
    <3>2. "fin_watcher" \in HelperPcs /\ "fin_watcher" \notin MarkedPcs
      BY DEF HelperPcs, MarkedPcs, GracePcs
    <3> QED BY <1>1, <2>2, <3>1, <3>2, HelperGoto
  <2>4. CASE tasks[t].pc = "done_active"
    <3>1. tasks' = Goto(t, "done_log")
      BY <1>4, <2>4 DEF FinishActive
    <3>2. tasks[t].pc \notin HelperPcs /\ "done_log" \notin MarkedPcs
      BY <2>4 DEF HelperPcs, MarkedPcs, GracePcs
    <3> QED BY <1>1, <2>2, <3>1, <3>2, HelperGoto
  <2>5. CASE tasks[t].pc = "remove_only"
    <3>1. tasks' = Return(t)
      BY <1>4, <2>5 DEF FinishActive
    <3> QED BY <1>1, <2>2, <3>1, HelperReturn
  <2> QED BY <1>4, <2>3, <2>4, <2>5 DEF FinishActive
<1> QED BY <1>2, <1>3, <1>4

\* The builds of the connection are on the list.
LEMMA DeadSnapshotGuard ==
    ASSUME IInv, GInv, NEW t \in Tasks, DeadSnapshot(t)
    PROVE  GInv'
<1> DEFINE c == tasks[t].c
           q == [tasks[t] EXCEPT !.pc = "resolve_dead", !.c = None, !.todo = WithReceipt(c)]
<1>1. /\ TasksOK /\ tasks[t].pc = "dead_snapshot" /\ tasks[t].ret \in Returns
      /\ tasks' = [tasks EXCEPT ![t] = NextCandidate(q)]
  BY DEF DeadSnapshot, IInv, TasksOK, TaskRecords
<1>2. Withdraws
  BY QueueWithdraws DEF DeadSnapshot
<1>3. q.pc = "resolve_dead" /\ q.ret = tasks[t].ret /\ q.todo = WithReceipt(c)
  BY <1>1 DEF TasksOK, TaskRecords
<1> HIDE DEF q
<1>4. Sound(tasks[t], NextCandidate(q))
  <2>1. Sound(tasks[t], q)
    BY <1>1, <1>3 DEF Sound, GoodReturn, IsPast, GracePcs, OpenPcs, HelperPcs
  <2> QED BY <1>1, <1>3, <2>1, CandidateSound DEF IsPast, OpenPcs
<1>5. tasks'[t] = NextCandidate(q) /\ \A u \in Tasks \ {t} : Continues(u)
  BY <1>1, OthersContinue, ZenonT(60)
<1>6. ASSUME NEW b \in Builds PROVE Passes(tasks[t], NextCandidate(q), b, active[b].conn)
  <2>1. ~Takes(tasks[t], b) /\ ~Monitors(tasks[t], active[b].conn)
    BY <1>1 DEF GInv, GoodReturn, HelperPcs, Takes, TakePcs, Monitors
  <2>2. ASSUME Lists(tasks[t], active[b].conn) PROVE Takes(NextCandidate(q), b)
    <3>1. active[b].conn = c
      BY <2>2 DEF Lists
    <3>2. [b |-> b, receipt |-> active[b].receipt, live |-> FALSE] \in q.todo
      BY <1>3, <3>1, ZenonT(60) DEF WithReceipt, Owns
    <3>3. \E x \in q.todo : x.b = b
      BY <3>2
    <3> QED BY <1>3, <3>3, ZenonT(60) DEF NextCandidate, Takes
  <2> QED BY <2>1, <2>2, ZenonT(60) DEF Passes
<1> QED BY <1>2, <1>4, <1>5, <1>6, RoleStep, ZenonT(60)

\* A candidate is left out only where the statement failed.
LEMMA ResolveDeadGuard ==
    ASSUME IInv, GInv, NEW t \in Tasks, ResolveDeadBuild(t)
    PROVE  GInv'
<1>1. PICK x, ok :
        /\ tasks' = [tasks EXCEPT ![t] = Resolve(t, x,
               IF ok THEN DeadWorkerResolution(db[x.b], x.receipt) ELSE "skip")]
        /\ Fault(x.b, ok)
  BY ZenonT(60) DEF ResolveDeadBuild
<1> DEFINE decision == IF ok THEN DeadWorkerResolution(db[x.b], x.receipt) ELSE "skip"
           q == Resolve(t, x, decision)
<1>2. /\ TasksOK /\ GoodReturn(tasks[t]) /\ tasks[t].pc = "resolve_dead"
      /\ tasks' = [tasks EXCEPT ![t] = q]
  BY <1>1 DEF ResolveDeadBuild, IInv, GInv
<1>3. Withdraws
  BY <1>1, FaultWithdraws DEF ResolveDeadBuild
<1>4. decision # "skip" \/ x.b \in mishap'
  BY <1>1 DEF DeadWorkerResolution, Fault
<1> HIDE DEF decision
<1>5. /\ Sound(tasks[t], q)
      /\ \A b : /\ \E y \in tasks[t].todo : y.b = b
                /\ b # x.b \/ decision # "skip"
                => Takes(q, b)
  BY <1>2, ResolveFacts
<1> HIDE DEF q
<1>6. tasks'[t] = q /\ \A u \in Tasks \ {t} : Continues(u)
  BY <1>2, OthersContinue, ZenonT(60)
<1>7. ASSUME NEW b \in Builds \ mishap', NEW c PROVE Passes(tasks[t], q, b, c)
  <2>1. ~Lists(tasks[t], c) /\ ~Monitors(tasks[t], c)
    BY <1>2 DEF Lists, Monitors, SnapshotPcs
  <2>2. ASSUME Takes(tasks[t], b) PROVE Takes(q, b)
    <3>1. \E y \in tasks[t].todo : y.b = b
      BY <1>2, <2>2 DEF Takes, TakePcs
    <3>2. b # x.b \/ decision # "skip"
      BY <1>4, <1>7
    <3> QED BY <1>5, <3>1, <3>2
  <2> QED BY <2>1, <2>2, ZenonT(60) DEF Passes
<1> QED BY <1>3, <1>5, <1>6, <1>7, RoleStep, ZenonT(60)

LEMMA GraceExpiredGuard ==
    ASSUME IInv, GInv, NEW t \in Tasks, GraceExpired(t)
    PROVE  GInv'
<1>1. /\ TasksOK /\ tasks[t].pc = "grace_wait" /\ tasks[t].ret = "idle"
      /\ tasks[t].then # "resolve_dead"
  BY DEF GraceExpired, IInv, GInv, GoodReturn, GracePcs, HelperPcs
<1>2. Withdraws
  BY QueueWithdraws DEF GraceExpired
<1>3. \A b, c : ~Takes(tasks[t], b) /\ ~Lists(tasks[t], c)
  BY <1>1 DEF Takes, TakePcs, Lists, SnapshotPcs
<1>4. CASE workers[tasks[t].c] = "disconnected"
  <2> DEFINE q == [tasks[t] EXCEPT !.pc = "grace_dead"]
  <2>1. tasks' = [tasks EXCEPT ![t] = q]
    BY <1>1, <1>4 DEF GraceExpired, Goto, TasksOK
  <2>2. q.pc = "grace_dead" /\ q.ret = "idle" /\ q.then = tasks[t].then /\ q.c = tasks[t].c
    BY <1>1 DEF TasksOK, TaskRecords
  <2> HIDE DEF q
  <2>3. Sound(tasks[t], q)
    BY <1>1, <2>2 DEF Sound, GoodReturn, IsPast
  <2>4. \A c : Monitors(tasks[t], c) => Lists(q, c)
    BY <2>2 DEF Monitors, Lists, SnapshotPcs
  <2>5. tasks'[t] = q /\ \A u \in Tasks \ {t} : Continues(u)
    BY <1>1, <2>1, OthersContinue, ZenonT(60)
  <2>6. \A b, c : Passes(tasks[t], q, b, c)
    BY <1>3, <2>4, ZenonT(60) DEF Passes
  <2> QED BY <1>2, <2>3, <2>5, <2>6, RoleStep, ZenonT(60)
<1>5. CASE workers[tasks[t].c] # "disconnected"
  <2>1. tasks' = [tasks EXCEPT ![t] = After(t)]
    BY <1>5 DEF GraceExpired, Return
  <2>2. Sound(tasks[t], After(t))
    BY <1>1, AfterSound, ZenonT(60) DEF OpenPcs
  <2>3. tasks'[t] = After(t) /\ \A u \in Tasks \ {t} : Continues(u)
    BY <1>1, <2>1, OthersContinue, ZenonT(60)
  <2>4. \A c : ~(Monitors(tasks[t], c) /\ workers[c] = "disconnected")
    BY <1>5 DEF Monitors
  <2>5. \A b, c : Passes(tasks[t], After(t), b, c)
    BY <1>3, <2>4, ZenonT(60) DEF Passes
  <2> QED BY <1>2, <2>2, <2>3, <2>5, RoleStep, ZenonT(60)
<1> QED BY <1>4, <1>5

LEMMA ForceSenderGuard ==
    ASSUME IInv, GInv, NEW t \in Tasks, ForceSender(t)
    PROVE  GInv'
<1> DEFINE q == [tasks[t] EXCEPT !.pc = "dead_snapshot"]
<1>1. /\ TasksOK /\ tasks[t].pc = "fd_sender" /\ tasks' = [tasks EXCEPT ![t] = q]
      /\ tasks[t].then # "resolve_dead"
  BY DEF ForceSender, Goto, IInv, TasksOK, GInv, GoodReturn, HelperPcs
<1>2. Withdraws
  BY QueueWithdraws DEF ForceSender
<1>3. q.pc = "dead_snapshot" /\ q.ret = tasks[t].ret /\ q.then = tasks[t].then /\ q.c = tasks[t].c
  BY <1>1 DEF TasksOK, TaskRecords
<1> HIDE DEF q
<1>4. Sound(tasks[t], q)
  BY <1>1, <1>3 DEF Sound, GoodReturn, IsPast, GracePcs, OpenPcs
<1>5. \A b, c : Passes(tasks[t], q, b, c)
  BY <1>1, <1>3 DEF Passes, Takes, TakePcs, Lists, SnapshotPcs, Monitors
<1>6. tasks'[t] = q /\ \A u \in Tasks \ {t} : Continues(u)
  BY <1>1, OthersContinue, ZenonT(60)
<1> QED BY <1>2, <1>4, <1>5, <1>6, RoleStep, ZenonT(60)

\* The builds of a dropped handler are those of the mishap.
LEMMA DropGuard ==
    ASSUME IInv, GInv, NEW t \in Tasks, Drop(t)
    PROVE  GInv'
<1> DEFINE q == IF t \in Conns THEN Task("close_check", "closed") ELSE Idle
<1>1. /\ TasksOK /\ tasks' = [tasks EXCEPT ![t] = q] /\ tasks[t].ret \in {"recv", "reply"}
      /\ mishap' = mishap \union InHand(t)
  BY DEF Drop, Dropped, IInv
<1>2. Withdraws
  BY QueueWithdraws DEF Drop
<1>3. Sound(tasks[t], q)
  BY DEF Idle, Task, Sound, GoodReturn, IsPast, GracePcs, OpenPcs
<1> HIDE DEF q
<1>4. tasks'[t] = q /\ \A u \in Tasks \ {t} : Continues(u)
  BY <1>1, OthersContinue, ZenonT(60)
<1>5. tasks[t].pc \notin GracePcs
  BY <1>1 DEF GInv, GoodReturn
<1>6. ASSUME NEW b \in Builds \ mishap' PROVE Passes(tasks[t], q, b, active[b].conn)
  <2>1. b \notin InHand(t)
    BY <1>1, <1>6
  <2>2. ~Takes(tasks[t], b)
    BY <2>1, ZenonT(60) DEF InHand, Takes
  <2>3. ~Monitors(tasks[t], active[b].conn)
    BY <1>5 DEF Monitors, GracePcs
  <2>4. ~Lists(tasks[t], active[b].conn)
    <3>1. SUFFICES ASSUME Lists(tasks[t], active[b].conn) PROVE FALSE
      OBVIOUS
    <3>2. tasks[t].pc \in {"fd_sender", "dead_snapshot"} /\ tasks[t].c = active[b].conn
      BY <1>5, <3>1 DEF Lists, SnapshotPcs, GracePcs
    <3>3. b \in InHand(t)
      BY <3>2 DEF InHand, Owns
    <3> QED BY <2>1, <3>3
  <2> QED BY <2>2, <2>3, <2>4, ZenonT(60) DEF Passes
<1> QED BY <1>2, <1>3, <1>4, <1>6, RoleStep, ZenonT(60)

\* The connection of a new entry is connected, so it has its cleanup ahead.
LEMMA DispatchGuard ==
    ASSUME IInv, LInv, GInv, NEW t \in Tasks, Dispatch(t)
    PROVE  GInv'
<1>1. PICK b : b = NextPending(lanes)
  OBVIOUS
<1>2. b \in Builds
  BY <1>1, Popped DEF Dispatch
<1> DEFINE e(c) == [conn |-> c, receipt |-> "awaiting", cancelled |-> FALSE,
                    tok |-> CHOOSE n \in FreshTokens(b) : TRUE]
<1>3. PICK c \in IdleMatching(b), ok \in DbOutcomes(b) : \E packed \in Pack(t, b, c) :
        /\ active' = IF ok THEN [active EXCEPT ![b] = e(c)] ELSE active
        /\ tasks' = IF ok THEN [tasks EXCEPT ![t] = packed]
                    ELSE [tasks EXCEPT ![t] = Home(tasks[t].ret)]
        /\ Fault(b, ok)
  BY <1>1, ZenonT(60) DEF Dispatch
<1>4. e(c).conn = c
  OBVIOUS
<1> HIDE DEF e
<1>5. /\ TasksOK /\ tasks[t].pc = "try_dispatch" /\ workers' = workers
      /\ mishap \subseteq mishap' /\ active \in [Builds -> ActiveRecords]
      /\ Conns \subseteq Tasks /\ c \in Conns /\ workers[c] = "connected"
  BY <1>3, FaultGrows DEF Dispatch, IInv, TypeOK, Tasks, IdleMatching, IdleWorkers
<1>6. \A d \in Builds : active'[d].conn \in {active[d].conn, c}
  BY <1>2, <1>3, <1>4, <1>5
<1>7. tasks[t].pc \notin RolePcs \union OpenPcs
  BY <1>5 DEF RolePcs, HelperPcs, TakePcs, SnapshotPcs, OpenPcs
<1>8. PICK q : tasks' = [tasks EXCEPT ![t] = q] /\ Sound(tasks[t], q)
  <2> DEFINE q1 == [Task("send_new", tasks[t].ret) EXCEPT !.b = b, !.c = c]
             q2 == [Task("fin_db", tasks[t].ret) EXCEPT !.b = b, !.st = "failure"]
  <2>1. /\ q1.pc = "send_new" /\ q1.ret = tasks[t].ret /\ q1.then = tasks[t].ret
        /\ q2.pc = "fin_db" /\ q2.ret = tasks[t].ret /\ q2.then = tasks[t].ret
        /\ tasks[t].ret \in Returns
    BY <1>5 DEF Task, TasksOK, TaskRecords
  <2>2. \A packed \in Pack(t, b, c) : packed = q1 \/ packed = q2
    BY DEF Pack
  <2> HIDE DEF q1, q2
  <2>3. Sound(tasks[t], q1) /\ Sound(tasks[t], q2)
    BY <1>7, <2>1 DEF Sound, GoodReturn, IsPast, GracePcs, Returns
  <2>4. Sound(tasks[t], Home(tasks[t].ret))
    BY <1>5, <1>7, HomeSound, ZenonT(60)
  <2> QED BY <1>3, <2>2, <2>3, <2>4, ZenonT(60)
<1>9. \A u \in Tasks : Continues(u)
  BY <1>5, <1>7, <1>8, RoleFree, ContinueOne, ZenonT(60)
<1>10. \A u \in Tasks : Sound(tasks[u], tasks'[u]) /\ \A d, a : Passes(tasks[u], tasks'[u], d, a)
  BY <1>9, ContinuesFacts, ZenonT(60)
<1>11. \A u \in Tasks : GoodReturn(tasks'[u])
  BY <1>10, ZenonT(60) DEF Sound
<1>12. \A a \in Conns : workers'[a] = "connected" => ~IsPast(tasks'[a])
  BY <1>5, <1>10, ZenonT(60) DEF Sound, GInv
<1>13. ~IsPast(tasks'[c]) /\ workers'[c] # "absent" /\ tasks'[c].pc # "new"
  <2>1. tasks[c].pc # "new"
    BY <1>5 DEF LInv, ConnsOK
  <2> QED BY <1>5, <1>10, <1>12, <2>1 DEF Sound
<1>14. ASSUME NEW d \in Builds, IsActive(d)' PROVE GuardianStays(d) \/ ComesUnderWatch(d)
  <2>1. CASE active'[d].conn = c
    <3>1. Watched(active[d].conn)'
      BY <1>13, <2>1, ZenonT(60) DEF Watched
    <3> QED BY <1>13, <2>1, <3>1, ZenonT(60) DEF ComesUnderWatch
  <2>2. CASE active'[d].conn = active[d].conn
    <3>1. active[d].conn \in Tasks
      BY <1>14, <2>2, EntryConn DEF IsActive
    <3> QED BY <1>5, <1>10, <2>2, <3>1, ZenonT(60) DEF GuardianStays
  <2> QED BY <1>6, <2>1, <2>2
<1> QED BY <1>5, <1>11, <1>12, <1>14, GuardBuilds, ZenonT(60)

LEMMA InitGuard == Init => GInv
<1> SUFFICES ASSUME Init PROVE GInv
  OBVIOUS
<1>1. \A t \in Tasks : tasks[t] = Task("new", "closed") \/ tasks[t] = Idle
  BY DEF Init
<1>2. GoodReturn(Task("new", "closed")) /\ GoodReturn(Idle)
  BY DEF Idle, Task, GoodReturn, GracePcs
<1>3. \A b \in Builds : ~IsActive(b)
  BY DEF Init, IsActive, NoActive
<1>4. \A c \in Conns : workers[c] # "connected"
  BY DEF Init
<1> QED BY <1>1, <1>2, <1>3, <1>4, ZenonT(60) DEF GInv

LEMMA RestartGuard ==
    ASSUME IInv, GInv, Restart
    PROVE  GInv'
<1>1. \A t \in Tasks : \/ tasks'[t] = tasks[t] \/ tasks'[t] = Idle
                       \/ tasks'[t] = Task("closed", "closed")
  BY DEF Restart
<1>2. GoodReturn(Task("closed", "closed")) /\ GoodReturn(Idle)
  BY DEF Idle, Task, GoodReturn, GracePcs
<1>3. \A t \in Tasks : GoodReturn(tasks'[t])
  BY <1>1, <1>2, ZenonT(60) DEF GInv
<1>4. \A b \in Builds : ~IsActive(b)'
  BY DEF Restart, IsActive, NoActive
<1>5. \A c \in Conns : workers'[c] # "connected"
  BY DEF Restart
<1> QED BY <1>3, <1>4, <1>5, ZenonT(60) DEF GInv

(***************************************************************************)
(* The actions together.                                                   *)
(***************************************************************************)
LEMMA StepGuard ==
    ASSUME IInv, LInv, GInv, NEW t \in Tasks, Step(t)
    PROVE  GInv'
<1>1. ASSUME GraceDead(t) PROVE GInv'
  <2>1. tasks[t].c \in Conns
    BY <1>1 DEF GraceDead, IInv, TasksOK, GoodTask, ConnPcs
  <2> QED BY <1>1, <2>1, GoneSteps, ZenonT(60)
<1> QED BY <1>1, SubmitGuard, DispatcherGuard, DispatchGuard, ArmAckGuard, RollbackTakeGuard,
       RollbackGuard, FinishGuard, AcceptedCancelGuard, RevokeGuard, RevokeSendGuard,
       IdleReconcileGuard, DeadSnapshotGuard, ResolveDeadGuard, GraceExpiredGuard,
       ForceSenderGuard DEF Step

LEMMA ConnGuard ==
    ASSUME IInv, LInv, GInv, NEW c \in Conns,
           ConnStep(c) \/ Register(c) \/ HelloRefused(c) \/ Message(c)
    PROVE  GInv'
<1>1. ASSUME ConnStep(c) PROVE GInv'
  BY <1>1, ConnectionGuard, ReportedGuard, CloseArchGuard, CloseDisconnectedGuard, GoneSteps
     DEF ConnStep
<1>2. ASSUME Message(c) PROVE GInv'
  BY <1>2, LifecycleGuard, StatusGuard, WorkerStoppingGuard DEF Message
<1> QED BY <1>1, <1>2, RegisterGuard, HelloRefusedGuard

LEMMA RequestGuard ==
    ASSUME IInv, LInv, GInv, NEW s \in Slots, Request(s)
    PROVE  GInv'
<1>1. s \in Tasks
  BY DEF Tasks
<1> QED BY <1>1, SubmitGuard, RevokeRequestGuard, GoneSteps DEF Request

LEMMA NextGuard == IInv /\ LInv /\ GInv /\ [Next]_vars => GInv'
<1>1. ASSUME IInv, LInv, GInv, Next PROVE GInv'
  BY <1>1, StepGuard, DropGuard, DropInDispatchGuard, ConnGuard, RequestGuard, SweepGuard,
     RestartGuard DEF Next
<1>2. ASSUME IInv, LInv, GInv, UNCHANGED vars PROVE GInv'
  BY <1>2, ZenonT(60) DEF vars, GInv, Guarded, Watched, IsActive
<1> QED BY <1>1, <1>2

LEMMA GuardianFound == IInv /\ GInv => ActiveHasGuardian
<1> SUFFICES ASSUME IInv, GInv, NEW b \in Builds \ mishap, IsActive(b)
             PROVE  \/ Attended(active[b].conn)
                    \/ \E t \in Tasks : tasks[t].b = b \/ \E x \in tasks[t].todo : x.b = b
  BY DEF ActiveHasGuardian
<1> DEFINE c == active[b].conn
<1>1. Guarded(b) /\ c \in Tasks
  BY EntryConn DEF GInv
<1>2. CASE \E t \in Tasks : Takes(tasks[t], b)
  BY <1>2, ZenonT(60) DEF Takes
<1>3. CASE \E t \in Tasks : Lists(tasks[t], c) \/ Monitors(tasks[t], c)
  <2>1. PICK t \in Tasks : tasks[t].c = c /\ tasks[t].pc \in SnapshotPcs \union {"grace_wait"}
    BY <1>3 DEF Lists, Monitors
  <2> QED BY <2>1 DEF Attended, SnapshotPcs
<1>4. CASE ~IsPast(tasks[c]) \/ tasks[c].pc = "close_disconnected"
  <2>1. tasks[c].pc # "closed"
    BY <1>1, <1>4 DEF IsPast, OpenPcs, GInv, GoodReturn
  <2>2. ~(tasks[c].ret = "closed" /\
            tasks[c].pc \in {"resolve_dead", "try_dispatch", "send_new", "arm_ack"})
    BY <1>4 DEF IsPast, OpenPcs
  <2> QED BY <2>1, <2>2 DEF Attended
<1> QED BY <1>1, <1>2, <1>3, <1>4 DEF Guarded, Watched
=============================================================================
