-------------------------- MODULE BuildServerProofs --------------------------
(***************************************************************************)
(* The theorems about BuildServer, for every value of the constants: type  *)
(* correctness, that a build is in one place at most, that no queued build *)
(* is forgotten, that each revocation has a task that ends it, that an ack *)
(* timer belongs to the entry it was armed for, that a worker has one live *)
(* entry, that an active build has a guardian, and that the server         *)
(* implements BuildCustody.                                                *)
(*                                                                         *)
(* IInv is inductive, one lemma per action: the steps of tasks are in      *)
(* ServerLifecycleProofs, those of connections and those that move a build *)
(* are here.  LInv is shown inductive with it in ServerLifecycleProofs,    *)
(* GInv with both in ServerGuardianProofs.                                 *)
(***************************************************************************)
EXTENDS ServerLifecycleProofs, ServerGuardianProofs

(***************************************************************************)
(* Connections.                                                            *)
(***************************************************************************)
LEMMA RegisterInv ==
    ASSUME IInv, NEW c \in Conns, Register(c)
    PROVE  IInv'
<1>1. c \in Tasks /\ GoodTask(tasks[c]) /\ tasks[c] \in TaskRecords
  BY ZenonT(60) DEF IInv, TasksOK, Tasks
<1>2. CASE workers' = [workers EXCEPT ![c] = "connected"]
           /\ tasks' = Goto(c, "add_sender") /\ active' = active
  <2>1. Ready(c, "add_sender") /\ "add_sender" \notin CarryPcs
    BY DEF Ready, Pcs, NoBuildPcs, ConnPcs, CarryPcs
  <2>2. StepOK /\ Quiet
    BY <1>1, <1>2, <2>1, GotoStep DEF IInv
  <2>3. Rest
    BY <1>2, ConnRest, ZenonT(60) DEF Register, IInv, TypeOK, WorkerStates, Registered
  <2> QED BY <1>2, <2>2, <2>3, Assemble, ZenonT(60) DEF Register, IInv, TypeOK, IsActive
<1>3. ASSUME NEW old \in EntriesOf(WorkerOf[c]),
             workers' = [workers EXCEPT ![old] = "absent", ![c] = "connected"],
             tasks' = [tasks EXCEPT ![c].pc = "supersede", ![c].c = old,
                                    ![c].st = workers[old], ![c].ret = "add_sender"],
             active' = [b \in Builds |-> IF Owns(old, b)
                           THEN [active[b] EXCEPT !.conn = c] ELSE active[b]]
      PROVE  IInv'
  <2> DEFINE r == [tasks[c] EXCEPT !.pc = "supersede", !.c = old,
                                   !.st = workers[old], !.ret = "add_sender"]
  <2>1. old \in Conns /\ workers[old] \in Registered
    BY DEF EntriesOf
  <2>2. tasks' = [tasks EXCEPT ![c] = r]
    BY <1>1, <1>3, ZenonT(60) DEF IInv, TasksOK
  <2>3. /\ r \in TaskRecords /\ r.pc = "supersede" /\ r.c = old
        /\ r.b = tasks[c].b /\ r.todo = tasks[c].todo
    <3>1. /\ "supersede" \in Pcs /\ "add_sender" \in Returns
          /\ workers[old] \in {"none"} \union Terminal \union Registered
      BY <2>1 DEF Pcs, Returns
    <3> QED BY <1>1, <2>1, <3>1, ZenonT(60) DEF TaskRecords
  <2> HIDE DEF r
  <2>4. GoodTask(r) /\ r.pc \notin CarryPcs
    BY <1>1, <2>1, <2>3 DEF GoodTask, NoBuildPcs, CarryPcs
  <2>5. StepOK /\ Quiet
    BY <1>1, <2>2, <2>4, OneTask, ZenonT(60) DEF IInv
  <2>6. Rest
    BY <1>3, ConnRest, ZenonT(60) DEF Register, IInv, TypeOK, WorkerStates, Registered
  <2>7. ASSUME NEW b \in Builds
        PROVE  active'[b] \in ActiveRecords /\ (IsActive(b)' => IsActive(b))
    <3>1. active[b] \in ActiveRecords
      BY DEF IInv, TypeOK
    <3>2. CASE Owns(old, b)
      <4> DEFINE e == [active[b] EXCEPT !.conn = c]
      <4>1. e \in ActiveRecords
        BY <3>1 DEF ActiveRecords
      <4>2. active'[b] = e /\ IsActive(b)
        BY <1>3, <2>1, <3>2, IdentityAssumption DEF Owns, IsActive
      <4> QED BY <4>1, <4>2
    <3>3. CASE ~Owns(old, b)
      BY <1>3, <3>1, <3>3 DEF IsActive
    <3> QED BY <3>2, <3>3
  <2>8. active' \in [Builds -> ActiveRecords]
    <3>1. \A b \in Builds : active'[b] \in ActiveRecords
      BY <2>7
    <3> QED BY <1>3, <3>1
  <2> QED BY <2>5, <2>6, <2>7, <2>8, Assemble, ZenonT(60) DEF Register
<1> QED BY <1>2, <1>3, ZenonT(60) DEF Register

LEMMA SupersedeInv ==
    ASSUME IInv, NEW c \in Conns, Supersede(c)
    PROVE  IInv'
<1> DEFINE r == [tasks[c] EXCEPT !.pc = "dead_snapshot", !.st = "none"]
           next == Task("add_sender", "add_sender")
<1>1. /\ c \in Tasks /\ GoodTask(tasks[c]) /\ tasks[c] \in TaskRecords
      /\ tasks[c].c \in Conns
  BY DEF Supersede, IInv, TasksOK, GoodTask, ConnPcs, Tasks
<1>2. /\ r \in TaskRecords /\ r.pc = "dead_snapshot" /\ r.c = tasks[c].c
      /\ r.b = tasks[c].b /\ r.todo = tasks[c].todo
  BY <1>1, ZenonT(60) DEF TaskRecords, Pcs
<1>3. tasks' = [tasks EXCEPT ![c] = r] \/ tasks' = [tasks EXCEPT ![c] = next]
  BY ZenonT(60) DEF Supersede
<1> HIDE DEF r
<1>4. GoodTask(r) /\ r.pc \notin CarryPcs
  BY <1>1, <1>2 DEF GoodTask, NoBuildPcs, CarryPcs
<1>5. GoodTask(next) /\ next.pc \notin CarryPcs
  BY TaskGood, ZenonT(60) DEF Task, NoBuildPcs, ConnPcs, Returns, CarryPcs
<1> HIDE DEF next
<1>6. StepOK /\ Quiet
  BY <1>1, <1>3, <1>4, <1>5, OneTask DEF IInv
<1>7. Rest
  BY ConnRest DEF Supersede, RemoveSuperseded, IInv, TypeOK, queue
<1> QED BY <1>6, <1>7, Assemble DEF Supersede, RemoveSuperseded, IInv, TypeOK, queue, IsActive

LEMMA AddSenderInv ==
    ASSUME IInv, NEW c \in Conns, AddSender(c)
    PROVE  IInv'
<1> DEFINE next == Task("welcome", "closed")
<1>1. GoodTask(next) /\ next.pc \notin CarryPcs /\ c \in Tasks
  BY TaskGood, ZenonT(60) DEF Task, NoBuildPcs, ConnPcs, Returns, CarryPcs, Tasks
<1>2. tasks' = [tasks EXCEPT ![c] = next]
  BY DEF AddSender
<1> HIDE DEF next
<1>3. StepOK /\ Quiet
  BY <1>1, <1>2, OneTask, ZenonT(60) DEF IInv
<1>4. Rest
  BY ConnRest DEF AddSender, IInv, TypeOK, queue
<1> QED BY <1>3, <1>4, Assemble DEF AddSender, IInv, TypeOK, queue, IsActive

LEMMA HelloRefusedInv ==
    ASSUME IInv, NEW c \in Conns, HelloRefused(c)
    PROVE  IInv'
<1> DEFINE next == Task("closed", "closed")
<1>1. GoodTask(next) /\ next.pc \notin CarryPcs /\ c \in Tasks
  BY TaskGood, ZenonT(60) DEF Task, NoBuildPcs, ConnPcs, Returns, CarryPcs, Tasks
<1>2. tasks' = [tasks EXCEPT ![c] = next]
  BY DEF HelloRefused
<1> HIDE DEF next
<1>3. StepOK /\ Quiet
  BY <1>1, <1>2, OneTask, ZenonT(60) DEF IInv
<1>4. Rest
  BY ConnRest DEF HelloRefused, IInv, TypeOK, queue
<1> QED BY <1>3, <1>4, Assemble DEF HelloRefused, IInv, TypeOK, queue, IsActive

\* A connection goes on at another of its own steps.
LEMMA ConnGoto ==
    ASSUME IInv, NEW c \in Conns,
           NEW pc \in {"close_check", "close_sender", "close_arch", "close_disconnected",
                       "close_dead"},
           tasks' = Goto(c, pc)
    PROVE  StepOK /\ Quiet
<1>1. Ready(c, pc) /\ pc \notin CarryPcs /\ c \in Tasks
  BY DEF Ready, Pcs, NoBuildPcs, ConnPcs, CarryPcs, Tasks
<1> QED BY <1>1, GotoStep DEF IInv

LEMMA WelcomeInv ==
    ASSUME IInv, NEW c \in Conns, Welcome(c)
    PROVE  IInv'
<1> DEFINE next == Task("recv", "recv")
           new  == Task("try_dispatch", "idle")
<1>1. /\ GoodTask(next) /\ next.pc \notin CarryPcs
      /\ GoodTask(new) /\ new.pc \notin CarryPcs /\ c \in Tasks
  BY TaskGood, ZenonT(60) DEF Task, NoBuildPcs, ConnPcs, Returns, CarryPcs, Tasks
<1>2. Spawn(c, next, new) \/ tasks' = Goto(c, "close_sender")
  BY DEF Welcome
<1> HIDE DEF next, new
<1>3. StepOK /\ Quiet
  BY <1>1, <1>2, SpawnStep, ConnGoto DEF IInv
<1> QED BY <1>3, Settled DEF Welcome, IInv, TypeOK

LEMMA CloseCheckInv ==
    ASSUME IInv, NEW c \in Conns, CloseCheck(c)
    PROVE  IInv'
<1> DEFINE st == IF workers[c] = "stopping" THEN "stopping" ELSE "none"
           r  == [tasks[c] EXCEPT !.pc = "close_sender", !.st = st]
<1>1. /\ c \in Tasks /\ GoodTask(tasks[c]) /\ tasks[c] \in TaskRecords
      /\ st \in {"stopping", "none"}
  BY DEF IInv, TasksOK, Tasks
<1>2. tasks' = [tasks EXCEPT ![c] = r]
  BY <1>1, ZenonT(60) DEF CloseCheck, IInv, TasksOK
<1> HIDE DEF st
<1>3. /\ r \in TaskRecords /\ r.pc = "close_sender"
      /\ r.b = tasks[c].b /\ r.todo = tasks[c].todo
  <2>1. "close_sender" \in Pcs /\ st \in {"none"} \union Terminal \union Registered
    BY <1>1 DEF Pcs, Registered
  <2> QED BY <1>1, <2>1, ZenonT(60) DEF TaskRecords
<1> HIDE DEF r
<1>4. GoodTask(r) /\ r.pc \notin CarryPcs
  BY <1>1, <1>3 DEF GoodTask, NoBuildPcs, ConnPcs, CarryPcs
<1>5. StepOK /\ Quiet
  BY <1>1, <1>2, <1>4, OneTask, ZenonT(60) DEF IInv
<1> QED BY <1>5, Settled DEF CloseCheck, IInv, TypeOK

LEMMA CloseSenderInv ==
    ASSUME IInv, NEW c \in Conns, CloseSender(c) \/ CloseArch(c)
    PROVE  IInv'
<1>1. PICK pc \in {"close_dead", "close_arch", "close_disconnected"} : tasks' = Goto(c, pc)
  BY DEF CloseSender, CloseArch
<1>2. StepOK /\ Quiet
  BY <1>1, ConnGoto
<1>3. Rest
  BY ConnRest DEF CloseSender, CloseArch, IInv, TypeOK, queue
<1> QED BY <1>2, <1>3, Assemble DEF CloseSender, CloseArch, IInv, TypeOK, queue, IsActive

LEMMA CloseDisconnectedInv ==
    ASSUME IInv, NEW c \in Conns, CloseDisconnected(c)
    PROVE  IInv'
<1> DEFINE next == Task("closed", "closed")
           new  == [Task("grace_wait", "idle") EXCEPT !.c = c]
<1>1. GoodTask(next) /\ next.pc \notin CarryPcs /\ c \in Tasks
  BY TaskGood, ZenonT(60) DEF Task, NoBuildPcs, ConnPcs, Returns, CarryPcs, Tasks
<1>2. GoodTask(new) /\ new.pc \notin CarryPcs
  BY ConnTaskGood, ZenonT(60) DEF NoBuildPcs, Returns
<1>3. Spawn(c, next, new)
  BY DEF CloseDisconnected
<1> HIDE DEF next, new
<1>4. StepOK /\ Quiet
  BY <1>1, <1>2, <1>3, SpawnStep DEF IInv
<1>5. workers' \in [Conns -> WorkerStates]
  BY StateSet DEF CloseDisconnected, WorkerStates, Registered
<1>6. Rest
  BY <1>5, ConnRest DEF CloseDisconnected, IInv, TypeOK
<1> QED BY <1>4, <1>6, Assemble DEF CloseDisconnected, IInv, TypeOK, IsActive

LEMMA CloseDeadInv ==
    ASSUME IInv, NEW c \in Conns, CloseDead(c)
    PROVE  IInv'
<1> DEFINE r == [Task("dead_snapshot", "closed") EXCEPT !.c = c]
<1>1. GoodTask(r) /\ r.pc \notin CarryPcs /\ c \in Tasks
  BY ConnTaskGood, ZenonT(60) DEF NoBuildPcs, Returns, Tasks
<1>2. tasks' = [tasks EXCEPT ![c] = r]
  BY DEF CloseDead
<1> HIDE DEF r
<1>3. StepOK /\ Quiet
  BY <1>1, <1>2, OneTask, ZenonT(60) DEF IInv
<1>4. workers' \in [Conns -> WorkerStates]
  BY StateSet DEF CloseDead, WorkerStates
<1>5. Rest
  BY <1>4, ConnRest DEF CloseDead, IInv, TypeOK
<1> QED BY <1>3, <1>5, Assemble DEF CloseDead, IInv, TypeOK, IsActive

LEMMA DroppedStep ==
    ASSUME IInv, NEW t \in Tasks, tasks' = Dropped(t)
    PROVE  StepOK /\ Quiet
<1> DEFINE next == Task("close_check", "closed")
<1>1. GoodTask(next) /\ next.pc \notin CarryPcs /\ GoodTask(Idle) /\ Idle.pc \notin CarryPcs
  BY TaskGood, IdleGood, ZenonT(60) DEF Task, Idle, NoBuildPcs, ConnPcs, Returns, CarryPcs
<1>2. tasks' = [tasks EXCEPT ![t] = next] \/ tasks' = [tasks EXCEPT ![t] = Idle]
  BY ZenonT(60) DEF Dropped
<1> HIDE DEF next
<1> QED BY <1>1, <1>2, OneTask DEF IInv

LEMMA DropInv ==
    ASSUME IInv, NEW t \in Tasks, Drop(t)
    PROVE  IInv'
<1>1. StepOK /\ Quiet
  BY DroppedStep DEF Drop
<1>2. mishap' \subseteq Builds
  BY ZenonT(60) DEF Drop, InHand, IInv, TypeOK
<1> QED BY <1>1, <1>2, Settled DEF Drop

(***************************************************************************)
(* Steps that move builds between the lanes, the active map and the tasks. *)
(***************************************************************************)
LEMMA Rearranged ==
    ASSUME IInv, StepOK, Rest, lanes' \in Lanes(Builds), NoDuplicates(lanes'),
           active' \in [Builds -> ActiveRecords],
           \A b \in Builds :
              /\ QueueContains(lanes', b) => ~IsActive(b)'
              /\ QueueContains(lanes', b) \/ IsActive(b)' => db'[b] # "none"
              /\ \A t \in Tasks : Carries(t, b)' =>
                   /\ ~QueueContains(lanes', b) /\ ~IsActive(b)'
                   /\ \A u \in Tasks : Carries(u, b)' => u = t
    PROVE  IInv'
<1>1. TypeOK'
  BY DEF IInv, TypeOK, StepOK, Rest, Lanes
<1>2. TasksOK'
  BY TasksKept
<1>3. Known'
  BY DEF Known
<1>4. SingleHolder'
  BY DEF SingleHolder, NoDuplicates
<1> QED BY <1>1, <1>2, <1>3, <1>4 DEF IInv

\* Builds leave the lanes and the active map; none is picked up.
LEMMA Shrunk ==
    ASSUME IInv, StepOK, Rest, lanes' \in Lanes(Builds), NoDuplicates(lanes'),
           active' \in [Builds -> ActiveRecords],
           \A b \in Builds :
              /\ QueueContains(lanes', b) => QueueContains(lanes, b)
              /\ IsActive(b)' => IsActive(b)
              /\ \A t \in Tasks : Carries(t, b)' => Carries(t, b)
    PROVE  IInv'
<1>1. \A b \in Builds : QueueContains(lanes', b) \/ IsActive(b)' => db'[b] # "none"
  BY DEF IInv, Known, Rest
<1> QED BY <1>1, HolderFacts, Rearranged, ZenonT(60)

LEMMA QuietCarries ==
    ASSUME Quiet
    PROVE  \A t \in Tasks, b \in Builds : Carries(t, b)' => Carries(t, b)
BY DEF Quiet, Carries, CarryPcs

LEMMA CarryOn ==
    ASSUME IInv, NEW t \in Tasks, tasks[t].pc \in CarryPcs, NEW pc \in CarryPcs,
           tasks' = Goto(t, pc)
    PROVE  /\ StepOK
           /\ \A u \in Tasks, b \in Builds : Carries(u, b)' => Carries(u, b)
<1>1. Ready(t, pc) /\ tasks[t] \in TaskRecords
  BY InHandKnown DEF Ready, CarryPcs, NoBuildPcs, ConnPcs, Pcs, IInv, TasksOK
<1>2. StepOK
  BY <1>1, GotoStep DEF IInv
<1>3. tasks'[t].b = tasks[t].b /\ \A u \in Tasks : u # t => tasks'[u] = tasks[u]
  BY <1>1 DEF Goto, IInv, TasksOK, TaskRecords
<1> QED BY <1>2, <1>3 DEF Carries, CarryPcs

LEMMA SubmitInsertInv ==
    ASSUME IInv, NEW s \in Slots, NEW b \in Builds, SubmitInsert(s, b)
    PROVE  IInv'
<1> DEFINE r == [Task("submit_log", "reply") EXCEPT !.b = b]
<1>1. s \in Tasks /\ tasks' = [tasks EXCEPT ![s] = r] /\ db[b] = "none"
  BY DEF SubmitInsert, Tasks
<1>2. r \in TaskRecords /\ r.pc = "submit_log" /\ r.b = b /\ r.todo = {}
  BY DEF Task, TaskRecords, Pcs, Returns
<1> HIDE DEF r
<1>3. /\ \A u \in Tasks \ {s} : tasks'[u] = tasks[u]
      /\ tasks'[s] = r /\ tasks' \in [Tasks -> TaskRecords]
  BY <1>1, <1>2 DEF IInv, TasksOK
<1>4. Rest
  BY DEF SubmitInsert, IInv, TypeOK, Rest, DbStates, queue
<1>5. db'[b] = "queued" /\ \A d \in Builds : db[d] # "none" => db'[d] # "none"
  BY DEF SubmitInsert, IInv, TypeOK
<1>6. TasksOK'
  <2> SUFFICES ASSUME NEW u \in Tasks PROVE GoodTask(tasks[u])'
    BY <1>3 DEF TasksOK
  <2>1. CASE u = s
    BY <1>2, <1>3, <1>5, <2>1 DEF GoodTask, ConnPcs
  <2>2. CASE u # s
    BY <1>3, <1>5, <2>2 DEF GoodTask, IInv, TasksOK, TaskRecords, Candidates
  <2> QED BY <2>1, <2>2
<1>7. /\ ~QueueContains(lanes, b) /\ ~IsActive(b)
      /\ \A u \in Tasks : ~Carries(u, b)
  BY <1>1, HolderFacts DEF IInv, Known
<1>8. /\ \A d \in Builds, u \in Tasks : Carries(u, d)' => Carries(u, d) \/ (u = s /\ d = b)
      /\ lanes' = lanes /\ active' = active
  BY <1>2, <1>3 DEF Carries, SubmitInsert, queue
<1>9. TypeOK'
  BY <1>3, <1>4, <1>8 DEF IInv, TypeOK, Rest
<1>10. Known'
  BY <1>5, <1>8, ZenonT(60) DEF IInv, Known, QueueContains, LaneContains, IsActive
<1>11. ASSUME NEW d \in Builds
       PROVE  /\ QueueContains(lanes', d) => ~IsActive(d)'
              /\ \A u \in Tasks : Carries(u, d)' =>
                   /\ ~QueueContains(lanes', d) /\ ~IsActive(d)'
                   /\ \A v \in Tasks : Carries(v, d)' => v = u
  BY <1>7, <1>8, HolderFacts DEF IsActive
<1>12. SingleHolder'
  BY <1>8, <1>11, HolderFacts DEF SingleHolder, NoDuplicates
<1> QED BY <1>6, <1>9, <1>10, <1>12 DEF IInv

LEMMA SubmitLogInv ==
    ASSUME IInv, NEW t \in Tasks, SubmitLog(t)
    PROVE  IInv'
<1>1. tasks[t].b \in Builds
  BY InHandKnown, ZenonT(60) DEF SubmitLog, NoBuildPcs
<1>2. /\ StepOK
      /\ \A u \in Tasks, b \in Builds : Carries(u, b)' => Carries(u, b)
  <2>1. CASE tasks' = Goto(t, "submit_enqueue")
    BY <2>1, CarryOn, ZenonT(60) DEF SubmitLog, CarryPcs
  <2>2. CASE tasks' = Return(t)
    BY <2>2, ReturnStep, QuietCarries DEF IInv
  <2> QED BY <2>1, <2>2, ZenonT(60) DEF SubmitLog
<1>3. mishap' \subseteq Builds
  BY <1>1, FaultType DEF SubmitLog
<1>4. Rest
  BY <1>1, <1>3 DEF SubmitLog, IInv, TypeOK, Rest, queue
<1> QED BY <1>2, <1>4, Shrunk, HolderFacts, ZenonT(60) DEF SubmitLog, IInv, TypeOK, queue, IsActive

LEMMA RollbackDbInv ==
    ASSUME IInv, NEW t \in Tasks, RollbackDb(t)
    PROVE  IInv'
<1>1. tasks[t].b \in Builds
  BY InHandKnown, ZenonT(60) DEF RollbackDb, NoBuildPcs
<1>2. /\ StepOK
      /\ \A u \in Tasks, b \in Builds : Carries(u, b)' => Carries(u, b)
  BY CarryOn DEF RollbackDb, CarryPcs
<1>3. mishap' \subseteq Builds
  BY <1>1, FaultType DEF RollbackDb
<1>4. Rest
  BY <1>1, <1>3 DEF RollbackDb, IInv, TypeOK, Rest, DbStates, queue
<1> QED BY <1>2, <1>4, Shrunk, HolderFacts, ZenonT(60) DEF RollbackDb, IInv, TypeOK, queue, IsActive

\* A carried build enters its lane, and the task that carried it lets go.
LEMMA Queued ==
    ASSUME IInv, NEW t \in Tasks, NEW b \in Builds, Carries(t, b), StepOK, Quiet,
           ~Carries(t, b)', UNCHANGED << rows, active, workers, senders, watchers, mishap >>,
           \/ lanes' = Enqueue(lanes, b, PrioOf[b])
           \/ lanes' = EnqueueFront(lanes, b, PrioOf[b])
    PROVE  IInv'
<1>1. /\ ~QueueContains(lanes, b) /\ ~IsActive(b) /\ db[b] # "none"
      /\ \A u \in Tasks : Carries(u, b) => u = t
  BY HolderFacts, ZenonT(60)
<1>2. PrioOf[b] \in Priorities
  BY TablesAssumption
<1>3. /\ lanes' \in Lanes(Builds) /\ NoDuplicates(lanes')
      /\ \A d : QueueContains(lanes', d) => QueueContains(lanes, d) \/ d = b
  BY <1>1, <1>2, EnqueueLanes, HolderFacts
<1>4. \A u \in Tasks, d \in Builds : Carries(u, d)' => Carries(u, d) /\ d # b
  BY <1>1, QuietCarries, ZenonT(60)
<1>5. \A d \in Builds : (IsActive(d)' <=> IsActive(d)) /\ db'[d] = db[d]
  BY ZenonT(60) DEF IsActive, rows
<1>6. Rest
  BY Unchanged
<1>7. \A d \in Builds : QueueContains(lanes, d) \/ IsActive(d) => db[d] # "none"
  BY DEF IInv, Known
<1>8. active' \in [Builds -> ActiveRecords]
  BY DEF IInv, TypeOK
<1> QED BY <1>1, <1>3, <1>4, <1>5, <1>6, <1>7, <1>8, HolderFacts, Rearranged, ZenonT(60)

LEMMA SubmitEnqueueInv ==
    ASSUME IInv, NEW t \in Tasks, SubmitEnqueue(t)
    PROVE  IInv'
<1> DEFINE r == Task("try_dispatch", "idle")
<1>1. GoodTask(r) /\ r.pc \notin CarryPcs
  BY TaskGood, ZenonT(60) DEF Task, NoBuildPcs, ConnPcs, Returns, CarryPcs
<1>2. tasks' = [tasks EXCEPT ![t] = r] /\ tasks'[t] = r
  BY DEF SubmitEnqueue, IInv, TasksOK
<1> HIDE DEF r
<1>3. StepOK /\ Quiet
  BY <1>1, <1>2, OneTask, ZenonT(60) DEF IInv
<1>4. tasks[t].b \in Builds /\ Carries(t, tasks[t].b)
  BY InHandKnown DEF SubmitEnqueue, NoBuildPcs, Carries
<1>5. \A b \in Builds : ~Carries(t, b)'
  BY <1>1, <1>2 DEF Carries, CarryPcs
<1> QED BY <1>3, <1>4, <1>5, Queued, ZenonT(60) DEF SubmitEnqueue

LEMMA RollbackEnqueueInv ==
    ASSUME IInv, NEW t \in Tasks, RollbackEnqueue(t)
    PROVE  IInv'
<1>1. tasks[t].b \in Builds /\ Carries(t, tasks[t].b) /\ tasks[t] \in TaskRecords
  BY InHandKnown DEF RollbackEnqueue, NoBuildPcs, Carries, IInv, TasksOK
<1>2. StepOK /\ Quiet
  BY GoOn DEF RollbackEnqueue, NoBuildPcs, Pcs, ConnPcs, CarryPcs
<1>3. tasks'[t].pc = "rollback_watcher"
  BY <1>1 DEF RollbackEnqueue, Goto, IInv, TasksOK, TaskRecords
<1>4. \A b \in Builds : ~Carries(t, b)'
  BY <1>3 DEF Carries
<1> QED BY <1>1, <1>2, <1>4, Queued DEF RollbackEnqueue

LEMMA RollbackTakeInv ==
    ASSUME IInv, NEW t \in Tasks, RollbackTake(t)
    PROVE  IInv'
<1>1. PICK b \in Builds : b = tasks[t].b
  BY InHandKnown DEF RollbackTake, NoBuildPcs
<1> DEFINE r  == [tasks[t] EXCEPT !.pc = "rollback_db"]
           ts == Goto(t, "rollback_db")
<1>2. db[b] # "none"
  BY <1>1, InHandKnown DEF RollbackTake, NoBuildPcs
<1>3. Rest
  BY Unchanged DEF RollbackTake
<1>4. CASE ~IsActive(b)
  <2>1. StepOK /\ Quiet
    BY <1>1, <1>4, ReturnStep, ZenonT(60) DEF RollbackTake, IInv
  <2> QED BY <1>1, <1>3, <1>4, <2>1, Assemble DEF RollbackTake, IInv, TypeOK, IsActive
<1>5. CASE IsActive(b)
  <2>1. /\ active' = [active EXCEPT ![b] = NoActive] /\ lanes' = lanes
        /\ tasks' = Cancel(ts, b)
    BY <1>1, <1>5, ZenonT(60) DEF RollbackTake
  <2>2. Ready(t, "rollback_db")
    BY <1>1 DEF Ready, Pcs, NoBuildPcs, ConnPcs
  <2>3. GoodTask(r) /\ ts = [tasks EXCEPT ![t] = r] /\ tasks[t] \in TaskRecords
    BY <2>2, GotoGood DEF IInv, TasksOK
  <2>4. /\ ts \in [Tasks -> TaskRecords] /\ ts[t] = r /\ r.b = b
        /\ \A u \in Tasks : u # t => ts[u] = tasks[u]
    BY <1>1, <2>3 DEF IInv, TasksOK, GoodTask, TaskRecords
  <2> HIDE DEF ts, r
  <2>5. \A u \in Tasks : GoodTask(ts[u])
    BY <2>3, <2>4 DEF IInv, TasksOK
  <2>6. StepOK
    BY <2>1, <2>4, <2>5, CancelStep, ZenonT(60) DEF IInv
  <2>7. Idle.pc \notin CarryPcs
    BY DEF Idle, Task, CarryPcs
  <2>8. \A u \in Tasks : tasks'[u] = ts[u] \/ tasks'[u] = Idle
    BY <2>1 DEF Cancel
  <2>9. \A u \in Tasks, d \in Builds : Carries(u, d)' => Carries(u, d) \/ (u = t /\ d = b)
    BY <2>4, <2>7, <2>8 DEF Carries, CarryPcs
  <2>10. /\ ~QueueContains(lanes, b) /\ \A u \in Tasks : ~Carries(u, b)
    BY <1>5, HolderFacts
  <2>11. /\ active' \in [Builds -> ActiveRecords] /\ ~IsActive(b)'
         /\ \A d \in Builds : IsActive(d)' => IsActive(d)
    BY <2>1, EntryGone, ZenonT(60)
  <2>12. \A d \in Builds : QueueContains(lanes, d) \/ IsActive(d) => db[d] # "none"
    BY DEF IInv, Known
  <2>13. db' = db
    BY DEF RollbackTake, rows
  <2>14. ASSUME NEW d \in Builds, NEW u \in Tasks, Carries(u, d)'
         PROVE  /\ ~QueueContains(lanes', d) /\ ~IsActive(d)'
                /\ \A v \in Tasks : Carries(v, d)' => v = u
    BY <2>1, <2>9, <2>10, <2>11, <2>14, HolderFacts
  <2> QED BY <1>3, <2>1, <2>6, <2>11, <2>12, <2>13, <2>14, HolderFacts, Rearranged
<1> QED BY <1>4, <1>5

LEMMA RevokeRemoveInv ==
    ASSUME IInv, NEW t \in Tasks, RevokeRemove(t)
    PROVE  IInv'
<1>1. StepOK /\ Quiet
  BY GoOn DEF RevokeRemove, NoBuildPcs, Pcs, ConnPcs, CarryPcs
<1>2. Rest
  BY Unchanged DEF RevokeRemove
<1>3. /\ lanes' \in Lanes(Builds) /\ NoDuplicates(lanes')
      /\ \A d : QueueContains(lanes', d) => QueueContains(lanes, d)
  BY RemoveLanes, HolderFacts DEF RevokeRemove
<1> QED BY <1>1, <1>2, <1>3, QuietCarries, Shrunk DEF RevokeRemove, IInv, TypeOK, IsActive

\* The row update of a dispatch, executed or not, keeps the types of the rows
\* and forgets no build.
LEMMA DispatchedRow ==
    ASSUME IInv, NEW b \in Builds, NEW c \in Conns, NEW ok,
           db' = IF ok THEN [db EXCEPT ![b] = "dispatched"] ELSE db,
           dbWorker' = IF ok THEN [dbWorker EXCEPT ![b] = WorkerOf[c]] ELSE dbWorker
    PROVE  /\ db' \in [Builds -> DbStates]
           /\ \A d \in Builds : db[d] # "none" => db'[d] # "none"
           /\ dbWorker' \in [Builds -> Workers \union {None}]
<1>1. "dispatched" \in DbStates /\ WorkerOf[c] \in Workers
  BY TablesAssumption DEF DbStates, InFlight
<1>2. db \in [Builds -> DbStates] /\ dbWorker \in [Builds -> Workers \union {None}]
  BY DEF IInv, TypeOK
<1> QED BY <1>1, <1>2

LEMMA DropInDispatchInv ==
    ASSUME IInv, NEW t \in Tasks, DropInDispatch(t)
    PROVE  IInv'
<1>1. StepOK /\ Quiet
  BY DroppedStep, ZenonT(60) DEF DropInDispatch
<1>2. /\ lanes' \in Lanes(Builds) /\ NoDuplicates(lanes') /\ NextPending(lanes) \in Builds
      /\ \A d : QueueContains(lanes', d) => QueueContains(lanes, d)
  BY Popped, ZenonT(60) DEF DropInDispatch
<1>3. Rest
  <2>1. PICK b \in Builds : b = NextPending(lanes)
    BY <1>2
  <2>2. PICK c \in IdleMatching(b), executed \in BOOLEAN :
          /\ db' = IF executed THEN [db EXCEPT ![b] = "dispatched"] ELSE db
          /\ dbWorker' = IF executed THEN [dbWorker EXCEPT ![b] = WorkerOf[c]] ELSE dbWorker
          /\ mishap' = mishap \union {b}
    BY <2>1, ZenonT(60) DEF DropInDispatch
  <2>3. c \in Conns
    BY DEF IdleMatching, IdleWorkers
  <2>4. /\ db' \in [Builds -> DbStates]
        /\ \A d \in Builds : db[d] # "none" => db'[d] # "none"
        /\ dbWorker' \in [Builds -> Workers \union {None}]
    BY <2>2, <2>3, DispatchedRow
  <2>5. mishap' \subseteq Builds
    BY <2>2 DEF IInv, TypeOK
  <2> QED BY <2>4, <2>5, ZenonT(60) DEF DropInDispatch, IInv, TypeOK, Rest
<1> QED BY <1>1, <1>2, <1>3, QuietCarries, Shrunk, ZenonT(60) DEF DropInDispatch, IInv, TypeOK, IsActive

LEMMA PackGood ==
    ASSUME IInv, NEW t \in Tasks, NEW b \in Builds, db[b] # "none", NEW c \in Conns,
           NEW r \in Pack(t, b, c)
    PROVE  GoodTask(r) /\ r.pc \notin CarryPcs
<1> DEFINE r1 == [Task("send_new", tasks[t].ret) EXCEPT !.b = b, !.c = c]
           r2 == [Task("fin_db", tasks[t].ret) EXCEPT !.b = b, !.st = "failure"]
<1>1. tasks[t].ret \in Returns
  BY DEF IInv, TasksOK, TaskRecords
<1>2. r1 \in TaskRecords /\ r1.pc = "send_new" /\ r1.b = b /\ r1.c = c /\ r1.todo = {}
  BY <1>1, ZenonT(60) DEF Task, TaskRecords, Pcs, Returns
<1>3. /\ r2 \in TaskRecords /\ r2.pc = "fin_db" /\ r2.b = b /\ r2.st = "failure"
      /\ r2.todo = {}
  BY <1>1, ZenonT(60) DEF Task, TaskRecords, Pcs, Returns, Terminal
<1>4. r = r1 \/ r = r2
  BY DEF Pack
<1> HIDE DEF r1, r2
<1>5. GoodTask(r1) /\ GoodTask(r2)
  BY <1>2, <1>3 DEF GoodTask, ConnPcs, Terminal
<1> QED BY <1>2, <1>3, <1>4, <1>5 DEF CarryPcs

LEMMA DispatchInv ==
    ASSUME IInv, NEW t \in Tasks, Dispatch(t)
    PROVE  IInv'
<1>1. PICK b : b = NextPending(lanes)
  OBVIOUS
<1>2. /\ lanes' \in Lanes(Builds) /\ NoDuplicates(lanes')
      /\ b \in Builds /\ QueueContains(lanes, b)
      /\ \A d : QueueContains(lanes', d) => QueueContains(lanes, d) /\ d # b
  BY <1>1, Popped DEF Dispatch
<1>3. db[b] # "none"
  BY <1>2 DEF IInv, Known
<1> DEFINE e(c) == [conn |-> c, receipt |-> "awaiting", cancelled |-> FALSE,
                    tok |-> CHOOSE n \in FreshTokens(b) : TRUE]
<1>4. PICK c \in IdleMatching(b), ok \in DbOutcomes(b) : \E packed \in Pack(t, b, c) :
        /\ db' = IF ok THEN [db EXCEPT ![b] = "dispatched"] ELSE db
        /\ dbWorker' = IF ok THEN [dbWorker EXCEPT ![b] = WorkerOf[c]] ELSE dbWorker
        /\ watchers' = IF ok THEN watchers \union {b} ELSE watchers
        /\ active' = IF ok THEN [active EXCEPT ![b] = e(c)] ELSE active
        /\ tasks' = IF ok THEN [tasks EXCEPT ![t] = packed]
                    ELSE [tasks EXCEPT ![t] = Home(tasks[t].ret)]
        /\ Fault(b, ok)
  BY <1>1, ZenonT(60) DEF Dispatch
<1>5. c \in Conns
  BY DEF IdleMatching, IdleWorkers
<1>6. e(c) \in ActiveRecords /\ e(c).conn = c
  <2>1. (CHOOSE n \in FreshTokens(b) : TRUE) \in Tokens
    BY <1>1, ZenonT(60) DEF Dispatch, FreshTokens
  <2> QED BY <1>5, <2>1, ZenonT(60) DEF ActiveRecords, Receipts
<1> HIDE DEF e
<1>7. mishap' \subseteq Builds
  BY <1>2, <1>4, FaultType
<1>8. Rest
  <2>1. /\ db' \in [Builds -> DbStates]
        /\ \A d \in Builds : db[d] # "none" => db'[d] # "none"
        /\ dbWorker' \in [Builds -> Workers \union {None}]
    BY <1>2, <1>4, <1>5, DispatchedRow
  <2>2. watchers' \subseteq Builds
    BY <1>2, <1>4 DEF IInv, TypeOK
  <2> QED BY <1>7, <2>1, <2>2 DEF Dispatch, IInv, TypeOK, Rest
<1>9. StepOK /\ Quiet
  <2>1. PICK packed \in Pack(t, b, c) :
          tasks' = [tasks EXCEPT ![t] = packed] \/ tasks' = [tasks EXCEPT ![t] = Home(tasks[t].ret)]
    BY <1>4
  <2>2. GoodTask(packed) /\ packed.pc \notin CarryPcs
    BY <1>2, <1>3, <1>5, PackGood
  <2>3. GoodTask(Home(tasks[t].ret)) /\ Home(tasks[t].ret).pc \notin CarryPcs
    BY HomeGood, ZenonT(60) DEF IInv, TasksOK, TaskRecords, Home, Idle, Task, CarryPcs, Returns
  <2> QED BY <2>1, <2>2, <2>3, OneTask DEF IInv
<1>10. CASE ~ok
  <2>1. active' = active
    BY <1>4, <1>10
  <2> QED BY <1>2, <1>8, <1>9, <2>1, QuietCarries, Shrunk, ZenonT(60) DEF IInv, TypeOK, IsActive
<1>11. CASE ok
  <2>1. active' = [active EXCEPT ![b] = e(c)]
    BY <1>4, <1>11
  <2>2. /\ active' \in [Builds -> ActiveRecords]
        /\ \A d \in Builds : IsActive(d)' => IsActive(d) \/ d = b
    BY <1>2, <1>6, <2>1 DEF IInv, TypeOK, IsActive
  <2>3. \A u \in Tasks : ~Carries(u, b)
    BY <1>2, HolderFacts
  <2>4. \A d \in Builds : (QueueContains(lanes, d) \/ IsActive(d) => db[d] # "none")
                          /\ (db[d] # "none" => db'[d] # "none")
    BY <1>8 DEF IInv, Known, Rest
  <2>5. ASSUME NEW d \in Builds
        PROVE  /\ QueueContains(lanes', d) => ~IsActive(d)'
               /\ QueueContains(lanes', d) \/ IsActive(d)' => db'[d] # "none"
               /\ \A u \in Tasks : Carries(u, d)' =>
                    /\ ~QueueContains(lanes', d) /\ ~IsActive(d)'
                    /\ \A v \in Tasks : Carries(v, d)' => v = u
    BY <1>2, <1>3, <1>9, <2>2, <2>3, <2>4, HolderFacts, QuietCarries, ZenonT(60)
  <2> QED BY <1>2, <1>8, <1>9, <2>2, <2>5, Rearranged
<1> QED BY <1>10, <1>11

LEMMA RestartInv ==
    ASSUME IInv, Restart
    PROVE  IInv'
<1>1. PICK ls \in [Priorities -> Ascending] :
         (\A p \in Priorities : {ls[p][i] : i \in DOMAIN ls[p]} = Recovered(p)) /\ lanes' = ls
  BY DEF Restart
<1>2. ASSUME NEW p \in Priorities
      PROVE  /\ ls[p] \in Seq(Builds) /\ DOMAIN ls[p] = 1 .. Len(ls[p]) /\ Len(ls[p]) \in Nat
             /\ \A i \in DOMAIN ls[p] : ls[p][i] \in Recovered(p)
             /\ \A i, j \in DOMAIN ls[p] : i < j => ls[p][i] < ls[p][j]
  <2>1. ls[p] \in Seq(Builds) /\ \A i, j \in DOMAIN ls[p] : i < j => ls[p][i] < ls[p][j]
    <3>1. PICK n \in 0 .. MaxBuilds : ls[p] \in [1 .. n -> Builds]
      BY <1>1, <1>2 DEF Ascending
    <3>2. n \in Nat
      BY BoundsAssumption
    <3>3. ls[p] \in Seq(Builds)
      BY <3>1, <3>2
    <3> QED BY <1>1, <1>2, <3>3 DEF Ascending
  <2>2. \A i \in DOMAIN ls[p] : ls[p][i] \in Recovered(p)
    BY <1>1, <1>2
  <2> QED BY <2>1, <2>2
<1>3. lanes' \in Lanes(Builds)
  BY <1>1, <1>2 DEF Lanes
<1>4. NoDuplicates(lanes')
  <2> SUFFICES ASSUME NEW p \in Priorities, NEW q \in Priorities,
                      NEW i \in DOMAIN ls[p], NEW j \in DOMAIN ls[q],
                      ls[p][i] = ls[q][j]
               PROVE  p = q /\ i = j
    BY <1>1 DEF NoDuplicates
  <2>1. p = q
    BY <1>2 DEF Recovered
  <2>2. ls[p][i] \in Nat /\ i \in Nat /\ j \in Nat
    BY <1>2 DEF Recovered, Builds
  <2>3. ~(i < j) /\ ~(j < i)
    BY <1>2, <2>1, <2>2
  <2> QED BY <2>1, <2>2, <2>3
<1>5. Rest
  BY DEF Restart, IInv, TypeOK, Rest, DbStates, Terminal, InFlight, WorkerStates
<1>6. active' \in [Builds -> ActiveRecords] /\ \A b \in Builds : ~IsActive(b)'
  BY DEF Restart, NoActive, ActiveRecords, Receipts, IsActive
<1>7. \A b \in Builds : QueueContains(lanes', b) => db'[b] # "none"
  <2> SUFFICES ASSUME NEW b \in Builds, QueueContains(lanes', b) PROVE db'[b] # "none"
    OBVIOUS
  <2>1. db[b] = "queued"
    BY <1>1, <1>2 DEF QueueContains, LaneContains, Recovered
  <2> QED BY <1>5, <2>1 DEF Rest
<1> DEFINE closed == Task("closed", "closed")
<1>8. GoodTask(closed) /\ closed.pc = "closed" /\ GoodTask(Idle) /\ Idle.pc = "idle"
  BY TaskGood, IdleGood, ZenonT(60) DEF Task, Idle, NoBuildPcs, ConnPcs, Returns
<1>9. tasks' = [t \in Tasks |->
          IF t \notin Conns THEN Idle
          ELSE IF tasks[t].pc = "new" THEN tasks[t] ELSE closed]
  BY DEF Restart
<1> HIDE DEF closed
<1>10. ASSUME NEW t \in Tasks
       PROVE  /\ GoodTask(tasks'[t]) /\ tasks'[t] \in TaskRecords
              /\ tasks'[t].pc \in {"idle", "new", "closed"}
  BY <1>8, <1>9 DEF IInv, TasksOK, GoodTask
<1>11. StepOK
  <2>1. tasks' \in [Tasks -> TaskRecords]
    BY <1>9, <1>10
  <2> QED BY <1>10, <2>1 DEF StepOK
<1>12. \A t \in Tasks, b \in Builds : ~Carries(t, b)'
  BY <1>10 DEF Carries
<1> QED BY <1>3, <1>4, <1>5, <1>6, <1>7, <1>11, <1>12, Rearranged

LEMMA InitInv == Init => IInv
<1> SUFFICES ASSUME Init PROVE IInv
  OBVIOUS
<1> DEFINE new == Task("new", "closed")
<1>1. GoodTask(new) /\ new.pc = "new" /\ GoodTask(Idle) /\ Idle.pc = "idle"
  BY TaskGood, IdleGood, ZenonT(60) DEF Task, Idle, NoBuildPcs, ConnPcs, Returns
<1>2. tasks = [t \in Tasks |-> IF t \in Conns THEN new ELSE Idle]
  BY DEF Init
<1> HIDE DEF new
<1>3. \A t \in Tasks : GoodTask(tasks[t]) /\ tasks[t].pc \in {"idle", "new"}
  BY <1>1, <1>2
<1>4. TasksOK
  BY <1>1, <1>2, <1>3 DEF TasksOK, GoodTask
<1>5. \A p \in Priorities : lanes[p] = << >>
  BY ZenonT(60) DEF Init, EmptyLanes
<1>6. \A b \in Builds : ~QueueContains(lanes, b) /\ ~IsActive(b)
  BY <1>5 DEF Init, QueueContains, LaneContains, IsActive, NoActive
<1>7. TypeOK
  <2>1. lanes \in [Priorities -> Seq(Builds)]
    BY DEF Init, EmptyLanes
  <2>2. active \in [Builds -> ActiveRecords]
    BY DEF Init, NoActive, ActiveRecords, Receipts
  <2> QED BY <1>4, <2>1, <2>2 DEF Init, TypeOK, TasksOK, DbStates, WorkerStates
<1>8. SingleHolder
  BY <1>3, <1>5, <1>6 DEF SingleHolder, Carries
<1>9. Known
  BY <1>6 DEF Known
<1> QED BY <1>4, <1>7, <1>8, <1>9 DEF IInv

(***************************************************************************)
(* The invariant is inductive.                                             *)
(***************************************************************************)
LEMMA StepInv ==
    ASSUME IInv, NEW t \in Tasks, Step(t)
    PROVE  IInv'
BY SubmitLogInv, SubmitEnqueueInv, NothingToDispatchInv, DispatchInv, SendNewInv, ArmAckInv,
   AckTimeoutInv, RollbackTakeInv, RollbackDbInv, RollbackEnqueueInv, WatcherInv,
   FinishDbInv, FinishLogInv, FinishActiveInv, AcceptedCancelInv, StartedDbInv,
   IdleReconcileOneInv, DeadSnapshotInv, ResolveDeadBuildInv, RevokeRemoveInv,
   RevokeMarkInv, RevokeLookupInv, RevokeDbInv, RevokeSendInv, RevokeTimeoutInv, GraceInv,
   ForceSenderInv DEF Step

LEMMA ConnStepInv ==
    ASSUME IInv, NEW c \in Conns, ConnStep(c) \/ Register(c) \/ HelloRefused(c)
    PROVE  IInv'
BY SupersedeInv, AddSenderInv, WelcomeInv, AttachInv, CloseCheckInv, CloseSenderInv,
   CloseDisconnectedInv, CloseDeadInv, RegisterInv, HelloRefusedInv DEF ConnStep

LEMMA MessageInv ==
    ASSUME IInv, NEW c \in Conns, Message(c)
    PROVE  IInv'
BY LifecycleInv, StatusBuildingInv, StatusIdleInv, WorkerStoppingInv DEF Message

LEMMA RequestInv ==
    ASSUME IInv, NEW s \in Slots, Request(s)
    PROVE  IInv'
BY SubmitInsertInv, RevokeRequestInv, ForceDisconnectInv DEF Request

LEMMA NextInv == IInv /\ [Next]_vars => IInv'
<1> SUFFICES ASSUME IInv, [Next]_vars PROVE IInv'
  OBVIOUS
<1>1. CASE UNCHANGED vars
  <2>1. UNCHANGED << rows, queue, senders, watchers >> /\ UNCHANGED tasks /\ mishap' = mishap
    BY <1>1 DEF vars, rows, queue
  <2> QED BY <2>1, Unchanged, Settled DEF IInv, TypeOK
<1>2. CASE \E t \in Tasks : Step(t) \/ Drop(t) \/ DropInDispatch(t)
  BY <1>2, StepInv, DropInv, DropInDispatchInv
<1>3. CASE \E c \in Conns : ConnStep(c) \/ Register(c) \/ HelloRefused(c) \/ Message(c)
  BY <1>3, ConnStepInv, MessageInv
<1>4. CASE \E s \in Slots : Request(s)
  BY <1>4, RequestInv
<1>5. CASE SweepTick \/ Restart
  BY <1>5, SweepTickInv, RestartInv
<1> QED BY <1>1, <1>2, <1>3, <1>4, <1>5 DEF Next

\* The strengthened invariant holds of every behaviour.
THEOREM Invariance == Spec => []IInv
<1> QED BY InitInv, NextInv, PTL DEF Spec

\* Every variable stays within its type, for any number of builds, workers,
\* connections and tasks.
THEOREM TypeCorrect == Spec => []TypeOK
<1>1. IInv => TypeOK
  BY DEF IInv
<1> QED BY <1>1, Invariance, PTL

\* No interleaving of submission, dispatch, rejection, ack timeout, dead-worker
\* resolution, reconciliation, revocation, reconnection, failed statement,
\* dropped handler and restart has a build in two places: try_dispatch cannot
\* send a build twice, and rollback_active_to_queued cannot queue it twice.
THEOREM SingleHolderTheorem == Spec => []SingleHolder
<1>1. IInv => SingleHolder
  BY DEF IInv
<1> QED BY <1>1, Invariance, PTL

\* What the tasks, the queue and the connections keep true together.
THEOREM Lifecycle == Spec => [](IInv /\ LInv)
<1>1. Init => IInv /\ LInv
  BY InitInv, InitLife
<1>2. IInv /\ LInv /\ [Next]_vars => IInv' /\ LInv'
  BY NextInv, NextLife
<1> QED BY <1>1, <1>2, PTL DEF Spec

\* Unless a statement failed or a handler was dropped, a build whose row says
\* queued is in a lane or in the hands of a task that will queue or revoke it:
\* submission, rollback, revocation and startup recovery forget no build.
THEOREM QueuedIsHeldTheorem == Spec => []QueuedIsHeld
<1>1. LInv => QueuedIsHeld
  BY DEF LInv
<1> QED BY <1>1, Lifecycle, PTL

\* A row that send_build_revoke put into revoking has a task that will finalise
\* it, whatever the worker, its connection and other requests do meanwhile.
THEOREM RevokingHasFinisherTheorem == Spec => []RevokingHasFinisher
<1>1. LInv => RevokingHasFinisher
  BY DEF LInv
<1> QED BY <1>1, Lifecycle, PTL

\* An ack timer that sleeps belongs to the entry that is active now and has not
\* been acknowledged: no cancellation in ws/handler.rs and ws/dispatch.rs misses
\* its timer.
THEOREM TimerMatchesEntryTheorem == Spec => []TimerMatchesEntry
<1>1. LInv => TimerMatchesEntry
  BY DEF LInv, TimersOK, TimerMatchesEntry
<1> QED BY <1>1, Lifecycle, PTL

\* A registered worker has at most one entry that is not dead, for any number
\* of connections opened, closed, superseded, timed out and force-disconnected.
THEOREM OneEntryPerWorkerTheorem == Spec => []OneEntryPerWorker
<1>1. LInv => OneEntryPerWorker
  BY DEF LInv
<1> QED BY <1>1, Lifecycle, PTL

\* Unless a statement failed or a handler was dropped, an active build has a
\* connection that is not past its cleanup, a monitor or a task that is going to
\* list it, or a task that is resolving it: cleanup_worker, the grace period,
\* force_disconnect_worker, handle_worker_dead and a reconnection hand the builds
\* of a worker over without a gap.
THEOREM ActiveHasGuardianTheorem == Spec => []ActiveHasGuardian
<1>1. Spec => []GInv
  BY InitGuard, NextGuard, Lifecycle, PTL DEF Spec
<1> QED BY <1>1, Invariance, GuardianFound, PTL

(***************************************************************************)
(* The refinement.                                                         *)
(***************************************************************************)
LEMMA CustodyInit == Init => Custody!Init
<1> SUFFICES ASSUME Init PROVE Custody!Init
  OBVIOUS
<1>1. \A b \in Builds : Place(b) = "none" /\ active[b].conn = None
  BY InitInv, PlaceFacts DEF Init, NoActive
<1> QED BY <1>1 DEF Custody!Init

LEMMA CustodyNext ==
    CustodyStep => [Custody!Next]_<< [b \in Builds |-> Place(b)],
                                     [b \in Builds |-> active[b].conn] >>
BY DEF CustodyStep, Stays

\* The server implements BuildCustody: every step of its tasks moves at most
\* one build one place on, hands active builds over to one connection, or is a
\* restart; try_dispatch sends a build only from the queue and only to a
\* connection without a build; and only a restart brings back a build that is
\* out.
THEOREM CustodyRefinement == Spec => CustodySpec
<1>1. IInv /\ LInv /\ IInv' /\ [Next]_vars =>
        [Custody!Next]_<< [b \in Builds |-> Place(b)], [b \in Builds |-> active[b].conn] >>
  BY NextLife, CustodyNext
<1> QED BY <1>1, CustodyInit, Lifecycle, PTL DEF Spec, CustodySpec, Custody!Spec
=============================================================================
