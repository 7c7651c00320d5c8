------------------------ MODULE ServerLifecycleProofs ------------------------
(***************************************************************************)
(* The steps of BuildServer that change the lanes, the active map or the   *)
(* entries of workers: each keeps LInv and is a step of BuildCustody.      *)
(* Then that the steps of tasks and the messages of workers keep IInv.     *)
(***************************************************************************)
EXTENDS ServerStepProofs

(***************************************************************************)
(* Steps that move a build into or out of the lanes.                       *)
(***************************************************************************)
EntriesStay == active' = active /\ workers' = workers

LEMMA EntriesStayFacts ==
    ASSUME EntriesStay
    PROVE  \A b \in Builds : (IsActive(b)' <=> IsActive(b)) /\ active'[b].conn = active[b].conn
BY DEF EntriesStay, IsActive

\* The task that carries b puts it into a lane.
LEMMA Enqueued ==
    ASSUME IInv, IInv', LInv, NEW t \in Tasks, Plain(t), tasks[t].pc \in CarryPcs,
           tasks'[t].pc \notin CarryPcs, tasks[t].pc \notin FinishPcs,
           lanes' \in {Enqueue(lanes, tasks[t].b, PrioOf[tasks[t].b]),
                       EnqueueFront(lanes, tasks[t].b, PrioOf[tasks[t].b])},
           EntriesStay, db' = db, mishap' = mishap
    PROVE  LInv' /\ CustodyStep
<1>1. PICK b \in Builds : b = tasks[t].b
  BY LetsGo
<1>2. /\ Carries(t, b)
      /\ \A u \in Tasks, d \in Builds : Carries(u, d)' <=> Carries(u, d) /\ d # b
  BY <1>1, LetsGo
<1>3. ~QueueContains(lanes, b) /\ ~IsActive(b) /\ db[b] # "none"
  BY <1>2, HolderFacts
<1>4. \A d : QueueContains(lanes', d) <=> QueueContains(lanes, d) \/ d = b
  BY <1>1, <1>3, EnqueueLanes, HolderFacts, TablesAssumption
<1>5. \A u \in Tasks : ~Waiting(u, b)
  BY <1>2, ZenonT(60) DEF LInv, TimersOK
<1>6. TimersOK'
  <2>1. \A u \in Tasks, d \in Builds : Waiting(u, d)' =>
           Waiting(u, d) /\ tasks'[u] = tasks[u] /\ d # b
    BY <1>5, WaitingSteady, PlainSteady
  <2> QED BY <1>2, <1>4, <2>1, TimersKept, EntriesStayFacts, ZenonT(60) DEF LInv, EntriesStay
<1>7. ConnsOK' /\ OneEntryPerWorker'
  BY ConnsKept, PlainSteady DEF LInv, EntriesStay, OneEntryPerWorker
<1>8. QueuedIsHeld'
  <2>1. Held(b)'
    BY <1>4 DEF Held
  <2> QED BY <1>1, <1>4, <2>1, HeldKept DEF LInv, Plain
<1>9. RevokingHasFinisher'
  BY FinisherKept DEF LInv, Plain
<1>10. ASSUME NEW d \in Builds \ {b} PROVE Stays(d)
  BY <1>2, <1>4, EntriesStayFacts, StaysWhen
<1>11. Place(b) = "held" /\ Place(b)' = "pending" /\ active'[b].conn = None
  BY <1>2, <1>3, <1>4, EntriesStayFacts, PlaceFacts, PlaceFactsNext, ZenonT(60) DEF IsActive
<1>12. Custody!Queue(b)
  BY <1>10, <1>11, Moved, ZenonT(60) DEF Custody!Queue
<1>13. CustodyStep
  BY <1>12, ZenonT(60) DEF CustodyStep, Custody!Next
<1> QED BY <1>6, <1>7, <1>8, <1>9, <1>13 DEF LInv

LEMMA SubmitEnqueueLife ==
    ASSUME IInv, IInv', LInv, NEW t \in Tasks, SubmitEnqueue(t)
    PROVE  LInv' /\ CustodyStep
<1> DEFINE r == Task("try_dispatch", "idle")
<1>1. tasks' = [tasks EXCEPT ![t] = r] /\ tasks[t].pc = "submit_enqueue"
  BY DEF SubmitEnqueue
<1>2. r.pc = "try_dispatch" /\ r.ret = "idle"
  BY DEF Task
<1> HIDE DEF r
<1>3. PlainNext(t, r)
  BY <1>1, <1>2
     DEF PlainNext, EntryPcs, WaitPcs, CarryPcs, GracePcs, LInv, ConnsOK, SubmitPcs
<1>4. Plain(t) /\ tasks'[t] = r
  BY <1>1, <1>3, PlainOne, ZenonT(60) DEF IInv, TasksOK
<1>5. /\ EntriesStay /\ db' = db /\ mishap' = mishap
      /\ lanes' = Enqueue(lanes, tasks[t].b, PrioOf[tasks[t].b])
  BY DEF SubmitEnqueue, EntriesStay, rows
<1>6. /\ tasks[t].pc \in CarryPcs /\ tasks[t].pc \notin FinishPcs
      /\ tasks'[t].pc \notin CarryPcs
  BY <1>1, <1>2, <1>4 DEF CarryPcs, FinishPcs
<1> QED BY <1>4, <1>5, <1>6, Enqueued

LEMMA RollbackEnqueueLife ==
    ASSUME IInv, IInv', LInv, NEW t \in Tasks, RollbackEnqueue(t)
    PROVE  LInv' /\ CustodyStep
<1>1. tasks' = Goto(t, "rollback_watcher") /\ tasks[t].pc = "rollback_enqueue"
  BY DEF RollbackEnqueue
<1>2. Plain(t) /\ tasks'[t].pc = "rollback_watcher"
  BY <1>1, GotoPlain, GotoFields, ZenonT(60) DEF IInv, EntryPcs, WaitPcs, CarryPcs, GracePcs, OpenPcs
<1>3. /\ EntriesStay /\ db' = db /\ mishap' = mishap
      /\ lanes' = EnqueueFront(lanes, tasks[t].b, PrioOf[tasks[t].b])
  BY DEF RollbackEnqueue, EntriesStay, rows
<1>4. /\ tasks[t].pc \in CarryPcs /\ tasks[t].pc \notin FinishPcs
      /\ tasks'[t].pc \notin CarryPcs
  BY <1>1, <1>2 DEF CarryPcs, FinishPcs
<1> QED BY <1>2, <1>3, <1>4, Enqueued

\* A build leaves the lanes, or was not in them.
LEMMA Dequeued ==
    ASSUME IInv, IInv', LInv, NEW t \in Tasks, Plain(t), tasks[t].pc \notin CarryPcs,
           NEW b \in Builds, EntriesStay,
           \A d : QueueContains(lanes', d) <=> QueueContains(lanes, d) /\ d # b,
           \A d \in Builds : db'[d] = "none" <=> db[d] = "none"
    PROVE  TimersOK' /\ ConnsOK' /\ OneEntryPerWorker' /\ CustodyStep
<1>1. \A u \in Tasks, d \in Builds : Carries(u, d)' <=> Carries(u, d)
  BY CarriesPlain
<1>2. TimersOK'
  BY <1>1, WaitingSteady, PlainSteady, TimersKept, EntriesStayFacts DEF LInv, EntriesStay
<1>3. ConnsOK' /\ OneEntryPerWorker'
  BY ConnsKept, PlainSteady DEF LInv, EntriesStay, OneEntryPerWorker
<1>4. ASSUME NEW d \in Builds \ {b} PROVE Stays(d)
  BY <1>1, EntriesStayFacts, StaysWhen
<1>5. CASE ~QueueContains(lanes, b)
  <2>1. Stays(b)
    BY <1>1, <1>5, EntriesStayFacts, StaysWhen
  <2> QED BY <1>2, <1>3, <1>4, <2>1 DEF CustodyStep
<1>6. CASE QueueContains(lanes, b)
  <2>1. db[b] # "none" /\ ~IsActive(b) /\ \A u \in Tasks : ~Carries(u, b)
    BY <1>6, HolderFacts DEF IInv, Known
  <2>2. Place(b) = "pending" /\ Place(b)' = "out" /\ active'[b].conn = None
    BY <1>1, <1>6, <2>1, EntriesStayFacts, PlaceFacts, PlaceFactsNext DEF IsActive
  <2>3. Custody!Withdraw(b)
    BY <1>4, <2>2, Moved DEF Custody!Withdraw
  <2> QED BY <1>2, <1>3, <2>3 DEF CustodyStep, Custody!Next
<1> QED BY <1>5, <1>6

LEMMA RevokeRemoveLife ==
    ASSUME IInv, IInv', LInv, NEW t \in Tasks, RevokeRemove(t)
    PROVE  LInv' /\ CustodyStep
<1>1. PICK b \in Builds : b = tasks[t].b
  BY InHandKnown DEF RevokeRemove, NoBuildPcs
<1>2. /\ tasks' = Goto(t, "revoke_mark") /\ tasks[t].pc = "revoke_remove"
      /\ EntriesStay /\ db' = db /\ mishap' = mishap /\ lanes' = RemoveById(lanes, b)
  BY <1>1 DEF RevokeRemove, EntriesStay, rows
<1>3. Plain(t) /\ tasks'[t].pc = "revoke_mark" /\ tasks'[t].b = b
  BY <1>1, <1>2, GotoPlain, GotoFields, ZenonT(60)
     DEF IInv, EntryPcs, WaitPcs, CarryPcs, GracePcs, OpenPcs
<1>4. \A d : QueueContains(lanes', d) <=> QueueContains(lanes, d) /\ d # b
  BY <1>2, RemoveLanes, HolderFacts
<1>5. QueuedIsHeld'
  <2>1. Held(b)'
    BY <1>3 DEF Held, HeldPcs
  <2> QED BY <1>2, <1>3, <1>4, <2>1, HeldKept DEF LInv, Plain, HeldPcs, CarryPcs
<1>6. RevokingHasFinisher'
  BY <1>2, <1>3, FinisherKept DEF LInv, Plain, FinishPcs
<1> QED BY <1>2, <1>3, <1>4, <1>5, <1>6, Dequeued DEF LInv, CarryPcs

LEMMA PackPlain ==
    ASSUME TasksOK, NEW t \in Tasks, NEW b, NEW c, NEW r \in Pack(t, b, c)
    PROVE  PlainNext(t, r)
<1> DEFINE r1 == [Task("send_new", tasks[t].ret) EXCEPT !.b = b, !.c = c]
           r2 == [Task("fin_db", tasks[t].ret) EXCEPT !.b = b, !.st = "failure"]
<1>1. /\ r1.pc = "send_new" /\ r1.ret = tasks[t].ret
      /\ r2.pc = "fin_db" /\ r2.ret = tasks[t].ret
  BY ZenonT(60) DEF Task
<1>2. r = r1 \/ r = r2
  BY DEF Pack
<1> HIDE DEF r1, r2
<1> QED BY <1>1, <1>2 DEF PlainNext, Past, EntryPcs, WaitPcs, CarryPcs, GracePcs, OpenPcs

\* The build that Dispatch pops goes to a connection without a build, or, when
\* the statement fails, out.
LEMMA DispatchLife ==
    ASSUME IInv, IInv', LInv, NEW t \in Tasks, Dispatch(t)
    PROVE  LInv' /\ CustodyStep
<1>1. PICK b : b = NextPending(lanes)
  OBVIOUS
<1>2. /\ b \in Builds /\ QueueContains(lanes, b)
      /\ \A d : QueueContains(lanes', d) <=> QueueContains(lanes, d) /\ d # b
  BY <1>1, Popped DEF Dispatch
<1>3. db[b] # "none" /\ ~IsActive(b) /\ \A u \in Tasks : ~Carries(u, b) /\ ~Waiting(u, b)
  BY <1>2, HolderFacts DEF IInv, Known, LInv, TimersOK
<1> DEFINE e(c) == [conn |-> c, receipt |-> "awaiting", cancelled |-> FALSE,
                    tok |-> CHOOSE n \in FreshTokens(b) : TRUE]
<1>4. PICK c \in IdleMatching(b), ok \in DbOutcomes(b) : \E packed \in Pack(t, b, c) :
        /\ db' = IF ok THEN [db EXCEPT ![b] = "dispatched"] ELSE db
        /\ active' = IF ok THEN [active EXCEPT ![b] = e(c)] ELSE active
        /\ tasks' = IF ok THEN [tasks EXCEPT ![t] = packed]
                    ELSE [tasks EXCEPT ![t] = Home(tasks[t].ret)]
        /\ Fault(b, ok)
  BY <1>1, ZenonT(60) DEF Dispatch
<1>5. e(c).conn = c
  OBVIOUS
<1> HIDE DEF e
<1>6. c \in Conns /\ \A d \in Builds : active[d].conn # c
  BY DEF IdleMatching, IdleWorkers, Owns
<1>7. /\ workers' = workers /\ tasks[t].pc = "try_dispatch" /\ TasksOK
      /\ tasks[t].pc \notin HeldPcs \union FinishPcs /\ tasks[t].pc \notin CarryPcs
      /\ mishap \subseteq mishap' /\ (~ok => b \in mishap')
  BY <1>4, FaultGrows DEF Dispatch, IInv, HeldPcs, FinishPcs, CarryPcs
<1>8. /\ \A d \in Builds : db'[d] = "none" <=> db[d] = "none"
      /\ \A d \in Builds \ {b} : db'[d] = db[d]
      /\ db'[b] = IF ok THEN "dispatched" ELSE db[b]
  BY <1>2, <1>3, <1>4, RowWritten
<1>9. Plain(t)
  <2>1. PICK packed \in Pack(t, b, c) :
          \/ tasks' = [tasks EXCEPT ![t] = packed]
          \/ tasks' = [tasks EXCEPT ![t] = Home(tasks[t].ret)]
    BY <1>4
  <2>2. PlainNext(t, packed)
    BY <1>7, PackPlain
  <2> QED BY <1>7, <2>1, <2>2, PlainOne, HomePlain
<1>10. QueuedIsHeld'
  BY <1>2, <1>7, <1>8, <1>9, HeldKept DEF LInv, Plain
<1>11. RevokingHasFinisher'
  BY <1>7, <1>8, <1>9, FinisherKept DEF LInv, Plain
<1>12. CASE ~ok
  <2>1. EntriesStay
    BY <1>4, <1>7, <1>12 DEF EntriesStay
  <2> QED BY <1>2, <1>7, <1>8, <1>9, <1>10, <1>11, <2>1, Dequeued DEF LInv
<1>13. CASE ok
  <2>1. active' = [active EXCEPT ![b] = e(c)] /\ active \in [Builds -> ActiveRecords]
    BY <1>4, <1>13 DEF IInv, TypeOK
  <2>2. active'[b].conn = c /\ \A d \in Builds \ {b} : active'[d] = active[d]
    BY <1>2, <1>5, <2>1
  <2>3. \A u \in Tasks, d \in Builds : Carries(u, d)' <=> Carries(u, d)
    BY <1>7, <1>9, CarriesPlain
  <2>4. TimersOK'
    <3>1. \A u \in Tasks, d \in Builds : Waiting(u, d)' =>
             Waiting(u, d) /\ tasks'[u] = tasks[u] /\ active'[d] = active[d]
      BY <1>3, <1>9, <2>2, WaitingSteady, PlainSteady, ZenonT(60)
    <3>2. \A d \in Builds : active'[d] = active[d] => (IsActive(d)' <=> IsActive(d))
      BY DEF IsActive
    <3> QED BY <1>2, <2>3, <3>1, <3>2, TimersKept, ZenonT(60) DEF LInv
  <2>5. ConnsOK' /\ OneEntryPerWorker'
    BY <1>7, <1>9, ConnsKept, PlainSteady DEF LInv, OneEntryPerWorker
  <2>6. ASSUME NEW d \in Builds \ {b} PROVE Stays(d)
    BY <1>2, <1>8, <2>2, <2>3, StaysWhen, ZenonT(60)
  <2>7. Place(b) = "pending" /\ Place(b)' = "active"
    <3>1. IsActive(b)'
      BY <1>6, <2>2, IdentityAssumption DEF IsActive
    <3> QED BY <1>2, <3>1, PlaceFacts, PlaceFactsNext
  <2>8. Custody!Move(b, "pending", "active", c)
    BY <1>2, <2>2, <2>6, <2>7, Moved
  <2>9. Custody!Assign(b, c)
    BY <1>6, <2>8 DEF Custody!Assign
  <2>10. CustodyStep
    BY <1>2, <1>6, <2>9 DEF CustodyStep, Custody!Next
  <2> QED BY <1>10, <1>11, <2>4, <2>5, <2>10 DEF LInv
<1> QED BY <1>12, <1>13

LEMMA DropInDispatchLife ==
    ASSUME IInv, IInv', LInv, NEW t \in Tasks, DropInDispatch(t)
    PROVE  LInv' /\ CustodyStep
<1> DEFINE r == IF t \in Conns THEN Task("close_check", "closed") ELSE Idle
<1>1. PICK b : b = NextPending(lanes)
  OBVIOUS
<1>2. /\ b \in Builds /\ QueueContains(lanes, b)
      /\ \A d : QueueContains(lanes', d) <=> QueueContains(lanes, d) /\ d # b
  BY <1>1, Popped DEF DropInDispatch
<1>3. PICK executed \in BOOLEAN :
        /\ db' = IF executed THEN [db EXCEPT ![b] = "dispatched"] ELSE db
        /\ mishap' = mishap \union {b}
  BY <1>1, ZenonT(60) DEF DropInDispatch
<1>4. db[b] # "none"
  BY <1>2 DEF IInv, Known
<1>5. /\ \A d \in Builds : db'[d] = "none" <=> db[d] = "none"
      /\ \A d \in Builds \ {b} : db'[d] = db[d]
  BY <1>2, <1>3, <1>4, RowWritten
<1>6. /\ EntriesStay /\ tasks[t].pc = "try_dispatch"
      /\ tasks' = [tasks EXCEPT ![t] = r] /\ tasks[t].ret \in {"recv", "reply"}
  BY DEF DropInDispatch, Dropped, EntriesStay
<1>7. r.pc \in {"close_check", "idle"}
  BY DEF Task, Idle
<1> HIDE DEF r
<1>8. PlainNext(t, r)
  BY <1>6, <1>7 DEF PlainNext, Past, EntryPcs, WaitPcs, CarryPcs, GracePcs
<1>9. Plain(t)
  BY <1>6, <1>8, PlainOne, ZenonT(60) DEF IInv
<1>10. tasks[t].pc \notin HeldPcs \union FinishPcs /\ tasks[t].pc \notin CarryPcs
  BY <1>6 DEF HeldPcs, FinishPcs, CarryPcs
<1>11. QueuedIsHeld'
  BY <1>2, <1>3, <1>5, <1>9, <1>10, HeldKept DEF LInv, Plain
<1>12. RevokingHasFinisher'
  BY <1>3, <1>5, <1>9, <1>10, FinisherKept DEF LInv, Plain
<1> QED BY <1>2, <1>5, <1>6, <1>9, <1>10, <1>11, <1>12, Dequeued DEF LInv

(***************************************************************************)
(* Steps that change or drop the entry of an active build.                 *)
(***************************************************************************)
\* Nothing but the entry of b changes, and a timer that still sleeps for b finds
\* its token as it was, or no entry.
OneEntry(b) ==
    /\ lanes' = lanes /\ workers' = workers /\ db' = db /\ mishap' = mishap
    /\ \A d \in Builds \ {b} : active'[d] = active[d]
    /\ \A u \in Tasks : Waiting(u, b)' /\ IsActive(b)' =>
          /\ IsActive(b) /\ active'[b].tok = active[b].tok
          /\ active'[b].cancelled = active[b].cancelled

LEMMA OneEntryLife ==
    ASSUME IInv, IInv', LInv, NEW t \in Tasks, Plain(t),
           tasks[t].pc \notin HeldPcs \union FinishPcs, NEW b \in Builds, OneEntry(b)
    PROVE  LInv'
<1>1. \A u \in Tasks, d \in Builds : Carries(u, d)' <=> Carries(u, d)
  BY CarriesPlain DEF HeldPcs
<1>2. TimersOK'
  <2>1. \A d \in Builds \ {b} : IsActive(d)' <=> IsActive(d)
    BY DEF OneEntry, IsActive
  <2>2. \A u \in Tasks, d \in Builds : Waiting(u, d)' => Waiting(u, d) /\ tasks'[u] = tasks[u]
    BY WaitingSteady, PlainSteady
  <2> QED BY <1>1, <2>1, <2>2, TimersKept, ZenonT(60) DEF LInv, OneEntry
<1>3. ConnsOK' /\ OneEntryPerWorker'
  BY ConnsKept, PlainSteady, ZenonT(60) DEF LInv, OneEntry, OneEntryPerWorker
<1>4. QueuedIsHeld' /\ RevokingHasFinisher'
  BY HeldKept, FinisherKept DEF LInv, OneEntry, Plain
<1> QED BY <1>2, <1>3, <1>4 DEF LInv

LEMMA OthersStay ==
    ASSUME IInv, IInv', NEW t \in Tasks, Plain(t), tasks[t].pc \notin HeldPcs \union FinishPcs,
           NEW b \in Builds, OneEntry(b)
    PROVE  /\ \A d \in Builds \ {b} : Stays(d)
           /\ IsActive(b) /\ IsActive(b)' => Place(b) = "active" /\ Place(b)' = "active"
           /\ active'[b].conn = active[b].conn => CustodyStep
           /\ IsActive(b) /\ active'[b].conn = None => CustodyStep
<1>1. \A u \in Tasks, d \in Builds : Carries(u, d)' <=> Carries(u, d)
  BY CarriesPlain DEF HeldPcs
<1>2. ASSUME NEW d \in Builds \ {b} PROVE Stays(d)
  BY <1>1, StaysWhen DEF OneEntry
<1>3. IsActive(b) /\ IsActive(b)' => Place(b) = "active" /\ Place(b)' = "active"
  BY PlaceFacts, PlaceFactsNext
<1>4. ASSUME active'[b].conn = active[b].conn PROVE CustodyStep
  <2>1. Stays(b)
    BY <1>1, <1>4, StaysWhen, ZenonT(60) DEF OneEntry
  <2> QED BY <1>2, <2>1 DEF CustodyStep
<1>5. ASSUME IsActive(b), active'[b].conn = None PROVE CustodyStep
  <2>1. ~QueueContains(lanes, b) /\ db[b] # "none" /\ \A u \in Tasks : ~Carries(u, b)
    BY <1>5, HolderFacts, ZenonT(60) DEF IInv, Known
  <2>2. Place(b) = "active" /\ Place(b)' = "out"
    BY <1>1, <1>5, <2>1, PlaceFacts, PlaceFactsNext, ZenonT(60) DEF IsActive, OneEntry
  <2>3. Custody!Complete(b)
    BY <1>2, <1>5, <2>2, Moved DEF Custody!Complete
  <2> QED BY <2>3 DEF CustodyStep, Custody!Next
<1> QED BY <1>2, <1>3, <1>4, <1>5

LEMMA HandedOver ==
    ASSUME NEW bs \in SUBSET Builds, NEW c \in Conns, \A b \in bs : Place(b) = "active",
           \A d \in Builds : /\ Place(d)' = Place(d)
                             /\ active'[d].conn = IF d \in bs THEN c ELSE active[d].conn
    PROVE  CustodyStep
<1>1. Custody!HandOver(bs, c)
  BY DEF Custody!HandOver
<1> QED BY <1>1, ZenonT(60) DEF CustodyStep, Custody!Next

\* Cancelling the token of an active build ends every timer that sleeps for it.
LEMMA TimersEnd ==
    ASSUME IInv, LInv, NEW t \in Tasks, NEW b \in Builds, IsActive(b), NEW r,
           r.pc # "ack_wait", tasks' = Cancel([tasks EXCEPT ![t] = r], b)
    PROVE  /\ Moves(t) /\ tasks'[t] = r /\ \A u \in Tasks : ~Waiting(u, b)'
           /\ PlainNext(t, r) => Plain(t)
<1>1. /\ tasks'[t] = r
      /\ \A u \in Tasks \ {t} : IF Waiting(u, b) /\ tasks[u].tok = active[b].tok
                                THEN tasks'[u] = Idle ELSE tasks'[u] = tasks[u]
  BY DEF IInv, TasksOK, Cancel, Waiting
<1>2. \A u \in Tasks : Waiting(u, b) => tasks[u].tok = active[b].tok
  BY DEF LInv, TimersOK
<1>3. Idle.pc = "idle"
  BY DEF Idle, Task
<1>4. Moves(t)
  BY <1>1, <1>3, ZenonT(60) DEF Moves, Waiting
<1>5. PlainNext(t, r) => Plain(t)
  BY <1>1, <1>3, <1>4, ZenonT(60) DEF Plain, PlainNext, Past, EntryPcs, WaitPcs, CarryPcs, GracePcs
<1> QED BY <1>1, <1>2, <1>3, <1>4, <1>5, ZenonT(60) DEF Waiting

LEMMA FinishActiveLife ==
    ASSUME IInv, IInv', LInv, NEW t \in Tasks, FinishActive(t)
    PROVE  LInv' /\ CustodyStep
<1>1. PICK b \in Builds : b = tasks[t].b
  BY InHandKnown DEF FinishActive, NoBuildPcs
<1>2. /\ active' = [active EXCEPT ![b] = NoActive] /\ active \in [Builds -> ActiveRecords]
      /\ lanes' = lanes /\ workers' = workers /\ db' = db /\ mishap' = mishap
      /\ tasks[t].pc \notin HeldPcs \union FinishPcs
  BY <1>1 DEF FinishActive, rows, IInv, TypeOK, HeldPcs, FinishPcs, CarryPcs
<1>3. active'[b].conn = None /\ OneEntry(b)
  BY <1>2 DEF OneEntry, NoActive, IsActive
<1>4. Plain(t)
  <2>1. \/ tasks' = Return(t)
        \/ \E pc \in {"fin_watcher", "done_log"} : tasks' = Goto(t, pc)
    BY DEF FinishActive
  <2> QED BY <2>1, ReturnPlain, GotoPlain
         DEF IInv, EntryPcs, WaitPcs, CarryPcs, GracePcs, OpenPcs
<1>5. CustodyStep
  BY <1>2, <1>3, <1>4, OthersStay DEF IsActive
<1> QED BY <1>2, <1>3, <1>4, <1>5, OneEntryLife

LEMMA AcceptedCancelLife ==
    ASSUME IInv, IInv', LInv, NEW t \in Tasks, AcceptedCancel(t)
    PROVE  LInv' /\ CustodyStep
<1>1. PICK b \in Builds : b = tasks[t].b
  BY InHandKnown DEF AcceptedCancel, NoBuildPcs
<1>2. /\ lanes' = lanes /\ workers' = workers /\ db' = db /\ mishap' = mishap
      /\ tasks[t].pc \notin HeldPcs \union FinishPcs /\ TasksOK
      /\ active \in [Builds -> ActiveRecords]
  BY DEF AcceptedCancel, rows, IInv, TypeOK, HeldPcs, FinishPcs, CarryPcs
<1>3. CASE ~IsActive(b)
  <2>1. active' = active /\ tasks' = Return(t)
    BY <1>1, <1>3, ZenonT(60) DEF AcceptedCancel
  <2>2. Plain(t) /\ OneEntry(b)
    BY <1>2, <1>3, <2>1, ReturnPlain DEF OneEntry, IsActive
  <2> QED BY <1>2, <2>1, <2>2, OneEntryLife, OthersStay
<1>4. CASE IsActive(b)
  <2>1. /\ active' = [active EXCEPT ![b].cancelled = TRUE]
        /\ tasks' = Cancel([tasks EXCEPT ![t] = After(t)], b)
    BY <1>1, <1>4, ZenonT(60) DEF AcceptedCancel, Return
  <2>2. PlainNext(t, After(t)) /\ After(t).pc # "ack_wait"
    BY <1>2, AfterPlain DEF PlainNext, EntryPcs, WaitPcs
  <2>3. Plain(t) /\ \A u \in Tasks : ~Waiting(u, b)'
    BY <1>4, <2>1, <2>2, TimersEnd
  <2>4. active'[b].conn = active[b].conn /\ \A d \in Builds \ {b} : active'[d] = active[d]
    BY <1>2, <2>1 DEF ActiveRecords
  <2> QED BY <1>2, <2>3, <2>4, OneEntryLife, OthersStay DEF OneEntry
<1> QED BY <1>3, <1>4

\* A message from the worker marks the entry it is about as acknowledged.
LEMMA AuthorizedLife ==
    ASSUME IInv, IInv', LInv, NEW c \in Conns, NEW b \in Builds, NEW r,
           r.pc \notin EntryPcs, Authorized(c, b, r)
    PROVE  LInv' /\ CustodyStep
<1>1. /\ c \in Tasks /\ tasks[c].pc = "recv" /\ IsActive(b)
      /\ active \in [Builds -> ActiveRecords]
      /\ lanes' = lanes /\ workers' = workers /\ db' = db /\ mishap' = mishap
      /\ active' = [active EXCEPT ![b].receipt = "received", ![b].cancelled = TRUE]
      /\ tasks' = Cancel([tasks EXCEPT ![c] = r], b)
  BY OwnedKnown DEF Authorized, Tasks, IInv, TypeOK, rows
<1>2. PlainNext(c, r) /\ r.pc # "ack_wait" /\ tasks[c].pc \notin HeldPcs \union FinishPcs
  BY <1>1 DEF PlainNext, Past, OpenPcs, EntryPcs, WaitPcs, HeldPcs, FinishPcs, CarryPcs
<1>3. Plain(c) /\ \A u \in Tasks : ~Waiting(u, b)'
  BY <1>1, <1>2, TimersEnd
<1>4. active'[b].conn = active[b].conn /\ \A d \in Builds \ {b} : active'[d] = active[d]
  BY <1>1 DEF ActiveRecords
<1> QED BY <1>1, <1>2, <1>3, <1>4, OneEntryLife, OthersStay, ZenonT(60) DEF OneEntry

LEMMA LifecycleLife ==
    ASSUME IInv, IInv', LInv, NEW c \in Conns, NEW b \in Builds,
           \/ BuildAccepted(c, b) \/ BuildStarted(c, b) \/ BuildOutput(c, b)
           \/ BuildFinished(c, b) \/ BuildRejected(c, b)
    PROVE  LInv' /\ CustodyStep
<1>1. PICK r : Authorized(c, b, r) /\ r.pc \notin EntryPcs
  <2>1. \A st : [On(b, "done_db") EXCEPT !.st = st, !.then = "try_dispatch"].pc = "done_db"
    BY ZenonT(60) DEF On, Task
  <2>2. /\ On(b, "accepted").pc = "accepted" /\ On(b, "started_db").pc = "started_db"
        /\ Task("recv", "recv").pc = "recv"
        /\ [On(b, "fin_db") EXCEPT !.st = "failure"].pc = "fin_db"
        /\ [On(b, "rollback_take") EXCEPT !.then = "try_dispatch"].pc = "rollback_take"
    BY ZenonT(60) DEF On, Task
  <2>3. PICK r : /\ Authorized(c, b, r)
                 /\ r.pc \in {"accepted", "started_db", "recv", "fin_db", "rollback_take",
                              "done_db"}
    BY <2>1, <2>2, ZenonT(60)
       DEF BuildAccepted, BuildStarted, BuildOutput, BuildFinished, BuildRejected
  <2> QED BY <2>3 DEF EntryPcs, WaitPcs, CarryPcs, GracePcs
<1> QED BY <1>1, AuthorizedLife

\* The entry of b moves to connection c, which reports the build.
LEMMA Reported ==
    ASSUME IInv, IInv', LInv, NEW c \in Conns, Plain(c),
           tasks[c].pc \notin HeldPcs \union FinishPcs,
           NEW b \in Builds, OneEntry(b), IsActive(b), active'[b].conn = c
    PROVE  LInv' /\ CustodyStep
<1>1. c \in Tasks /\ IsActive(b)'
  BY IdentityAssumption DEF Tasks, IsActive
<1>2. /\ \A d \in Builds \ {b} : Stays(d)
      /\ Place(b) = "active" /\ Place(b)' = "active"
  BY <1>1, OthersStay
<1>3. CustodyStep
  <2>1. \A d \in Builds : /\ Place(d)' = Place(d)
                          /\ active'[d].conn = IF d \in {b} THEN c ELSE active[d].conn
    BY <1>2 DEF Stays
  <2> QED BY <1>2, <2>1, HandedOver, ZenonT(60)
<1> QED BY <1>1, <1>3, OneEntryLife

LEMMA AttachLife ==
    ASSUME IInv, IInv', LInv, NEW c \in Conns, Attach(c) \/ Resume(c)
    PROVE  LInv' /\ CustodyStep
<1>1. /\ tasks[c].pc \in {"attach", "resume"} /\ c \in Tasks /\ TasksOK
      /\ lanes' = lanes /\ workers' = workers /\ db' = db /\ mishap' = mishap
      /\ active \in [Builds -> ActiveRecords]
  BY DEF Attach, Resume, rows, Tasks, IInv, TypeOK
<1>2. PICK b \in Builds : b = tasks[c].b
  BY <1>1, InHandKnown DEF NoBuildPcs
<1>3. tasks[c].pc \notin HeldPcs \union FinishPcs
  BY <1>1 DEF HeldPcs, FinishPcs, CarryPcs
<1>4. CASE ~IsActive(b)
  <2>1. active' = active /\ tasks' = Return(c)
    BY <1>2, <1>4, ZenonT(60) DEF Attach, Resume
  <2>2. Plain(c) /\ OneEntry(b)
    BY <1>1, <2>1, ReturnPlain DEF OneEntry, IsActive
  <2> QED BY <1>1, <1>3, <2>1, <2>2, OneEntryLife, OthersStay, ZenonT(60)
<1>5. CASE IsActive(b) /\ Attach(c)
  <2>1. /\ active' = [active EXCEPT ![b].conn = c, ![b].receipt = "received",
                                    ![b].cancelled = TRUE]
        /\ tasks' = Cancel([tasks EXCEPT ![c] = After(c)], b)
    BY <1>2, <1>5, ZenonT(60) DEF Attach, Return
  <2>2. PlainNext(c, After(c)) /\ After(c).pc # "ack_wait"
    BY <1>1, AfterPlain DEF PlainNext, EntryPcs, WaitPcs
  <2>3. Plain(c) /\ \A u \in Tasks : ~Waiting(u, b)'
    BY <1>1, <1>5, <2>1, <2>2, TimersEnd
  <2>4. active'[b].conn = c /\ \A d \in Builds \ {b} : active'[d] = active[d]
    BY <1>1, <2>1 DEF ActiveRecords
  <2>5. OneEntry(b)
    BY <1>1, <2>3, <2>4, ZenonT(60) DEF OneEntry
  <2> QED BY <1>3, <1>5, <2>3, <2>4, <2>5, Reported
<1>6. CASE IsActive(b) /\ Resume(c)
  <2>1. active' = [active EXCEPT ![b].conn = c] /\ tasks' = Return(c)
    BY <1>2, <1>6, ZenonT(60) DEF Resume
  <2>2. /\ active'[b].conn = c /\ \A d \in Builds \ {b} : active'[d] = active[d]
        /\ active'[b].tok = active[b].tok /\ active'[b].cancelled = active[b].cancelled
    BY <1>1, <2>1 DEF ActiveRecords
  <2>3. Plain(c) /\ OneEntry(b)
    BY <1>1, <1>6, <2>1, <2>2, ReturnPlain DEF OneEntry
  <2> QED BY <1>3, <1>6, <2>2, <2>3, Reported, ZenonT(60)
<1> QED BY <1>4, <1>5, <1>6

\* rollback_active_to_queued takes the entry away and has the build in hand.
LEMMA RollbackTakeLife ==
    ASSUME IInv, IInv', LInv, NEW t \in Tasks, RollbackTake(t)
    PROVE  LInv' /\ CustodyStep
<1>1. PICK b \in Builds : b = tasks[t].b /\ db[b] # "none"
  BY InHandKnown DEF RollbackTake, NoBuildPcs
<1>2. /\ lanes' = lanes /\ workers' = workers /\ db' = db /\ mishap' = mishap
      /\ tasks[t].pc = "rollback_take" /\ TasksOK
      /\ tasks[t].pc \notin HeldPcs \union FinishPcs
      /\ active \in [Builds -> ActiveRecords]
  BY DEF RollbackTake, rows, IInv, TypeOK, HeldPcs, FinishPcs, CarryPcs
<1>3. CASE ~IsActive(b)
  <2>1. active' = active /\ tasks' = Return(t)
    BY <1>1, <1>3, ZenonT(60) DEF RollbackTake
  <2>2. Plain(t) /\ OneEntry(b)
    BY <1>2, <2>1, ReturnPlain, ZenonT(60) DEF OneEntry, IsActive
  <2> QED BY <1>2, <2>1, <2>2, OneEntryLife, OthersStay
<1>4. CASE IsActive(b)
  <2> DEFINE r == [tasks[t] EXCEPT !.pc = "rollback_db"]
  <2>1. /\ active' = [active EXCEPT ![b] = NoActive]
        /\ tasks' = Cancel(Goto(t, "rollback_db"), b)
    BY <1>1, <1>4, ZenonT(60) DEF RollbackTake
  <2>2. Goto(t, "rollback_db") = [tasks EXCEPT ![t] = r]
    BY <1>2, ZenonT(60) DEF Goto, TasksOK
  <2>3. r.pc = "rollback_db" /\ r.b = b /\ r.ret = tasks[t].ret
    BY <1>1, <1>2 DEF TasksOK, TaskRecords
  <2> HIDE DEF r
  <2>4. tasks' = Cancel([tasks EXCEPT ![t] = r], b) /\ r.pc # "ack_wait"
    BY <2>1, <2>2, <2>3, ZenonT(60)
  <2>5. /\ Moves(t) /\ tasks'[t] = r /\ \A u \in Tasks : ~Waiting(u, b)'
        /\ \A u \in Tasks \ {t} : tasks'[u] = tasks[u] \/ tasks'[u] = Idle
    <3>1. \A u \in Tasks \ {t} : tasks'[u] = tasks[u] \/ tasks'[u] = Idle
      BY <2>1, GotoFields, <1>2 DEF Cancel, Goto, TasksOK
    <3> QED BY <1>4, <2>4, <3>1, TimersEnd, ZenonT(60)
  <2>6. Idle.pc = "idle"
    BY DEF Idle, Task
  <2>7. Steady(t)
    BY <1>2, <2>3, <2>5, <2>6 DEF Steady, Past, OpenPcs, WaitPcs, GracePcs, SubmitPcs
  <2>8. \A u \in Tasks, d \in Builds : Carries(u, d)' <=> Carries(u, d) \/ (u = t /\ d = b)
    BY <1>1, <1>2, <2>3, <2>5, <2>6 DEF Moves, Carries
  <2>9. /\ active'[b].conn = None /\ \A d \in Builds \ {b} : active'[d] = active[d]
    BY <1>2, <2>1 DEF NoActive
  <2>10. TimersOK'
    <3>1. \A u \in Tasks, d \in Builds : Waiting(u, d)' =>
             Waiting(u, d) /\ tasks'[u] = tasks[u] /\ d # b
      BY <2>5, <2>7, WaitingSteady, ZenonT(60)
    <3>2. \A d \in Builds \ {b} : IsActive(d)' <=> IsActive(d)
      BY <2>9 DEF IsActive
    <3> QED BY <1>2, <2>8, <2>9, <3>1, <3>2, TimersKept, ZenonT(60) DEF LInv
  <2>11. ConnsOK' /\ OneEntryPerWorker'
    BY <1>2, <2>7, ConnsKept DEF LInv, OneEntryPerWorker
  <2>12. QueuedIsHeld' /\ RevokingHasFinisher'
    BY <1>2, <2>5, HeldKept, FinisherKept, ZenonT(60) DEF LInv
  <2>13. ASSUME NEW d \in Builds \ {b} PROVE Stays(d)
    BY <1>2, <2>8, <2>9, StaysWhen, ZenonT(60)
  <2>14. Place(b) = "active" /\ Place(b)' = "held"
    BY <1>4, <2>8, PlaceFacts, PlaceFactsNext, ZenonT(60)
  <2>15. Custody!Release(b)
    BY <2>9, <2>13, <2>14, Moved DEF Custody!Release
  <2>16. CustodyStep
    BY <2>15 DEF CustodyStep, Custody!Next
  <2> QED BY <2>10, <2>11, <2>12, <2>16 DEF LInv
<1> QED BY <1>3, <1>4

(***************************************************************************)
(* Steps that change the entries of workers.                               *)
(***************************************************************************)
LEMMA WorkersOnly ==
    ASSUME IInv, IInv', LInv, NEW t \in Tasks, Plain(t),
           tasks[t].pc \notin HeldPcs \union FinishPcs,
           lanes' = lanes, active' = active, db' = db, mishap' = mishap,
           \A c \in Conns : workers'[c] \in Registered => workers[c] \in Registered,
           \A c \in Conns : \/ workers'[c] = workers[c]
                            \/ workers'[c] = "absent"
                            \/ workers'[c] = "dead" /\ Past(c)'
                            \/ workers'[c] # "dead" /\ tasks'[c].pc # "new"
    PROVE  LInv' /\ CustodyStep
<1>1. \A u \in Tasks, d \in Builds : Carries(u, d)' <=> Carries(u, d)
  BY CarriesPlain DEF HeldPcs
<1>2. TimersOK'
  <2>1. \A d \in Builds : IsActive(d)' <=> IsActive(d)
    BY DEF IsActive
  <2> QED BY <1>1, <2>1, WaitingSteady, PlainSteady, TimersKept, ZenonT(60) DEF LInv
<1>3. ConnsOK'
  BY ConnsKept, PlainSteady DEF LInv
<1>4. OneEntryPerWorker'
  BY DEF LInv, OneEntryPerWorker
<1>5. QueuedIsHeld' /\ RevokingHasFinisher'
  BY HeldKept, FinisherKept, ZenonT(60) DEF LInv, Plain
<1>6. ASSUME NEW d \in Builds PROVE Stays(d)
  BY <1>1, StaysWhen, ZenonT(60)
<1> QED BY <1>2, <1>3, <1>4, <1>5, <1>6 DEF LInv, CustodyStep

\* The entry of a connection that is not past its cleanup is not dead.
LEMMA OpenNotDead ==
    ASSUME IInv, LInv, NEW c \in Conns, tasks[c].pc \in OpenPcs, workers[c] # "absent"
    PROVE  workers[c] \in Registered
BY DEF IInv, TypeOK, WorkerStates, LInv, ConnsOK, Past

LEMMA WorkerStoppingLife ==
    ASSUME IInv, IInv', LInv, NEW c \in Conns, WorkerStopping(c)
    PROVE  LInv' /\ CustodyStep
<1>1. /\ c \in Tasks /\ tasks' = tasks /\ tasks[c].pc = "recv"
      /\ lanes' = lanes /\ active' = active /\ db' = db /\ mishap' = mishap
      /\ workers' = [workers EXCEPT ![c] = "stopping"] /\ workers[c] # "absent"
      /\ workers \in [Conns -> WorkerStates]
  BY ZenonT(60) DEF WorkerStopping, rows, Tasks, IInv, TypeOK
<1>2. tasks[c].pc \in OpenPcs /\ tasks[c].pc \notin HeldPcs \union FinishPcs
  BY <1>1 DEF OpenPcs, HeldPcs, FinishPcs, CarryPcs
<1>3. workers[c] \in Registered
  BY <1>1, <1>2, OpenNotDead
<1>4. Plain(c)
  BY <1>1 DEF Plain, Moves, Past
<1>5. \A d \in Conns : /\ workers'[d] \in Registered => workers[d] \in Registered
                       /\ \/ workers'[d] = workers[d]
                          \/ workers'[d] # "dead" /\ tasks'[d].pc # "new"
  BY <1>1, <1>3
<1> QED BY <1>1, <1>2, <1>4, <1>5, WorkersOnly, ZenonT(60)

LEMMA CloseDeadLife ==
    ASSUME IInv, IInv', LInv, NEW c \in Conns, CloseDead(c)
    PROVE  LInv' /\ CustodyStep
<1> DEFINE r == [Task("dead_snapshot", "closed") EXCEPT !.c = c]
<1>1. /\ c \in Tasks /\ tasks[c].pc = "close_dead" /\ tasks' = [tasks EXCEPT ![c] = r]
      /\ lanes' = lanes /\ active' = active /\ db' = db /\ mishap' = mishap
      /\ workers' = workers \/ workers' = [workers EXCEPT ![c] = "dead"]
      /\ workers \in [Conns -> WorkerStates]
  BY DEF CloseDead, SetWorkerState, rows, Tasks, IInv, TypeOK
<1>2. r.pc = "dead_snapshot" /\ r.ret = "closed"
  BY DEF Task
<1> HIDE DEF r
<1>3. /\ tasks[c].pc \in OpenPcs /\ tasks[c].pc \notin HeldPcs \union FinishPcs
      /\ r.pc \notin EntryPcs
  BY <1>1, <1>2 DEF OpenPcs, HeldPcs, FinishPcs, EntryPcs, WaitPcs, CarryPcs, GracePcs
<1>4. Plain(c)
  BY <1>1, <1>3, ConnPlain, ZenonT(60)
<1>5. Past(c)'
  <2>1. tasks'[c] = r
    BY <1>1 DEF IInv, TasksOK
  <2> QED BY <1>2, <2>1 DEF Past, OpenPcs
<1>6. \A d \in Conns : /\ workers'[d] \in Registered => workers[d] \in Registered
                       /\ \/ workers'[d] = workers[d]
                          \/ workers'[d] = "dead" /\ Past(d)'
  BY <1>1, <1>5 DEF Registered
<1> QED BY <1>1, <1>3, <1>4, <1>6, WorkersOnly

LEMMA GraceDeadLife ==
    ASSUME IInv, IInv', LInv, NEW t \in Tasks, GraceDead(t)
    PROVE  LInv' /\ CustodyStep
<1>1. PICK c \in Conns : c = tasks[t].c /\ Past(c)
  BY ZenonT(60) DEF GraceDead, IInv, TasksOK, GoodTask, ConnPcs, LInv, ConnsOK, GracePcs
<1>2. /\ tasks[t].pc = "grace_dead" /\ tasks' = Goto(t, "dead_snapshot")
      /\ lanes' = lanes /\ active' = active /\ db' = db /\ mishap' = mishap
      /\ workers' = workers \/ workers' = [workers EXCEPT ![c] = "dead"]
      /\ workers \in [Conns -> WorkerStates]
  BY <1>1, ZenonT(60) DEF GraceDead, SetWorkerState, rows, IInv, TypeOK
<1>3. Plain(t) /\ tasks[t].pc \notin HeldPcs \union FinishPcs
  BY <1>2, GotoPlain, ZenonT(60)
     DEF IInv, OpenPcs, HeldPcs, FinishPcs, EntryPcs, WaitPcs, CarryPcs, GracePcs
<1>4. Past(c)'
  BY <1>1, <1>3, PastKept, ZenonT(60) DEF Plain, LInv
<1>5. \A d \in Conns : /\ workers'[d] \in Registered => workers[d] \in Registered
                       /\ \/ workers'[d] = workers[d]
                          \/ workers'[d] = "dead" /\ Past(d)'
  BY <1>2, <1>4 DEF Registered
<1> QED BY <1>2, <1>3, <1>5, WorkersOnly

LEMMA ForceDisconnectLife ==
    ASSUME IInv, IInv', LInv, NEW s \in Slots, NEW c \in Conns, ForceDisconnect(s, c)
    PROVE  LInv' /\ CustodyStep
<1> DEFINE r == [Task("fd_sender", "reply") EXCEPT !.c = c]
<1>1. /\ s \in Tasks /\ s \notin Conns /\ tasks[s] = Idle
      /\ tasks' = [tasks EXCEPT ![s] = r]
      /\ lanes' = lanes /\ active' = active /\ db' = db /\ mishap' = mishap
      /\ workers' = [workers EXCEPT ![c] = "absent"] /\ workers \in [Conns -> WorkerStates]
  BY IdentityAssumption DEF ForceDisconnect, rows, Tasks, IInv, TypeOK
<1>2. r.pc = "fd_sender" /\ tasks[s].pc = "idle"
  BY <1>1 DEF Task, Idle
<1> HIDE DEF r
<1>3. PlainNext(s, r) /\ tasks[s].pc \notin HeldPcs \union FinishPcs
  BY <1>1, <1>2 DEF PlainNext, EntryPcs, WaitPcs, CarryPcs, GracePcs, HeldPcs, FinishPcs
<1>4. Plain(s)
  BY <1>1, <1>3, PlainOne, ZenonT(60) DEF IInv
<1>5. \A d \in Conns : /\ workers'[d] \in Registered => workers[d] \in Registered
                       /\ workers'[d] = workers[d] \/ workers'[d] = "absent"
  BY <1>1 DEF Registered
<1> QED BY <1>1, <1>3, <1>4, <1>5, WorkersOnly

\* A closing connection leaves a monitor of its grace period behind.
LEMMA CloseDisconnectedLife ==
    ASSUME IInv, IInv', LInv, NEW c \in Conns, CloseDisconnected(c)
    PROVE  LInv' /\ CustodyStep
<1> DEFINE next == Task("closed", "closed")
           new  == [Task("grace_wait", "idle") EXCEPT !.c = c]
<1>1. /\ c \in Tasks /\ c \notin Slots /\ tasks[c].pc = "close_disconnected" /\ TasksOK
      /\ lanes' = lanes /\ active' = active /\ db' = db /\ mishap' = mishap
      /\ IF workers[c] = "absent" THEN workers' = workers
         ELSE workers' = [workers EXCEPT ![c] = "disconnected"]
      /\ workers \in [Conns -> WorkerStates] /\ Spawn(c, next, new)
  BY IdentityAssumption DEF CloseDisconnected, SetWorkerState, rows, Tasks, IInv, TypeOK
<1>2. /\ next.pc = "closed" /\ next.ret = "closed"
      /\ new.pc = "grace_wait" /\ new.c = c
  BY DEF Task
<1> HIDE DEF next, new
<1>3. PlainNext(c, next) /\ tasks[c].pc \in OpenPcs /\ tasks[c].pc \notin HeldPcs \union FinishPcs
  BY <1>1, <1>2
     DEF PlainNext, OpenPcs, EntryPcs, WaitPcs, CarryPcs, GracePcs, HeldPcs, FinishPcs
<1>4. PICK s \in Slots : /\ Moves(c) /\ tasks'[s] = new /\ tasks[s] = Idle /\ tasks'[c] = next
                         /\ \A u \in Tasks \ {s} : tasks'[u] = tasks[u] \/ u = c
  <2>1. /\ Moves(c)
        /\ \E s \in Slots : /\ tasks'[s] = new
                            /\ \A u \in Tasks \ {s} : tasks'[u] = tasks[u] \/ u = c
                            /\ c # s => tasks'[c] = next /\ tasks[s] = Idle
    BY <1>1, <1>3, SpawnPlain
  <2> QED BY <1>1, <2>1, ZenonT(60)
<1>5. Past(c)'
  BY <1>2, <1>4 DEF Past, OpenPcs
<1>6. Idle.pc = "idle"
  BY DEF Idle, Task
<1>7. \A u \in Tasks, b \in Builds : /\ Carries(u, b)' <=> Carries(u, b)
                                     /\ Waiting(u, b)' => Waiting(u, b) /\ tasks'[u] = tasks[u]
  BY <1>1, <1>2, <1>4, <1>6 DEF Carries, Waiting
<1>8. TimersOK'
  <2>1. \A d \in Builds : IsActive(d)' <=> IsActive(d)
    BY <1>1 DEF IsActive
  <2> QED BY <1>1, <1>7, <2>1, TimersKept, ZenonT(60) DEF LInv
<1>9. \A d \in Conns : /\ workers'[d] \in Registered => workers[d] \in Registered
                       /\ workers'[d] = workers[d] \/ (d = c /\ workers'[d] = "disconnected")
  <2>1. CASE workers[c] = "absent"
    BY <1>1, <2>1, ZenonT(60)
  <2>2. CASE workers[c] # "absent"
    <3>1. workers' = [workers EXCEPT ![c] = "disconnected"] /\ workers[c] \in Registered
      BY <1>1, <1>3, <2>2, OpenNotDead
    <3> QED BY <1>1, <3>1
  <2> QED BY <2>1, <2>2
<1>10. ConnsOK'
  <2>1. \A u \in Tasks : tasks'[u].pc \in GracePcs =>
          tasks'[u] = tasks[u] \/ \E d \in Conns : tasks'[u].c = d /\ Past(d)'
    BY <1>2, <1>4, <1>5 DEF GracePcs
  <2>2. \A d \in Conns : d \in Tasks /\ d # s /\ (d # c => tasks'[d] = tasks[d])
    BY <1>4, IdentityAssumption, ZenonT(60) DEF Tasks
  <2>3. \A d \in Conns : tasks'[d].pc \in SubmitPcs \union {"ack_wait", "new"} =>
          tasks[d].pc = tasks'[d].pc
    BY <1>2, <1>4, <2>2 DEF SubmitPcs
  <2>4. \A d \in Conns : \/ workers'[d] = workers[d]
                         \/ workers'[d] # "dead" /\ tasks'[d].pc # "new"
    BY <1>2, <1>4, <1>9
  <2> QED BY <1>1, <1>4, <1>5, <2>1, <2>3, <2>4, ConnsStep, ZenonT(60) DEF LInv
<1>11. OneEntryPerWorker'
  BY <1>9 DEF LInv, OneEntryPerWorker
<1>12. QueuedIsHeld' /\ RevokingHasFinisher'
  BY <1>1, <1>3, <1>4, HeldKept, FinisherKept, ZenonT(60) DEF LInv
<1>13. ASSUME NEW d \in Builds PROVE Stays(d)
  BY <1>1, <1>7, StaysWhen, ZenonT(60)
<1> QED BY <1>8, <1>10, <1>11, <1>12, <1>13 DEF LInv, CustodyStep

\* A new connection takes the place, and the builds, of the worker's older one.
LEMMA RegisterLife ==
    ASSUME IInv, IInv', LInv, NEW c \in Conns, Register(c)
    PROVE  LInv' /\ CustodyStep
<1>1. /\ c \in Tasks /\ tasks[c].pc = "new" /\ TasksOK /\ workers[c] = "absent"
      /\ lanes' = lanes /\ db' = db /\ mishap' = mishap
      /\ workers \in [Conns -> WorkerStates] /\ active \in [Builds -> ActiveRecords]
  BY ZenonT(60) DEF Register, rows, Tasks, IInv, TypeOK, LInv, ConnsOK
<1>2. tasks[c].pc \in OpenPcs /\ tasks[c].pc \notin HeldPcs \union FinishPcs
  BY <1>1 DEF OpenPcs, HeldPcs, FinishPcs, CarryPcs
<1>3. CASE /\ EntriesOf(WorkerOf[c]) = {} /\ active' = active
           /\ workers' = [workers EXCEPT ![c] = "connected"] /\ tasks' = Goto(c, "add_sender")
  <2>1. Plain(c) /\ tasks'[c].pc = "add_sender"
    BY <1>1, <1>2, <1>3, ConnGotoPlain, GotoFields, ZenonT(60) DEF EntryPcs, WaitPcs, CarryPcs, GracePcs
  <2>2. \A u \in Tasks, d \in Builds : Carries(u, d)' <=> Carries(u, d)
    BY <1>1, <1>2, <2>1, CarriesPlain DEF HeldPcs
  <2>3. TimersOK'
    <3>1. \A d \in Builds : IsActive(d)' <=> IsActive(d)
      BY <1>3 DEF IsActive
    <3> QED BY <1>1, <1>3, <2>1, <2>2, <3>1, WaitingSteady, PlainSteady, TimersKept, ZenonT(60) DEF LInv
  <2>4. ConnsOK'
    <3>1. \A d \in Conns : \/ workers'[d] = workers[d]
                           \/ workers'[d] # "dead" /\ tasks'[d].pc # "new"
      BY <1>1, <1>3, <2>1, ZenonT(60)
    <3> QED BY <1>1, <2>1, <3>1, ConnsKept, PlainSteady, ZenonT(60) DEF LInv
  <2>5. OneEntryPerWorker'
    <3>1. \A d \in Conns : /\ d # c => workers'[d] = workers[d]
                           /\ workers[d] \in Registered => WorkerOf[d] # WorkerOf[c]
      BY <1>1, <1>3 DEF EntriesOf
    <3> QED BY <3>1 DEF LInv, OneEntryPerWorker
  <2>6. QueuedIsHeld' /\ RevokingHasFinisher'
    BY <1>1, <1>2, <2>1, HeldKept, FinisherKept DEF LInv, Plain
  <2>7. ASSUME NEW d \in Builds PROVE Stays(d)
    BY <1>1, <1>3, <2>2, StaysWhen, ZenonT(60)
  <2> QED BY <2>3, <2>4, <2>5, <2>6, <2>7 DEF LInv, CustodyStep
<1>4. ASSUME NEW old \in EntriesOf(WorkerOf[c]),
             workers' = [workers EXCEPT ![old] = "absent", ![c] = "connected"],
             tasks' = [tasks EXCEPT ![c].pc = "supersede", ![c].c = old,
                                    ![c].st = workers[old], ![c].ret = "add_sender"],
             active' = [b \in Builds |-> IF Owns(old, b)
                           THEN [active[b] EXCEPT !.conn = c] ELSE active[b]]
      PROVE  LInv' /\ CustodyStep
  <2> DEFINE r == [tasks[c] EXCEPT !.pc = "supersede", !.c = old,
                                   !.st = workers[old], !.ret = "add_sender"]
             bs == {b \in Builds : Owns(old, b)}
  <2>1. old \in Conns /\ workers[old] \in Registered /\ WorkerOf[old] = WorkerOf[c] /\ old # c
    BY <1>1 DEF EntriesOf, Registered
  <2>2. tasks' = [tasks EXCEPT ![c] = r]
    BY <1>1, <1>4, ZenonT(60) DEF TasksOK
  <2>3. r.pc = "supersede"
    BY <1>1 DEF TasksOK, TaskRecords
  <2> HIDE DEF r
  <2>4. Plain(c) /\ tasks'[c].pc = "supersede"
    BY <1>1, <1>2, <2>2, <2>3, ConnPlain, ZenonT(60)
       DEF EntryPcs, WaitPcs, CarryPcs, GracePcs, TasksOK
  <2>5. \A u \in Tasks, d \in Builds : Carries(u, d)' <=> Carries(u, d)
    BY <1>1, <1>2, <2>4, CarriesPlain, ZenonT(60) DEF HeldPcs
  <2>6. ASSUME NEW d \in Builds
        PROVE  /\ active'[d].conn = IF d \in bs THEN c ELSE active[d].conn
               /\ active'[d].tok = active[d].tok /\ active'[d].cancelled = active[d].cancelled
               /\ d \in bs => IsActive(d)
               /\ IsActive(d)' <=> IsActive(d)
    <3>1. active[d] \in ActiveRecords
      BY <1>1
    <3>2. active'[d] = IF Owns(old, d) THEN [active[d] EXCEPT !.conn = c] ELSE active[d]
      BY <1>4
    <3>3. /\ active'[d].conn = IF d \in bs THEN c ELSE active[d].conn
          /\ active'[d].tok = active[d].tok /\ active'[d].cancelled = active[d].cancelled
      BY <3>1, <3>2 DEF ActiveRecords
    <3> QED BY <2>1, <3>3, IdentityAssumption, ZenonT(60) DEF IsActive, Owns
  <2> HIDE DEF bs
  <2>7. TimersOK'
    BY <1>1, <2>4, <2>5, <2>6, WaitingSteady, PlainSteady, TimersKept, ZenonT(60) DEF LInv
  <2>8. /\ workers'[old] = "absent" /\ workers'[c] = "connected"
        /\ \A d \in Conns \ {old, c} : workers'[d] = workers[d]
    BY <1>1, <1>4, <2>1
  <2>9. ConnsOK'
    <3>1. \A d \in Conns : \/ workers'[d] = workers[d] \/ workers'[d] = "absent"
                           \/ workers'[d] # "dead" /\ tasks'[d].pc # "new"
      BY <2>4, <2>8, ZenonT(60)
    <3> QED BY <1>1, <2>4, <3>1, ConnsKept, PlainSteady, ZenonT(60) DEF LInv
  <2>10. OneEntryPerWorker'
    <3>1. \A d \in Conns : workers'[d] \in Registered =>
             d = c \/ (d # old /\ workers[d] \in Registered)
      BY <2>8, ZenonT(60) DEF Registered
    <3>2. \A d \in Conns : workers[d] \in Registered /\ d # old => WorkerOf[d] # WorkerOf[c]
      BY <2>1 DEF LInv, OneEntryPerWorker
    <3> QED BY <3>1, <3>2, ZenonT(60) DEF LInv, OneEntryPerWorker
  <2>11. QueuedIsHeld' /\ RevokingHasFinisher'
    BY <1>1, <1>2, <2>4, HeldKept, FinisherKept, ZenonT(60) DEF LInv, Plain
  <2>12. ASSUME NEW d \in Builds PROVE Place(d)' = Place(d)
    BY <1>1, <2>5, <2>6, PlaceFacts, PlaceFactsNext, ZenonT(60)
  <2>13. bs \in SUBSET Builds /\ \A b \in bs : Place(b) = "active"
    <3>1. bs \in SUBSET Builds
      BY DEF bs
    <3> QED BY <2>6, <3>1, PlaceFacts, ZenonT(60)
  <2>14. CustodyStep
    BY <2>6, <2>12, <2>13, HandedOver, ZenonT(60)
  <2> QED BY <2>7, <2>9, <2>10, <2>11, <2>14 DEF LInv
<1> QED BY <1>3, <1>4, ZenonT(60) DEF Register

(***************************************************************************)
(* The ack timer, a new build, and a restart.                              *)
(***************************************************************************)
LEMMA ArmAckLife ==
    ASSUME IInv, IInv', LInv, NEW t \in Tasks, ArmAck(t)
    PROVE  LInv' /\ CustodyStep
<1> DEFINE next == IF t = Sweep THEN Task("try_dispatch", "idle") ELSE After(t)
<1>1. PICK b \in Builds : b = tasks[t].b
  BY InHandKnown DEF ArmAck, NoBuildPcs
<1> DEFINE new == [Task("ack_wait", "idle") EXCEPT !.b = b, !.tok = active[b].tok]
<1>2. /\ QueueStays /\ UNCHANGED << rows, queue >> /\ db' = db /\ mishap' = mishap /\ TasksOK
      /\ tasks[t].pc = "arm_ack" /\ tasks[t].pc \notin HeldPcs \union FinishPcs
  BY DEF ArmAck, QueueStays, rows, queue, IInv, HeldPcs, FinishPcs, CarryPcs
<1>3. \/ IsActive(b) /\ ~active[b].cancelled /\ Spawn(t, next, new)
      \/ tasks' = [tasks EXCEPT ![t] = next]
  BY <1>1, ZenonT(60) DEF ArmAck
<1>4. PlainNext(t, next)
  <2>1. t = Sweep => PlainNext(t, Task("try_dispatch", "idle"))
    BY IdentityAssumption DEF PlainNext, Task, EntryPcs, WaitPcs, CarryPcs, GracePcs
  <2> QED BY <1>2, <2>1, AfterPlain
<1>5. new.pc = "ack_wait" /\ new.b = b /\ new.tok = active[b].tok
  BY DEF Task
<1> HIDE DEF next, new
<1>6. CASE tasks' = [tasks EXCEPT ![t] = next]
  BY <1>2, <1>4, <1>6, PlainOne, CalmTasks, CalmStep, ZenonT(60)
<1>7. CASE IsActive(b) /\ ~active[b].cancelled /\ Spawn(t, next, new)
  <2>1. PICK s \in Slots :
          /\ Moves(t) /\ (t \in Conns /\ Past(t) => Past(t)') /\ tasks'[s] = new
          /\ \A u \in Tasks \ {s} : tasks'[u] = tasks[u] \/ u = t
          /\ t # s => tasks'[t] = next /\ tasks[s] = Idle
    <3>1. /\ Moves(t) /\ (t \in Conns /\ Past(t) => Past(t)')
          /\ \E s \in Slots : /\ tasks'[s] = new
                              /\ \A u \in Tasks \ {s} : tasks'[u] = tasks[u] \/ u = t
                              /\ t # s => tasks'[t] = next /\ tasks[s] = Idle
      BY <1>2, <1>4, <1>7, SpawnPlain
    <3> QED BY <3>1, ZenonT(60)
  <2>2. next.pc \notin EntryPcs /\ Idle.pc = "idle"
    BY <1>4 DEF PlainNext, Idle, Task
  <2>3. ASSUME NEW u \in Tasks
        PROVE  \/ tasks'[u] = tasks[u]
               \/ u = s /\ tasks'[u] = new
               \/ u = t /\ u # s /\ tasks'[u].pc \notin EntryPcs
    BY <2>1, <2>2
  <2>4. \A u \in Tasks, d \in Builds : Carries(u, d)' <=> Carries(u, d)
    <3>1. tasks[s].pc \notin CarryPcs /\ tasks[t].pc \notin CarryPcs
      BY <1>2, <2>1, <2>2 DEF CarryPcs
    <3> QED BY <1>5, <2>3, <3>1 DEF Carries, EntryPcs, CarryPcs
  <2>5. TimersOK'
    <3>1. ~QueueContains(lanes, b) /\ \A u \in Tasks : ~Carries(u, b)
      BY <1>7, HolderFacts, ZenonT(60)
    <3>2. ASSUME NEW u \in Tasks, NEW d \in Builds, Waiting(u, d)'
          PROVE  /\ ~QueueContains(lanes', d)
                 /\ \A v \in Tasks : ~Carries(v, d)'
                 /\ IsActive(d)' => tasks'[u].tok = active'[d].tok /\ ~active'[d].cancelled
      <4>1. CASE u = s /\ tasks'[u] = new
        <5>1. d = b
          BY <1>5, <3>2, <4>1 DEF Waiting
        <5> QED BY <1>2, <1>5, <1>7, <2>4, <3>1, <4>1, <5>1, ZenonT(60) DEF QueueStays
      <4>2. CASE tasks'[u] = tasks[u]
        <5>1. Waiting(u, d)
          BY <3>2, <4>2 DEF Waiting
        <5> QED BY <1>2, <2>4, <4>2, <5>1, QueueStaysFacts, ZenonT(60) DEF LInv, TimersOK, QueueStays
      <4>3. tasks'[u].pc \in EntryPcs
        BY <3>2 DEF Waiting, EntryPcs, WaitPcs
      <4> QED BY <2>3, <4>1, <4>2, <4>3, ZenonT(60)
    <3> QED BY <3>2, ZenonT(60) DEF TimersOK
  <2>6. ConnsOK'
    <3>1. \A c \in Conns : c \in Tasks /\ c # s
      BY IdentityAssumption DEF Tasks
    <3>2. \A u \in Tasks : tasks'[u].pc \in GracePcs => tasks'[u] = tasks[u]
      BY <1>5, <2>3, ZenonT(60) DEF GracePcs, EntryPcs, WaitPcs
    <3>3. \A c \in Conns : tasks'[c].pc \in SubmitPcs \union {"ack_wait", "new"} =>
            tasks[c].pc = tasks'[c].pc
      BY <2>3, <3>1 DEF EntryPcs, WaitPcs, CarryPcs, SubmitPcs
    <3> QED BY <1>2, <2>1, <3>2, <3>3, ConnsStep, ZenonT(60) DEF LInv, QueueStays
  <2>7. OneEntryPerWorker'
    BY <1>2 DEF LInv, OneEntryPerWorker, QueueStays
  <2>8. QueuedIsHeld' /\ RevokingHasFinisher'
    BY <1>2, <2>1, HeldKept, FinisherKept, QueueStaysFacts, ZenonT(60) DEF LInv
  <2> QED BY <1>2, <2>4, <2>5, <2>6, <2>7, <2>8, AllStay, ZenonT(60) DEF LInv
<1> QED BY <1>3, <1>6, <1>7

LEMMA SubmitInsertLife ==
    ASSUME IInv, IInv', LInv, NEW s \in Slots, NEW b \in Builds, SubmitInsert(s, b)
    PROVE  LInv' /\ CustodyStep
<1> DEFINE r == [Task("submit_log", "reply") EXCEPT !.b = b]
<1>1. /\ s \in Tasks /\ s \notin Conns /\ tasks[s] = Idle /\ db[b] = "none"
      /\ tasks' = [tasks EXCEPT ![s] = r] /\ QueueStays /\ mishap' = mishap
      /\ db' = [db EXCEPT ![b] = "queued"] /\ db \in [Builds -> DbStates]
  BY IdentityAssumption DEF SubmitInsert, QueueStays, queue, Tasks, IInv, TypeOK
<1>2. r.pc = "submit_log" /\ r.b = b /\ tasks[s].pc = "idle"
  BY <1>1 DEF Task, Idle
<1> HIDE DEF r
<1>3. tasks'[s] = r /\ \A u \in Tasks \ {s} : tasks'[u] = tasks[u]
  BY <1>1 DEF IInv, TasksOK
<1>4. db'[b] = "queued" /\ \A d \in Builds \ {b} : db'[d] = db[d]
  BY <1>1
<1>5. \A u \in Tasks : tasks[u].b # b
  BY <1>1 DEF IInv, TasksOK, GoodTask
<1>6. Moves(s)
  BY <1>3 DEF Moves
<1>7. \A u \in Tasks, d \in Builds :
        /\ Carries(u, d)' <=> Carries(u, d) \/ (u = s /\ d = b)
        /\ Waiting(u, d)' => Waiting(u, d) /\ tasks'[u] = tasks[u] /\ d # b
  BY <1>2, <1>3, <1>5 DEF Carries, Waiting
<1>8. TimersOK'
  BY <1>1, <1>7, QueueStaysFacts, TimersKept DEF LInv, QueueStays
<1>9. ConnsOK'
  <2>1. \A u \in Tasks : tasks'[u].pc \in GracePcs => tasks'[u] = tasks[u]
    BY <1>2, <1>3 DEF GracePcs
  <2>2. \A c \in Conns : tasks'[c] = tasks[c]
    BY <1>1, <1>3 DEF Tasks
  <2> QED BY <1>1, <1>6, <2>1, <2>2, ConnsStep DEF LInv, QueueStays
<1>10. OneEntryPerWorker'
  BY <1>1 DEF LInv, OneEntryPerWorker, QueueStays
<1>11. QueuedIsHeld'
  <2>1. Held(b)'
    BY <1>1, <1>2, <1>3 DEF Held, HeldPcs, CarryPcs
  <2> QED BY <1>1, <1>2, <1>4, <1>6, <2>1, HeldKept, QueueStaysFacts, ZenonT(60) DEF LInv, HeldPcs, CarryPcs
<1>12. RevokingHasFinisher'
  BY <1>1, <1>2, <1>4, <1>6, FinisherKept DEF LInv, FinishPcs
<1>13. ASSUME NEW d \in Builds \ {b} PROVE Stays(d)
  BY <1>1, <1>4, <1>7, QueueStaysFacts, StaysWhen, ZenonT(60)
<1>14. Place(b) = "none" /\ Place(b)' = "held" /\ active'[b].conn = None
  BY <1>1, <1>7, QueueStaysFacts, PlaceFacts, PlaceFactsNext, ZenonT(60) DEF IsActive, IInv, Known
<1>15. Custody!Accept(b)
  BY <1>13, <1>14, Moved DEF Custody!Accept
<1>16. CustodyStep
  BY <1>15 DEF CustodyStep, Custody!Next
<1> QED BY <1>8, <1>9, <1>10, <1>11, <1>12, <1>16 DEF LInv

\* run_startup_recovery queues every build whose row still says queued.
LEMMA RestartLife ==
    ASSUME IInv, IInv', LInv, Restart
    PROVE  LInv' /\ CustodyStep
<1>1. PICK ls : (\A p \in Priorities : {ls[p][i] : i \in DOMAIN ls[p]} = Recovered(p)) /\ lanes' = ls
  BY DEF Restart
<1> DEFINE closed == Task("closed", "closed")
<1>2. closed.pc = "closed" /\ Idle.pc = "idle"
  BY DEF Task, Idle
<1>3. tasks' = [t \in Tasks |->
          IF t \notin Conns THEN Idle
          ELSE IF tasks[t].pc = "new" THEN tasks[t] ELSE closed]
  BY DEF Restart
<1> HIDE DEF closed
<1>4. \A t \in Tasks : tasks'[t].pc \in {"idle", "new", "closed"}
  BY <1>2, <1>3
<1>5. /\ \A c \in Conns : workers'[c] = "absent"
      /\ \A b \in Builds : active'[b].conn = None
      /\ \A b \in Builds : /\ db'[b] = "queued" => db[b] = "queued" /\ b \notin Corrupt
                           /\ db'[b] # "revoking" /\ (db'[b] = "none" <=> db[b] = "none")
  BY DEF Restart, NoActive
<1>6. TimersOK'
  BY <1>4 DEF TimersOK, Waiting
<1>7. ConnsOK' /\ OneEntryPerWorker'
  BY <1>4, <1>5 DEF ConnsOK, OneEntryPerWorker, GracePcs, SubmitPcs, Registered, Tasks
<1>8. QueuedIsHeld'
  <2>1. ASSUME NEW b \in Builds, db'[b] = "queued" PROVE QueueContains(lanes', b)
    <3>1. b \in Recovered(PrioOf[b]) /\ PrioOf[b] \in Priorities
      BY <1>5, <2>1, TablesAssumption DEF Recovered
    <3> QED BY <1>1, <3>1 DEF QueueContains, LaneContains
  <2> QED BY <2>1 DEF QueuedIsHeld
<1>9. RevokingHasFinisher'
  BY <1>5 DEF RevokingHasFinisher
<1>10. \A b \in Builds : /\ Place(b)' \in {"none", "pending", "out"}
                         /\ Place(b)' = "none" <=> Place(b) = "none"
  <2>1. \A t \in Tasks, b \in Builds : ~Carries(t, b)'
    BY <1>4 DEF Carries
  <2> QED BY <1>5, <2>1, PlaceFacts, PlaceFactsNext, ZenonT(60) DEF IsActive
<1>11. Custody!Restart
  BY <1>5, <1>10 DEF Custody!Restart
<1> QED BY <1>6, <1>7, <1>8, <1>9, <1>11 DEF LInv, CustodyStep, Custody!Next

(***************************************************************************)
(* The invariant is inductive with IInv, and every step is a step of       *)
(* BuildCustody.                                                           *)
(***************************************************************************)
LEMMA InitLife == Init => LInv
<1> SUFFICES ASSUME Init PROVE LInv
  OBVIOUS
<1> DEFINE new == Task("new", "closed")
<1>1. new.pc = "new" /\ Idle.pc = "idle"
  BY DEF Task, Idle
<1>2. tasks = [t \in Tasks |-> IF t \in Conns THEN new ELSE Idle]
  BY DEF Init
<1> HIDE DEF new
<1>3. \A t \in Tasks : tasks[t].pc \in {"idle", "new"}
  BY <1>1, <1>2
<1>4. TimersOK
  BY <1>3 DEF TimersOK, Waiting
<1>5. ConnsOK /\ OneEntryPerWorker
  BY <1>3 DEF Init, ConnsOK, OneEntryPerWorker, GracePcs, SubmitPcs, Registered, Tasks
<1>6. QueuedIsHeld /\ RevokingHasFinisher
  BY DEF Init, QueuedIsHeld, RevokingHasFinisher
<1> QED BY <1>4, <1>5, <1>6 DEF LInv

LEMMA StepLife ==
    ASSUME IInv, IInv', LInv, NEW t \in Tasks, Step(t)
    PROVE  LInv' /\ CustodyStep
<1>1. CASE \/ NothingToDispatch(t) \/ SendNew(t) \/ AckTimeout(t)
           \/ RollbackWatcher(t) \/ FinishWatcher(t) \/ FinishLog(t) \/ StartedDb(t)
           \/ IdleReconcileOne(t) \/ DeadSnapshot(t) \/ ResolveDeadBuild(t)
           \/ RevokeLookup(t) \/ ForceSender(t)
  <2>1. Calm(t)
    BY <1>1, DispatchCalm, FinishCalm, ResolverCalm, RevokeCalm
  <2> QED BY <2>1, CalmStep
<1>2. CASE \/ SubmitLog(t) \/ SubmitEnqueue(t) \/ Dispatch(t) \/ ArmAck(t)
           \/ RollbackTake(t) \/ RollbackDb(t) \/ RollbackEnqueue(t)
           \/ FinishDb(t) \/ FinishActive(t) \/ AcceptedCancel(t)
           \/ RevokeRemove(t) \/ RevokeMark(t) \/ RevokeDb(t) \/ RevokeSend(t)
           \/ RevokeTimeout(t) \/ GraceExpired(t) \/ GraceDead(t)
  BY <1>2, SubmitLogLife, SubmitEnqueueLife, DispatchLife, ArmAckLife, RollbackTakeLife,
     RollbackDbLife, RollbackEnqueueLife, FinishDbLife, FinishActiveLife, AcceptedCancelLife,
     RevokeRemoveLife, RevokeMarkLife, RevokeDbLife, RevokeSendLife, RevokeTimeoutLife,
     GraceExpiredLife, GraceDeadLife
<1> QED BY <1>1, <1>2, ZenonT(60) DEF Step

LEMMA ConnLife ==
    ASSUME IInv, IInv', LInv, NEW c \in Conns,
           ConnStep(c) \/ Register(c) \/ HelloRefused(c) \/ Message(c)
    PROVE  LInv' /\ CustodyStep
<1>1. CASE \/ Supersede(c) \/ AddSender(c) \/ Welcome(c) \/ HelloRefused(c)
           \/ CloseCheck(c) \/ CloseSender(c) \/ CloseArch(c)
           \/ StatusIdle(c) \/ \E b \in Builds : StatusBuilding(c, b)
  <2>1. c \in Tasks /\ Calm(c)
    BY <1>1, OpenConnCalm, CloseCalm, StatusCalm
  <2> QED BY <2>1, CalmStep
<1>2. CASE \/ Attach(c) \/ Resume(c) \/ CloseDisconnected(c) \/ CloseDead(c)
           \/ Register(c) \/ WorkerStopping(c)
  BY <1>2, AttachLife, CloseDisconnectedLife, CloseDeadLife, RegisterLife, WorkerStoppingLife
<1>3. CASE \E b \in Builds : \/ BuildAccepted(c, b) \/ BuildStarted(c, b) \/ BuildOutput(c, b)
                             \/ BuildFinished(c, b) \/ BuildRejected(c, b)
  BY <1>3, LifecycleLife
<1> QED BY <1>1, <1>2, <1>3, ZenonT(60) DEF ConnStep, Message

LEMMA RequestLife ==
    ASSUME IInv, IInv', LInv, NEW s \in Slots, Request(s)
    PROVE  LInv' /\ CustodyStep
<1>1. ASSUME NEW b \in Builds, RevokeRequest(s, b) PROVE LInv' /\ CustodyStep
  BY <1>1, RevokeRequestCalm, CalmStep
<1> QED BY <1>1, SubmitInsertLife, ForceDisconnectLife DEF Request

LEMMA NextLife ==
    ASSUME IInv, IInv', LInv, [Next]_vars
    PROVE  LInv' /\ CustodyStep
<1>1. CASE UNCHANGED vars
  <2>1. TimersOK' /\ ConnsOK' /\ OneEntryPerWorker'
    <3>1. TimersOK'
      BY <1>1 DEF vars, LInv, TimersOK, Waiting, Carries, IsActive
    <3>2. ConnsOK' /\ OneEntryPerWorker'
      BY <1>1 DEF vars, LInv, ConnsOK, OneEntryPerWorker, Past
    <3> QED BY <3>1, <3>2
  <2>2. QueuedIsHeld' /\ RevokingHasFinisher'
    BY <1>1, ZenonT(60) DEF vars, LInv, QueuedIsHeld, RevokingHasFinisher, Carries, IsActive
  <2>3. ASSUME NEW b \in Builds PROVE Stays(b)
    BY <1>1 DEF vars, Stays, Place, Carries, IsActive
  <2> QED BY <2>1, <2>2, <2>3 DEF CustodyStep, LInv
<1>2. CASE \E t \in Tasks : Step(t) \/ Drop(t) \/ DropInDispatch(t)
  BY <1>2, StepLife, DropLife, DropInDispatchLife
<1>3. CASE \E c \in Conns : ConnStep(c) \/ Register(c) \/ HelloRefused(c) \/ Message(c)
  BY <1>3, ConnLife
<1>4. CASE \E s \in Slots : Request(s)
  BY <1>4, RequestLife
<1>5. CASE SweepTick
  BY <1>5, SweepCalm, CalmStep
<1>6. CASE Restart
  BY <1>6, RestartLife
<1> QED BY <1>1, <1>2, <1>3, <1>4, <1>5, <1>6 DEF Next

(***************************************************************************)
(* The type invariant with its strengthening, IInv: what every step needs. *)
(***************************************************************************)
LEMMA TaskGood ==
    ASSUME NEW pc \in NoBuildPcs \ ConnPcs, NEW ret \in Returns
    PROVE  GoodTask(Task(pc, ret))
BY BoundsAssumption, SMT DEF GoodTask, Task, TaskRecords, NoBuildPcs, ConnPcs, Pcs, Returns, Builds

LEMMA HomeGood ==
    ASSUME NEW ret \in Returns
    PROVE  GoodTask(Home(ret))
BY TaskGood DEF Home, Idle, Returns, NoBuildPcs, ConnPcs

LEMMA IdleGood == GoodTask(Idle)
BY TaskGood DEF Idle, Returns, NoBuildPcs, ConnPcs

LEMMA AfterGood ==
    ASSUME TasksOK, NEW t \in Tasks
    PROVE  GoodTask(After(t))
<1>1. GoodTask(tasks[t]) /\ tasks[t] \in TaskRecords
  BY DEF TasksOK, GoodTask
<1>2. CASE tasks[t].then \in {"resolve_dead", "resolve_idle"}
  <2> DEFINE r == [tasks[t] EXCEPT !.pc = tasks[t].then, !.b = 0, !.st = "none"]
  <2>1. GoodTask(r)
    <3>1. /\ r \in TaskRecords
          /\ r.pc = tasks[t].then /\ r.b = 0 /\ r.todo = tasks[t].todo
      BY <1>1, <1>2, ZenonT(60) DEF TaskRecords, Pcs
    <3>2. 0 \notin Builds
      BY BoundsAssumption DEF Builds
    <3> QED BY <1>1, <1>2, <3>1, <3>2 DEF GoodTask, NoBuildPcs, ConnPcs
  <2>2. GoodTask(Task("try_dispatch", r.ret))
    BY <1>1, TaskGood DEF TaskRecords, NoBuildPcs, ConnPcs
  <2> QED BY <1>2, <2>1, <2>2 DEF After, NextCandidate
<1>3. CASE tasks[t].then = "try_dispatch"
  BY <1>1, <1>3, TaskGood DEF After, TaskRecords, NoBuildPcs, ConnPcs
<1>4. CASE tasks[t].then \notin {"resolve_dead", "resolve_idle", "try_dispatch"}
  BY <1>1, <1>4, HomeGood DEF After, TaskRecords
<1> QED BY <1>2, <1>3, <1>4

\* What a step that neither queues nor carries a build does to the tasks.
StepOK == tasks' \in [Tasks -> TaskRecords] /\ \A u \in Tasks : GoodTask(tasks'[u])
Quiet == \A u \in Tasks : tasks'[u] = tasks[u] \/ tasks'[u].pc \notin CarryPcs
Rest ==
    /\ db' \in [Builds -> DbStates]
    /\ \A b \in Builds : db[b] # "none" => db'[b] # "none"
    /\ dbWorker' \in [Builds -> Workers \union {None}]
    /\ log' \in [Builds -> {"none", "open", "finished"}]
    /\ workers' \in [Conns -> WorkerStates]
    /\ senders' \subseteq Conns
    /\ watchers' \subseteq Builds
    /\ mishap' \subseteq Builds

LEMMA OneTask ==
    ASSUME TasksOK, NEW t \in Tasks, NEW r, GoodTask(r),
           tasks' = [tasks EXCEPT ![t] = r]
    PROVE  StepOK /\ (r.pc \notin CarryPcs => Quiet)
BY DEF TasksOK, StepOK, Quiet, GoodTask

LEMMA Unchanged ==
    ASSUME IInv
    PROVE  /\ UNCHANGED tasks => StepOK /\ Quiet
           /\ UNCHANGED << rows, workers, senders, watchers, mishap >> => Rest
BY DEF IInv, TypeOK, TasksOK, StepOK, Quiet, Rest, rows

LEMMA TasksKept ==
    ASSUME IInv, StepOK, Rest
    PROVE  TasksOK'
BY DEF IInv, TasksOK, StepOK, Rest, GoodTask, TaskRecords, Candidates

LEMMA Assemble ==
    ASSUME IInv, StepOK, Quiet, Rest, lanes' = lanes,
           active' \in [Builds -> ActiveRecords],
           \A b \in Builds : IsActive(b)' => IsActive(b)
    PROVE  IInv'
<1>1. TypeOK'
  BY DEF IInv, TypeOK, StepOK, Rest
<1>2. TasksOK'
  BY TasksKept
<1>3. Known'
  BY DEF IInv, Known, Rest, QueueContains, LaneContains
<1>4. \A t \in Tasks, b \in Builds : Carries(t, b)' => Carries(t, b)
  BY DEF Quiet, Carries, CarryPcs
<1>5. SingleHolder'
  BY <1>4 DEF IInv, SingleHolder, QueueContains, LaneContains
<1> QED BY <1>1, <1>2, <1>3, <1>5 DEF IInv

LEMMA AfterQuiet ==
    ASSUME TasksOK, NEW t \in Tasks
    PROVE  After(t).pc \notin CarryPcs
<1>1. tasks[t] \in TaskRecords
  BY DEF TasksOK
<1>2. CASE tasks[t].then \in {"resolve_dead", "resolve_idle"}
  BY <1>1, <1>2 DEF After, NextCandidate, Task, CarryPcs, TaskRecords
<1>3. CASE tasks[t].then = "try_dispatch"
  BY <1>3 DEF After, Task, CarryPcs
<1>4. CASE tasks[t].then \notin {"resolve_dead", "resolve_idle", "try_dispatch"}
  BY <1>1, <1>4 DEF After, Home, Idle, Task, CarryPcs, TaskRecords, Returns
<1> QED BY <1>2, <1>3, <1>4

LEMMA ReturnStep ==
    ASSUME TasksOK, NEW t \in Tasks, tasks' = Return(t)
    PROVE  StepOK /\ Quiet
BY AfterGood, AfterQuiet, OneTask, ZenonT(60) DEF Return

\* Task t may go on at pc.
Ready(t, pc) ==
    /\ pc \in Pcs
    /\ pc \notin NoBuildPcs => tasks[t].b \in Builds
    /\ pc \in {"fin_db", "done_db"} => tasks[t].st \in Terminal
    /\ pc \in ConnPcs => tasks[t].c \in Conns

LEMMA GotoGood ==
    ASSUME TasksOK, NEW t \in Tasks, NEW pc, Ready(t, pc)
    PROVE  /\ GoodTask([tasks[t] EXCEPT !.pc = pc])
           /\ [tasks[t] EXCEPT !.pc = pc].pc = pc
           /\ Goto(t, pc) = [tasks EXCEPT ![t] = [tasks[t] EXCEPT !.pc = pc]]
<1> DEFINE r == [tasks[t] EXCEPT !.pc = pc]
<1>1. tasks[t] \in TaskRecords /\ GoodTask(tasks[t])
  BY DEF TasksOK
<1>2. /\ r \in TaskRecords
      /\ r.pc = pc /\ r.b = tasks[t].b /\ r.st = tasks[t].st
      /\ r.c = tasks[t].c /\ r.todo = tasks[t].todo
  BY <1>1 DEF TaskRecords, Ready
<1>3. Goto(t, pc) = [tasks EXCEPT ![t] = r]
  BY DEF TasksOK, Goto
<1>4. GoodTask(r)
  BY <1>1, <1>2 DEF GoodTask, Ready
<1> QED BY <1>2, <1>3, <1>4

LEMMA GotoStep ==
    ASSUME TasksOK, NEW t \in Tasks, NEW pc, Ready(t, pc), tasks' = Goto(t, pc)
    PROVE  StepOK /\ (pc \notin CarryPcs => Quiet)
BY GotoGood, OneTask, ZenonT(60)

LEMMA SpawnStep ==
    ASSUME TasksOK, NEW t \in Tasks, NEW next, NEW new, GoodTask(next), GoodTask(new),
           next.pc \notin CarryPcs, new.pc \notin CarryPcs, Spawn(t, next, new)
    PROVE  StepOK /\ Quiet
<1>1. PICK s \in Tasks : tasks' = [tasks EXCEPT ![t] = next, ![s] = new]
  BY ZenonT(60) DEF Spawn, Free, Tasks
<1>2. next \in TaskRecords /\ new \in TaskRecords
  BY DEF GoodTask
<1> QED BY <1>1, <1>2 DEF TasksOK, StepOK, Quiet

LEMMA CancelStep ==
    ASSUME TasksOK, NEW ts \in [Tasks -> TaskRecords], NEW b,
           \A u \in Tasks : GoodTask(ts[u]), tasks' = Cancel(ts, b)
    PROVE  /\ StepOK
           /\ (\A u \in Tasks : ts[u] = tasks[u] \/ ts[u].pc \notin CarryPcs) => Quiet
<1>1. GoodTask(Idle) /\ Idle.pc \notin CarryPcs
  BY IdleGood DEF Idle, Task, CarryPcs
<1>2. \A u \in Tasks : tasks'[u] = ts[u] \/ tasks'[u] = Idle
  BY DEF Cancel
<1>3. tasks' \in [Tasks -> TaskRecords]
  BY <1>1 DEF Cancel, GoodTask
<1> QED BY <1>1, <1>2, <1>3 DEF StepOK, Quiet

\* A task on build b, after the first step of its handler.
LEMMA OnGood ==
    ASSUME NEW b \in Builds, db[b] # "none", NEW pc \in Pcs, NEW ret \in Returns,
           pc \notin ConnPcs, pc \notin {"fin_db", "done_db"}
    PROVE  GoodTask([Task(pc, ret) EXCEPT !.b = b])
<1> DEFINE r == [Task(pc, ret) EXCEPT !.b = b]
<1>1. r \in TaskRecords /\ r.pc = pc /\ r.b = b /\ r.todo = {}
  BY DEF Task, TaskRecords, Returns
<1> QED BY <1>1 DEF GoodTask

(***************************************************************************)
(* Steps that leave the lanes alone and carry nothing.                     *)
(***************************************************************************)
LEMMA NothingToDispatchInv ==
    ASSUME IInv, NEW t \in Tasks, NothingToDispatch(t)
    PROVE  IInv'
<1>1. GoodTask(Home(tasks[t].ret)) /\ Home(tasks[t].ret).pc \notin CarryPcs
  BY HomeGood, ZenonT(60) DEF IInv, TasksOK, TaskRecords, Home, Idle, Task, CarryPcs, Returns
<1>2. StepOK /\ Quiet
  BY <1>1, OneTask, ZenonT(60) DEF NothingToDispatch, IInv
<1> QED BY <1>2, Unchanged, Assemble DEF NothingToDispatch, IInv, TypeOK, queue, IsActive

LEMMA SendNewInv ==
    ASSUME IInv, NEW t \in Tasks, SendNew(t)
    PROVE  IInv'
<1> DEFINE pc == SendAndRecover(tasks[t].c)
           r  == [tasks[t] EXCEPT !.c = None, !.pc = pc]
<1>1. GoodTask(tasks[t]) /\ tasks[t] \in TaskRecords /\ tasks[t].b \in Builds
  BY DEF SendNew, IInv, TasksOK, GoodTask, NoBuildPcs
<1>2. pc \in {"arm_ack", "rollback_take"}
  BY DEF SendAndRecover
<1>3. tasks' = [tasks EXCEPT ![t] = r]
  BY ZenonT(60) DEF SendNew, IInv, TasksOK
<1> HIDE DEF pc
<1>4. /\ r \in TaskRecords /\ r.pc = pc /\ r.b = tasks[t].b /\ r.todo = tasks[t].todo
      /\ pc \notin CarryPcs \union ConnPcs \union {"fin_db", "done_db"}
  BY <1>1, <1>2, ZenonT(60) DEF TaskRecords, Pcs, CarryPcs, ConnPcs
<1>5. GoodTask(r)
  BY <1>1, <1>4 DEF GoodTask
<1>6. StepOK /\ Quiet
  BY <1>3, <1>4, <1>5, OneTask, ZenonT(60) DEF IInv
<1> QED BY <1>6, Unchanged, Assemble DEF SendNew, IInv, TypeOK, queue, IsActive

LEMMA ArmAckInv ==
    ASSUME IInv, NEW t \in Tasks, ArmAck(t)
    PROVE  IInv'
<1> DEFINE b    == tasks[t].b
           next == IF t = Sweep THEN Task("try_dispatch", "idle") ELSE After(t)
           new  == [Task("ack_wait", "idle") EXCEPT !.b = b, !.tok = active[b].tok]
<1>1. b \in Builds /\ db[b] # "none" /\ active[b].tok \in Tokens \union {0}
  BY DEF ArmAck, IInv, TypeOK, TasksOK, GoodTask, NoBuildPcs, ActiveRecords
<1>2. GoodTask(Task("try_dispatch", "idle")) /\ Task("try_dispatch", "idle").pc = "try_dispatch"
  BY TaskGood, ZenonT(60) DEF NoBuildPcs, ConnPcs, Returns, Task
<1>3. GoodTask(next) /\ next.pc \notin CarryPcs
  BY <1>2, AfterGood, AfterQuiet DEF IInv, CarryPcs
<1>4. new \in TaskRecords /\ new.pc = "ack_wait" /\ new.b = b /\ new.todo = {}
  BY <1>1, ZenonT(60) DEF Task, TaskRecords, Pcs, Returns
<1>5. GoodTask(new) /\ new.pc \notin CarryPcs
  BY <1>1, <1>4 DEF GoodTask, NoBuildPcs, ConnPcs, CarryPcs
<1>6. StepOK /\ Quiet
  <2>1. CASE Spawn(t, next, new)
    BY <2>1, <1>3, <1>5, SpawnStep, ZenonT(60) DEF IInv
  <2>2. CASE tasks' = [tasks EXCEPT ![t] = next]
    BY <2>2, <1>3, OneTask, ZenonT(60) DEF IInv
  <2> QED BY <2>1, <2>2 DEF ArmAck
<1> QED BY <1>6, Unchanged, Assemble DEF ArmAck, IInv, TypeOK, queue, IsActive

LEMMA AckTimeoutInv ==
    ASSUME IInv, NEW t \in Tasks, AckTimeout(t)
    PROVE  IInv'
<1>1. Ready(t, "rollback_take") /\ "rollback_take" \notin CarryPcs
  BY DEF AckTimeout, IInv, TasksOK, GoodTask, Ready, NoBuildPcs, ConnPcs, Pcs, CarryPcs
<1>2. StepOK /\ Quiet
  BY <1>1, GotoStep DEF AckTimeout, IInv
<1> QED BY <1>2, Unchanged, Assemble DEF AckTimeout, IInv, TypeOK, queue, IsActive

LEMMA SweepTickInv ==
    ASSUME IInv, SweepTick
    PROVE  IInv'
<1>1. /\ GoodTask(Task("try_dispatch", "idle"))
      /\ Task("try_dispatch", "idle").pc \notin CarryPcs
  BY TaskGood, ZenonT(60) DEF NoBuildPcs, ConnPcs, Returns, Task, CarryPcs
<1>2. StepOK /\ Quiet
  BY <1>1, OneTask, ZenonT(60) DEF SweepTick, IInv, Tasks
<1> QED BY <1>2, Unchanged, Assemble DEF SweepTick, IInv, TypeOK, queue, IsActive

LEMMA WatcherInv ==
    ASSUME IInv, NEW t \in Tasks, RollbackWatcher(t) \/ FinishWatcher(t)
    PROVE  IInv'
<1>1. StepOK /\ Quiet
  BY ReturnStep DEF RollbackWatcher, FinishWatcher, IInv
<1>2. Rest
  BY DEF RollbackWatcher, FinishWatcher, IInv, TypeOK, Rest, rows, queue
<1> QED BY <1>1, <1>2, Assemble DEF RollbackWatcher, FinishWatcher, IInv, TypeOK, queue, IsActive

(***************************************************************************)
(* Resolvers and the helpers they run.                                     *)
(***************************************************************************)
LEMMA Settled ==
    ASSUME IInv, StepOK, Quiet, UNCHANGED << rows, queue, senders, watchers >>,
           mishap' \subseteq Builds
    PROVE  IInv'
<1>1. Rest
  BY DEF IInv, TypeOK, Rest, rows, queue
<1> QED BY <1>1, Assemble DEF IInv, TypeOK, queue, IsActive

LEMMA FaultType ==
    ASSUME IInv, NEW b \in Builds, NEW ok, Fault(b, ok)
    PROVE  mishap' \subseteq Builds
BY DEF IInv, TypeOK, Fault

LEMMA CandidateGood ==
    ASSUME NEW r, GoodTask(r), r.pc \notin CarryPcs
    PROVE  GoodTask(NextCandidate(r)) /\ NextCandidate(r).pc \notin CarryPcs
<1>1. r.ret \in Returns
  BY DEF GoodTask, TaskRecords
<1>2. /\ GoodTask(Task("try_dispatch", r.ret))
      /\ Task("try_dispatch", r.ret).pc = "try_dispatch"
  BY <1>1, TaskGood DEF NoBuildPcs, ConnPcs, Task
<1> QED BY <1>2 DEF NextCandidate, CarryPcs

LEMMA ResolveGood ==
    ASSUME TasksOK, NEW t \in Tasks, NEW x \in tasks[t].todo, NEW decision,
           tasks[t].pc \in {"resolve_idle", "resolve_dead"},
           decision \in {"skip", "rollback", "remove"} \union Terminal
    PROVE  /\ GoodTask(Resolve(t, x, decision))
           /\ Resolve(t, x, decision).pc \notin CarryPcs
<1> DEFINE rest == [tasks[t] EXCEPT !.todo = @ \ {x}]
           run  == [rest EXCEPT !.b = x.b, !.then = tasks[t].pc]
           back == [run EXCEPT !.pc = "rollback_take"]
           drop == [run EXCEPT !.pc = "remove_only"]
           fin  == [run EXCEPT !.pc = "fin_db", !.st = decision]
<1>1. /\ tasks[t] \in TaskRecords /\ GoodTask(tasks[t])
      /\ x.b \in Builds /\ db[x.b] # "none"
  BY DEF TasksOK, GoodTask, TaskRecords, Candidates
<1>2. /\ rest \in TaskRecords /\ rest.pc = tasks[t].pc /\ rest.b = tasks[t].b
      /\ rest.todo = tasks[t].todo \ {x} /\ rest.c = tasks[t].c /\ rest.st = tasks[t].st
  BY <1>1 DEF TaskRecords
<1>3. GoodTask(rest) /\ rest.pc \notin CarryPcs
  BY <1>1, <1>2 DEF GoodTask, CarryPcs
<1>4. /\ run \in TaskRecords /\ run.pc = tasks[t].pc /\ run.b = x.b
      /\ run.todo = rest.todo
  BY <1>1, <1>2, ZenonT(60) DEF TaskRecords
<1>5. /\ back \in TaskRecords /\ back.pc = "rollback_take" /\ back.b = x.b
      /\ back.todo = rest.todo
  BY <1>4, ZenonT(60) DEF TaskRecords, Pcs
<1>6. /\ drop \in TaskRecords /\ drop.pc = "remove_only" /\ drop.b = x.b
      /\ drop.todo = rest.todo
  BY <1>4, ZenonT(60) DEF TaskRecords, Pcs
<1>7. ASSUME decision \in Terminal
      PROVE  /\ fin \in TaskRecords /\ fin.pc = "fin_db" /\ fin.b = x.b
             /\ fin.todo = rest.todo /\ fin.st = decision
  BY <1>4, <1>7, ZenonT(60) DEF TaskRecords, Pcs
<1>8. \A y \in rest.todo : db[y.b] # "none"
  BY <1>3 DEF GoodTask
<1> HIDE DEF run, back, drop, fin
<1>9. GoodTask(back) /\ GoodTask(drop) /\ (decision \in Terminal => GoodTask(fin))
  BY <1>1, <1>5, <1>6, <1>7, <1>8 DEF GoodTask, ConnPcs
<1>10. Resolve(t, x, decision) =
         CASE decision = "skip" -> NextCandidate(rest)
           [] decision = "rollback" -> back
           [] decision = "remove" -> drop
           [] OTHER -> fin
  BY DEF Resolve, run, back, drop, fin
<1>11. CASE decision = "skip"
  BY <1>3, <1>10, <1>11, CandidateGood, ZenonT(60)
<1>12. CASE decision = "rollback"
  BY <1>5, <1>9, <1>10, <1>12 DEF CarryPcs
<1>13. CASE decision = "remove"
  BY <1>6, <1>9, <1>10, <1>13 DEF CarryPcs
<1>14. CASE decision \in Terminal
  BY <1>7, <1>9, <1>10, <1>14 DEF CarryPcs, Terminal
<1> QED BY <1>11, <1>12, <1>13, <1>14

LEMMA IdleReconcileOneInv ==
    ASSUME IInv, NEW t \in Tasks, IdleReconcileOne(t)
    PROVE  IInv'
<1>1. PICK x \in tasks[t].todo, decision \in {"skip", "rollback", "remove"} \union Terminal :
         tasks' = [tasks EXCEPT ![t] = Resolve(t, x, decision)]
  BY ZenonT(60) DEF IdleReconcileOne, IdleReconcileDecision, Terminal
<1> DEFINE r == Resolve(t, x, decision)
<1>2. GoodTask(r) /\ r.pc \notin CarryPcs
  <2>1. TasksOK /\ tasks[t].pc \in {"resolve_idle", "resolve_dead"}
    BY DEF IInv, IdleReconcileOne
  <2> QED BY <2>1, ResolveGood
<1> HIDE DEF r
<1>3. StepOK /\ Quiet
  <2>1. tasks' = [tasks EXCEPT ![t] = r]
    BY <1>1 DEF r
  <2> QED BY <1>2, <2>1, OneTask, ZenonT(60) DEF IInv
<1> QED BY <1>3, Settled DEF IdleReconcileOne, IInv, TypeOK

LEMMA ResolveDeadBuildInv ==
    ASSUME IInv, NEW t \in Tasks, ResolveDeadBuild(t)
    PROVE  IInv'
<1>1. PICK x \in tasks[t].todo, ok \in BOOLEAN,
           decision \in {"skip", "rollback", "remove"} \union Terminal :
         /\ tasks' = [tasks EXCEPT ![t] = Resolve(t, x, decision)]
         /\ Fault(x.b, ok)
  BY ZenonT(60) DEF ResolveDeadBuild, DeadWorkerResolution, Terminal, DbOutcomes
<1> DEFINE r == Resolve(t, x, decision)
<1>2. GoodTask(r) /\ r.pc \notin CarryPcs
  <2>1. TasksOK /\ tasks[t].pc \in {"resolve_idle", "resolve_dead"}
    BY DEF IInv, ResolveDeadBuild
  <2> QED BY <2>1, ResolveGood
<1> HIDE DEF r
<1>3. StepOK /\ Quiet
  <2>1. tasks' = [tasks EXCEPT ![t] = r]
    BY <1>1 DEF r
  <2> QED BY <1>2, <2>1, OneTask, ZenonT(60) DEF IInv
<1>4. mishap' \subseteq Builds
  BY <1>1, FaultType DEF IInv, TasksOK, TaskRecords, Candidates
<1> QED BY <1>3, <1>4, Settled DEF ResolveDeadBuild

LEMMA DeadSnapshotInv ==
    ASSUME IInv, NEW t \in Tasks, DeadSnapshot(t)
    PROVE  IInv'
<1> DEFINE todo == WithReceipt(tasks[t].c)
           r == [tasks[t] EXCEPT !.pc = "resolve_dead", !.c = None, !.todo = todo]
<1>1. GoodTask(tasks[t]) /\ tasks[t] \in TaskRecords /\ tasks[t].c \in Conns
  BY DEF DeadSnapshot, IInv, TasksOK, GoodTask, ConnPcs
<1>2. \A b \in Builds : Owns(tasks[t].c, b) => db[b] # "none"
  BY <1>1, IdentityAssumption DEF IInv, Known, Owns, IsActive
<1>3. todo \subseteq Candidates /\ \A x \in todo : db[x.b] # "none"
  <2>1. \A b \in Builds : active[b].receipt \in Receipts
    BY DEF IInv, TypeOK, ActiveRecords
  <2>2. ASSUME NEW x \in todo
        PROVE  x \in Candidates /\ db[x.b] # "none"
    <3>1. PICK b \in Builds :
             /\ Owns(tasks[t].c, b)
             /\ x = [b |-> b, receipt |-> active[b].receipt, live |-> FALSE]
      BY <2>2 DEF WithReceipt
    <3> QED BY <1>2, <2>1, <3>1 DEF Candidates
  <2> QED BY <2>2
<1>4. tasks' = [tasks EXCEPT ![t] = NextCandidate(r)]
  BY DEF DeadSnapshot, IInv, TasksOK
<1> HIDE DEF todo
<1>5. r \in TaskRecords /\ r.pc = "resolve_dead" /\ r.b = tasks[t].b /\ r.todo = todo
  BY <1>1, <1>3, ZenonT(60) DEF TaskRecords, Pcs
<1> HIDE DEF r
<1>6. GoodTask(r) /\ r.pc \notin CarryPcs
  BY <1>1, <1>3, <1>5 DEF GoodTask, NoBuildPcs, ConnPcs, CarryPcs
<1>7. StepOK /\ Quiet
  BY <1>4, <1>6, CandidateGood, OneTask, ZenonT(60) DEF IInv
<1> QED BY <1>7, Settled DEF DeadSnapshot, IInv, TypeOK

(***************************************************************************)
(* Revocation, the finishers and the grace period.                         *)
(***************************************************************************)
LEMMA DbRest ==
    ASSUME IInv, NEW b \in Builds, NEW st \in DbStates \ {"none"}, NEW ok,
           db' = IF ok THEN [db EXCEPT ![b] = st] ELSE db,
           UNCHANGED << dbWorker, log, workers, senders, watchers >>,
           mishap' \subseteq Builds
    PROVE  Rest
BY DEF IInv, TypeOK, Rest

LEMMA GoOn ==
    ASSUME IInv, NEW t \in Tasks, tasks[t].pc \notin NoBuildPcs, NEW pc \in Pcs,
           pc \notin ConnPcs \union CarryPcs \union {"fin_db", "done_db"},
           tasks' = Goto(t, pc)
    PROVE  StepOK /\ Quiet
<1>1. Ready(t, pc)
  BY InHandKnown DEF Ready
<1> QED BY <1>1, GotoStep DEF IInv

LEMMA RevokeRequestInv ==
    ASSUME IInv, NEW s \in Slots, NEW b \in Builds, RevokeRequest(s, b)
    PROVE  IInv'
<1> DEFINE pc == IF db[b] = "queued" THEN "revoke_remove" ELSE "revoke_lookup"
           r  == [Task(pc, "reply") EXCEPT !.b = b]
<1>1. pc \in {"revoke_remove", "revoke_lookup"} /\ db[b] # "none"
  BY DEF RevokeRequest
<1>2. tasks' = [tasks EXCEPT ![s] = r] /\ s \in Tasks
  BY DEF RevokeRequest, Tasks
<1> HIDE DEF pc
<1>3. GoodTask(r) /\ r.pc = pc
  BY <1>1, OnGood, ZenonT(60) DEF Pcs, ConnPcs, Returns, Task
<1> HIDE DEF r
<1>4. StepOK /\ Quiet
  BY <1>1, <1>2, <1>3, OneTask, ZenonT(60) DEF IInv, CarryPcs
<1> QED BY <1>4, Settled DEF RevokeRequest, IInv, TypeOK

LEMMA RevokeMarkInv ==
    ASSUME IInv, NEW t \in Tasks, RevokeMark(t)
    PROVE  IInv'
<1>1. tasks[t].b \in Builds
  BY InHandKnown DEF RevokeMark, NoBuildPcs
<1>2. StepOK /\ Quiet
  BY ReturnStep DEF RevokeMark, IInv
<1>3. Rest
  BY <1>1, DbRest, FaultType DEF RevokeMark, DbStates, Terminal, queue
<1> QED BY <1>2, <1>3, Assemble DEF RevokeMark, IInv, TypeOK, queue, IsActive

LEMMA RevokeLookupInv ==
    ASSUME IInv, NEW t \in Tasks, RevokeLookup(t)
    PROVE  IInv'
<1> DEFINE c == active[tasks[t].b].conn
           r == [tasks[t] EXCEPT !.pc = "revoke_db", !.c = c]
<1>1. /\ GoodTask(tasks[t]) /\ tasks[t] \in TaskRecords
      /\ tasks[t].b \in Builds /\ c \in Conns \union {None}
  BY InHandKnown DEF RevokeLookup, IInv, TasksOK, NoBuildPcs, TypeOK, ActiveRecords
<1>2. CASE tasks' = Return(t)
  <2>1. StepOK /\ Quiet
    BY <1>2, ReturnStep DEF IInv
  <2> QED BY <2>1, Settled DEF RevokeLookup, IInv, TypeOK
<1>3. CASE tasks' = [tasks EXCEPT ![t].pc = "revoke_db", ![t].c = c]
  <2>1. tasks' = [tasks EXCEPT ![t] = r]
    BY <1>3, ZenonT(60) DEF IInv, TasksOK
  <2> HIDE DEF c
  <2>2. r \in TaskRecords /\ r.pc = "revoke_db" /\ r.b = tasks[t].b /\ r.todo = tasks[t].todo
    BY <1>1, ZenonT(60) DEF TaskRecords, Pcs
  <2> HIDE DEF r
  <2>3. GoodTask(r) /\ r.pc \notin CarryPcs
    BY <1>1, <2>2 DEF GoodTask, NoBuildPcs, ConnPcs, CarryPcs
  <2>4. StepOK /\ Quiet
    BY <2>1, <2>3, OneTask, ZenonT(60) DEF IInv
  <2> QED BY <2>4, Settled DEF RevokeLookup, IInv, TypeOK
<1> QED BY <1>2, <1>3 DEF RevokeLookup

LEMMA RevokeDbInv ==
    ASSUME IInv, NEW t \in Tasks, RevokeDb(t)
    PROVE  IInv'
<1>1. tasks[t].b \in Builds /\ tasks[t].pc \notin NoBuildPcs
  BY InHandKnown DEF RevokeDb, NoBuildPcs
<1>2. StepOK /\ Quiet
  <2>1. CASE tasks' = Goto(t, "revoke_send")
    BY <1>1, <2>1, GoOn DEF Pcs, ConnPcs, CarryPcs
  <2>2. CASE tasks' = Return(t)
    BY <2>2, ReturnStep DEF IInv
  <2> QED BY <2>1, <2>2 DEF RevokeDb
<1>3. Rest
  BY <1>1, DbRest, FaultType DEF RevokeDb, DbStates, InFlight, queue
<1> QED BY <1>2, <1>3, Assemble DEF RevokeDb, IInv, TypeOK, queue, IsActive

LEMMA RevokeSendInv ==
    ASSUME IInv, NEW t \in Tasks, RevokeSend(t)
    PROVE  IInv'
<1> DEFINE new == [Task("revoke_wait", "idle") EXCEPT !.b = tasks[t].b]
<1>1. GoodTask(new) /\ new.pc \notin CarryPcs
  BY InHandKnown, OnGood, ZenonT(60) DEF RevokeSend, NoBuildPcs, Pcs, ConnPcs, CarryPcs, Returns, Task
<1>2. StepOK /\ Quiet
  BY <1>1, SpawnStep, AfterGood, AfterQuiet, ZenonT(60) DEF RevokeSend, IInv
<1> QED BY <1>2, Settled DEF RevokeSend, IInv, TypeOK

LEMMA RevokeTimeoutInv ==
    ASSUME IInv, NEW t \in Tasks, RevokeTimeout(t)
    PROVE  IInv'
<1> DEFINE r == [tasks[t] EXCEPT !.pc = "fin_db", !.st = "revoked"]
<1>1. GoodTask(tasks[t]) /\ tasks[t] \in TaskRecords /\ tasks[t].b \in Builds
  BY InHandKnown DEF RevokeTimeout, IInv, TasksOK, NoBuildPcs
<1>2. mishap' \subseteq Builds
  BY <1>1, FaultType DEF RevokeTimeout
<1>3. CASE tasks' = Return(t)
  <2>1. StepOK /\ Quiet
    BY <1>3, ReturnStep DEF IInv
  <2> QED BY <1>2, <2>1, Settled DEF RevokeTimeout
<1>4. CASE tasks' = [tasks EXCEPT ![t].pc = "fin_db", ![t].st = "revoked"]
  <2>1. tasks' = [tasks EXCEPT ![t] = r]
    BY <1>4, ZenonT(60) DEF IInv, TasksOK
  <2>2. /\ r \in TaskRecords /\ r.pc = "fin_db" /\ r.b = tasks[t].b
        /\ r.todo = tasks[t].todo /\ r.st = "revoked"
    BY <1>1, ZenonT(60) DEF TaskRecords, Pcs, Terminal
  <2> HIDE DEF r
  <2>3. GoodTask(r) /\ r.pc \notin CarryPcs
    BY <1>1, <2>2 DEF GoodTask, NoBuildPcs, ConnPcs, CarryPcs, Terminal
  <2>4. StepOK /\ Quiet
    BY <2>1, <2>3, OneTask, ZenonT(60) DEF IInv
  <2> QED BY <1>2, <2>4, Settled DEF RevokeTimeout
<1> QED BY <1>3, <1>4 DEF RevokeTimeout

LEMMA FinishDbInv ==
    ASSUME IInv, NEW t \in Tasks, FinishDb(t)
    PROVE  IInv'
<1> DEFINE pc == IF tasks[t].pc = "fin_db" THEN "fin_log" ELSE "done_active"
           r  == [tasks[t] EXCEPT !.st = "none", !.pc = pc]
<1>1. /\ GoodTask(tasks[t]) /\ tasks[t] \in TaskRecords
      /\ tasks[t].b \in Builds /\ tasks[t].st \in Terminal
  BY InHandKnown DEF FinishDb, IInv, TasksOK, GoodTask, NoBuildPcs
<1>2. pc \in {"fin_log", "done_active"} /\ tasks' = [tasks EXCEPT ![t] = r]
  BY ZenonT(60) DEF FinishDb, IInv, TasksOK
<1> HIDE DEF pc
<1>3. /\ r \in TaskRecords /\ r.pc = pc /\ r.b = tasks[t].b
      /\ r.todo = tasks[t].todo
  BY <1>1, <1>2, ZenonT(60) DEF TaskRecords, Pcs
<1> HIDE DEF r
<1>4. GoodTask(r) /\ r.pc \notin CarryPcs
  BY <1>1, <1>2, <1>3 DEF GoodTask, NoBuildPcs, ConnPcs, CarryPcs
<1>5. StepOK /\ Quiet
  BY <1>2, <1>4, OneTask, ZenonT(60) DEF IInv
<1>6. Rest
  BY <1>1, DbRest, FaultType DEF FinishDb, DbStates, Terminal, queue
<1> QED BY <1>5, <1>6, Assemble DEF FinishDb, IInv, TypeOK, queue, IsActive

LEMMA FinishLogInv ==
    ASSUME IInv, NEW t \in Tasks, FinishLog(t)
    PROVE  IInv'
<1>1. tasks[t].b \in Builds /\ tasks[t].pc \notin NoBuildPcs
  BY InHandKnown DEF FinishLog, NoBuildPcs
<1>2. PICK pc \in {"fin_active", "done_watcher"} : tasks' = Goto(t, pc)
  BY DEF FinishLog
<1>3. StepOK /\ Quiet
  BY <1>1, <1>2, GoOn DEF Pcs, ConnPcs, CarryPcs
<1>4. mishap' \subseteq Builds
  BY <1>1, FaultType DEF FinishLog
<1>5. Rest
  BY <1>1, <1>4 DEF FinishLog, IInv, TypeOK, Rest, queue
<1> QED BY <1>3, <1>5, Assemble DEF FinishLog, IInv, TypeOK, queue, IsActive

\* The entry of b goes; nothing else about the active map changes.
LEMMA EntryGone ==
    ASSUME IInv, NEW b \in Builds, active' = [active EXCEPT ![b] = NoActive]
    PROVE  /\ active' \in [Builds -> ActiveRecords]
           /\ \A d \in Builds : IsActive(d)' => IsActive(d)
           /\ ~IsActive(b)'
BY DEF IInv, TypeOK, ActiveRecords, NoActive, Receipts, IsActive

LEMMA FinishActiveInv ==
    ASSUME IInv, NEW t \in Tasks, FinishActive(t)
    PROVE  IInv'
<1>1. tasks[t].b \in Builds /\ tasks[t].pc \notin NoBuildPcs
  BY InHandKnown DEF FinishActive, NoBuildPcs
<1>2. StepOK /\ Quiet
  <2>1. CASE tasks' = Return(t)
    BY <2>1, ReturnStep DEF IInv
  <2>2. CASE tasks' = Goto(t, "fin_watcher")
    BY <1>1, <2>2, GoOn DEF Pcs, ConnPcs, CarryPcs
  <2>3. CASE tasks' = Goto(t, "done_log")
    BY <1>1, <2>3, GoOn DEF Pcs, ConnPcs, CarryPcs
  <2> QED BY <2>1, <2>2, <2>3 DEF FinishActive
<1>3. Rest
  BY DEF FinishActive, IInv, TypeOK, Rest, rows
<1> QED BY <1>1, <1>2, <1>3, EntryGone, Assemble, ZenonT(60) DEF FinishActive

\* The entry of an active build is updated.
LEMMA EntryUpdated ==
    ASSUME IInv, NEW b \in Builds, NEW e \in ActiveRecords, e.conn # None => IsActive(b),
           active' = [active EXCEPT ![b] = e]
    PROVE  /\ active' \in [Builds -> ActiveRecords]
           /\ \A d \in Builds : IsActive(d)' => IsActive(d)
BY DEF IInv, TypeOK, IsActive

LEMMA AcceptedCancelInv ==
    ASSUME IInv, NEW t \in Tasks, AcceptedCancel(t)
    PROVE  IInv'
<1>1. tasks[t].b \in Builds
  BY InHandKnown DEF AcceptedCancel, NoBuildPcs
<1>2. /\ GoodTask(After(t)) /\ After(t).pc \notin CarryPcs
      /\ Return(t) \in [Tasks -> TaskRecords]
      /\ \A u \in Tasks : Return(t)[u] = IF u = t THEN After(t) ELSE tasks[u]
  BY AfterGood, AfterQuiet DEF IInv, TasksOK, Return, GoodTask
<1>3. \A u \in Tasks : GoodTask(Return(t)[u])
  BY <1>2 DEF IInv, TasksOK
<1>4. StepOK /\ Quiet
  <2>1. CASE tasks' = Return(t)
    BY <2>1, ReturnStep DEF IInv
  <2>2. CASE tasks' = Cancel(Return(t), tasks[t].b)
    BY <1>2, <1>3, <2>2, CancelStep DEF IInv
  <2> QED BY <2>1, <2>2 DEF AcceptedCancel
<1>5. Rest
  BY DEF AcceptedCancel, IInv, TypeOK, Rest, rows
<1>6. /\ active' \in [Builds -> ActiveRecords]
      /\ \A b \in Builds : IsActive(b)' => IsActive(b)
  <2> DEFINE e == [active[tasks[t].b] EXCEPT !.cancelled = TRUE]
  <2>1. active[tasks[t].b] \in ActiveRecords
    BY <1>1 DEF IInv, TypeOK
  <2>2. e \in ActiveRecords /\ e.conn = active[tasks[t].b].conn
    BY <2>1, ZenonT(60) DEF ActiveRecords
  <2>3. \/ active' = active
        \/ active' = [active EXCEPT ![tasks[t].b] = e]
    BY <1>1 DEF AcceptedCancel, IInv, TypeOK
  <2> HIDE DEF e
  <2>4. CASE active' = active
    BY <2>4 DEF IInv, TypeOK, IsActive
  <2>5. CASE active' = [active EXCEPT ![tasks[t].b] = e]
    BY <1>1, <2>2, <2>5, EntryUpdated, ZenonT(60) DEF IsActive
  <2> QED BY <2>3, <2>4, <2>5
<1> QED BY <1>4, <1>5, <1>6, Assemble DEF AcceptedCancel

LEMMA StartedDbInv ==
    ASSUME IInv, NEW t \in Tasks, StartedDb(t)
    PROVE  IInv'
<1>1. tasks[t].b \in Builds
  BY InHandKnown DEF StartedDb, NoBuildPcs
<1>2. StepOK /\ Quiet
  BY ReturnStep DEF StartedDb, IInv
<1>3. Rest
  BY <1>1, DbRest, FaultType DEF StartedDb, DbStates, InFlight, queue
<1> QED BY <1>2, <1>3, Assemble DEF StartedDb, IInv, TypeOK, queue, IsActive

\* A step that changes the workers and the senders only.
LEMMA ConnRest ==
    ASSUME IInv, workers' \in [Conns -> WorkerStates], senders' \subseteq Conns,
           UNCHANGED << rows, watchers, mishap >>
    PROVE  Rest
BY DEF IInv, TypeOK, Rest, rows

LEMMA ReadyForDead ==
    ASSUME IInv, NEW t \in Tasks, tasks[t].pc \in {"grace_wait", "grace_dead", "fd_sender"},
           NEW pc \in {"grace_dead", "dead_snapshot"}, tasks' = Goto(t, pc)
    PROVE  StepOK /\ Quiet
<1>1. Ready(t, pc)
  BY DEF IInv, TasksOK, GoodTask, Ready, Pcs, NoBuildPcs, ConnPcs
<1> QED BY <1>1, GotoStep DEF IInv, CarryPcs

LEMMA StateSet ==
    ASSUME IInv, NEW c, NEW st \in WorkerStates, SetWorkerState(c, st)
    PROVE  workers' \in [Conns -> WorkerStates]
BY ZenonT(60) DEF IInv, TypeOK, SetWorkerState

LEMMA GraceInv ==
    ASSUME IInv, NEW t \in Tasks, GraceExpired(t) \/ GraceDead(t)
    PROVE  IInv'
<1>1. StepOK /\ Quiet
  BY ReadyForDead, ReturnStep DEF GraceExpired, GraceDead, IInv
<1>2. workers' \in [Conns -> WorkerStates]
  BY StateSet DEF GraceExpired, GraceDead, WorkerStates, IInv, TypeOK, queue
<1>3. Rest
  BY <1>2, ConnRest DEF GraceExpired, GraceDead, IInv, TypeOK
<1> QED BY <1>1, <1>3, Assemble DEF GraceExpired, GraceDead, IInv, TypeOK, queue, IsActive

LEMMA ForceSenderInv ==
    ASSUME IInv, NEW t \in Tasks, ForceSender(t)
    PROVE  IInv'
<1>1. StepOK /\ Quiet
  BY ReadyForDead DEF ForceSender
<1>2. Rest
  BY ConnRest DEF ForceSender, IInv, TypeOK, queue
<1> QED BY <1>1, <1>2, Assemble DEF ForceSender, IInv, TypeOK, queue, IsActive

\* A record with a connection and no build.
LEMMA ConnTaskGood ==
    ASSUME NEW c \in Conns, NEW pc \in NoBuildPcs, NEW ret \in Returns
    PROVE  /\ GoodTask([Task(pc, ret) EXCEPT !.c = c])
           /\ [Task(pc, ret) EXCEPT !.c = c].pc \notin CarryPcs
<1> DEFINE r == [Task(pc, ret) EXCEPT !.c = c]
<1>1. /\ r \in TaskRecords /\ r.pc = pc /\ r.b = 0 /\ r.todo = {} /\ r.c = c
  BY DEF Task, TaskRecords, NoBuildPcs, Pcs, Returns
<1>2. 0 \notin Builds
  BY BoundsAssumption DEF Builds
<1> HIDE DEF r
<1>3. GoodTask(r) /\ r.pc \notin CarryPcs
  BY <1>1, <1>2 DEF GoodTask, NoBuildPcs, CarryPcs
<1> QED BY <1>3 DEF r

LEMMA ForceDisconnectInv ==
    ASSUME IInv, NEW s \in Slots, NEW c \in Conns, ForceDisconnect(s, c)
    PROVE  IInv'
<1> DEFINE r == [Task("fd_sender", "reply") EXCEPT !.c = c]
<1>1. GoodTask(r) /\ r.pc \notin CarryPcs /\ s \in Tasks
  BY ConnTaskGood, ZenonT(60) DEF NoBuildPcs, Returns, Tasks
<1>2. tasks' = [tasks EXCEPT ![s] = r]
  BY DEF ForceDisconnect
<1> HIDE DEF r
<1>3. StepOK /\ Quiet
  BY <1>1, <1>2, OneTask, ZenonT(60) DEF IInv
<1>4. Rest
  BY ConnRest DEF ForceDisconnect, IInv, TypeOK, WorkerStates
<1> QED BY <1>3, <1>4, Assemble DEF ForceDisconnect, IInv, TypeOK, IsActive

(***************************************************************************)
(* Messages of workers.                                                    *)
(***************************************************************************)
LEMMA AuthorizedInv ==
    ASSUME IInv, NEW c \in Conns, NEW b \in Builds, NEW r, Authorized(c, b, r),
           GoodTask(r), r.pc \notin CarryPcs
    PROVE  IInv'
<1> DEFINE e  == [active[b] EXCEPT !.receipt = "received", !.cancelled = TRUE]
           ts == [tasks EXCEPT ![c] = r]
<1>1. c \in Tasks /\ active[b] \in ActiveRecords /\ IsActive(b)
  BY OwnedKnown DEF Authorized, IInv, TypeOK, Tasks
<1>2. e \in ActiveRecords
  BY <1>1, ZenonT(60) DEF ActiveRecords, Receipts
<1>3. active' = [active EXCEPT ![b] = e]
  BY ZenonT(60) DEF Authorized, IInv, TypeOK
<1> HIDE DEF e
<1>4. /\ active' \in [Builds -> ActiveRecords]
      /\ \A d \in Builds : IsActive(d)' => IsActive(d)
  BY <1>1, <1>2, <1>3, EntryUpdated, ZenonT(60)
<1>5. /\ ts \in [Tasks -> TaskRecords]
      /\ \A u \in Tasks : ts[u] = IF u = c THEN r ELSE tasks[u]
  BY <1>1 DEF IInv, TasksOK, GoodTask
<1>6. /\ \A u \in Tasks : GoodTask(ts[u])
      /\ \A u \in Tasks : ts[u] = tasks[u] \/ ts[u].pc \notin CarryPcs
  BY <1>5 DEF IInv, TasksOK
<1>7. tasks' = Cancel(ts, b)
  BY DEF Authorized
<1> HIDE DEF ts
<1>8. StepOK /\ Quiet
  BY <1>5, <1>6, <1>7, CancelStep DEF IInv
<1>9. Rest
  BY Unchanged DEF Authorized
<1> QED BY <1>4, <1>8, <1>9, Assemble DEF Authorized

LEMMA HandlerGood ==
    ASSUME NEW r \in TaskRecords, r.b \in Builds, db[r.b] # "none", r.todo = {},
           r.pc \in {"fin_db", "done_db"} => r.st \in Terminal, r.pc \notin ConnPcs
    PROVE  GoodTask(r)
BY DEF GoodTask

LEMMA LifecycleInv ==
    ASSUME IInv, NEW c \in Conns, NEW b \in Builds,
           \/ BuildAccepted(c, b) \/ BuildStarted(c, b) \/ BuildOutput(c, b)
           \/ BuildFinished(c, b) \/ BuildRejected(c, b)
    PROVE  IInv'
<1>1. db[b] # "none"
  BY OwnedKnown, ZenonT(60) DEF BuildAccepted, BuildStarted, BuildOutput, BuildFinished, BuildRejected,
       Authorized
<1>2. ASSUME NEW pc \in {"accepted", "started_db"}, Authorized(c, b, On(b, pc))
      PROVE  IInv'
  <2>1. GoodTask(On(b, pc)) /\ On(b, pc).pc \notin CarryPcs
    BY <1>1, OnGood, ZenonT(60) DEF On, Task, Pcs, ConnPcs, CarryPcs, Returns
  <2> QED BY <1>2, <2>1, AuthorizedInv
<1>3. CASE BuildOutput(c, b)
  <2>1. GoodTask(Task("recv", "recv")) /\ Task("recv", "recv").pc \notin CarryPcs
    BY TaskGood, ZenonT(60) DEF Task, NoBuildPcs, ConnPcs, Returns, CarryPcs
  <2> QED BY <1>3, <2>1, AuthorizedInv DEF BuildOutput
<1>4. CASE BuildFinished(c, b)
  <2>1. PICK st \in Terminal :
          Authorized(c, b, [On(b, "done_db") EXCEPT !.st = st, !.then = "try_dispatch"])
    BY <1>4, TablesAssumption, ZenonT(60) DEF BuildFinished, Terminal
  <2> DEFINE r == [On(b, "done_db") EXCEPT !.st = st, !.then = "try_dispatch"]
  <2>2. /\ r \in TaskRecords /\ r.pc = "done_db" /\ r.b = b /\ r.todo = {}
        /\ r.st \in Terminal
    BY ZenonT(60) DEF On, Task, TaskRecords, Pcs, Returns
  <2> HIDE DEF r
  <2>3. Authorized(c, b, r)
    BY <2>1 DEF r
  <2>4. GoodTask(r)
    BY <1>1, <2>2, HandlerGood DEF ConnPcs
  <2> QED BY <2>2, <2>3, <2>4, AuthorizedInv DEF CarryPcs
<1>5. CASE BuildRejected(c, b)
  <2> DEFINE r1 == [On(b, "fin_db") EXCEPT !.st = "failure"]
             r2 == [On(b, "rollback_take") EXCEPT !.then = "try_dispatch"]
  <2>1. /\ r1 \in TaskRecords /\ r1.pc = "fin_db" /\ r1.b = b /\ r1.todo = {}
        /\ r1.st = "failure"
    BY ZenonT(60) DEF On, Task, TaskRecords, Pcs, Returns, Terminal
  <2>2. r2 \in TaskRecords /\ r2.pc = "rollback_take" /\ r2.b = b /\ r2.todo = {}
    BY ZenonT(60) DEF On, Task, TaskRecords, Pcs, Returns
  <2>3. Authorized(c, b, r1) \/ Authorized(c, b, r2)
    BY <1>5 DEF BuildRejected
  <2> HIDE DEF r1, r2
  <2>4. GoodTask(r1) /\ GoodTask(r2)
    BY <1>1, <2>1, <2>2, HandlerGood DEF ConnPcs, Terminal
  <2> QED BY <2>1, <2>2, <2>3, <2>4, AuthorizedInv DEF CarryPcs
<1> QED BY <1>2, <1>3, <1>4, <1>5 DEF BuildAccepted, BuildStarted

LEMMA WorkerStoppingInv ==
    ASSUME IInv, NEW c \in Conns, WorkerStopping(c)
    PROVE  IInv'
<1>1. Rest
  BY ConnRest DEF WorkerStopping, IInv, TypeOK, WorkerStates, Registered
<1> QED BY <1>1, Unchanged, Assemble DEF WorkerStopping, IInv, TypeOK, IsActive

LEMMA StatusBuildingInv ==
    ASSUME IInv, NEW c \in Conns, NEW b \in Builds, StatusBuilding(c, b)
    PROVE  IInv'
<1>1. PICK pc \in {"attach", "resume", "revoke_lookup"} :
         tasks' = [tasks EXCEPT ![c] = On(b, pc)]
  BY ZenonT(60) DEF StatusBuilding
<1>2. GoodTask(On(b, pc)) /\ On(b, pc).pc \notin CarryPcs /\ c \in Tasks
  BY OnGood, ZenonT(60) DEF StatusBuilding, On, Task, Pcs, ConnPcs, CarryPcs, Returns, Tasks
<1>3. StepOK /\ Quiet
  BY <1>1, <1>2, OneTask, ZenonT(60) DEF IInv
<1> QED BY <1>3, Settled DEF StatusBuilding, IInv, TypeOK

LEMMA StatusIdleInv ==
    ASSUME IInv, NEW c \in Conns, StatusIdle(c)
    PROVE  IInv'
<1> DEFINE todo == {[b |-> b, receipt |-> active[b].receipt,
                     live |-> workers[active[b].conn] = "connected"] :
                      b \in {d \in Builds : IsActive(d) /\ ~Owns(c, d)}}
           r == [Task("resolve_idle", "recv") EXCEPT !.todo = todo]
<1>1. todo \subseteq Candidates /\ \A x \in todo : db[x.b] # "none"
  <2>1. \A b \in Builds : active[b].receipt \in Receipts
    BY DEF IInv, TypeOK, ActiveRecords
  <2>2. ASSUME NEW x \in todo
        PROVE  x \in Candidates /\ db[x.b] # "none"
    <3>1. PICK b \in Builds :
             /\ IsActive(b)
             /\ x = [b |-> b, receipt |-> active[b].receipt,
                     live |-> workers[active[b].conn] = "connected"]
      BY <2>2
    <3> QED BY <2>1, <3>1 DEF Candidates, IInv, Known
  <2> QED BY <2>2
<1>2. tasks' = [tasks EXCEPT ![c] = NextCandidate(r)] /\ c \in Tasks
  BY DEF StatusIdle, Tasks
<1> HIDE DEF todo
<1>3. r \in TaskRecords /\ r.pc = "resolve_idle" /\ r.b = 0 /\ r.todo = todo
  BY <1>1 DEF TaskRecords, Pcs, Task, Returns
<1>4. 0 \notin Builds
  BY BoundsAssumption DEF Builds
<1> HIDE DEF r
<1>5. GoodTask(r) /\ r.pc \notin CarryPcs
  BY <1>1, <1>3, <1>4 DEF GoodTask, NoBuildPcs, ConnPcs, CarryPcs
<1>6. StepOK /\ Quiet
  BY <1>2, <1>5, CandidateGood, OneTask, ZenonT(60) DEF IInv
<1> QED BY <1>6, Settled DEF StatusIdle, IInv, TypeOK

LEMMA AttachInv ==
    ASSUME IInv, NEW t \in Conns, Attach(t) \/ Resume(t)
    PROVE  IInv'
<1> DEFINE b  == tasks[t].b
           e1 == [active[b] EXCEPT !.conn = t, !.receipt = "received", !.cancelled = TRUE]
           e2 == [active[b] EXCEPT !.conn = t]
<1>1. t \in Tasks /\ b \in Builds /\ active[b] \in ActiveRecords
  BY InHandKnown DEF Attach, Resume, NoBuildPcs, IInv, TypeOK, Tasks
<1>2. e1 \in ActiveRecords /\ e2 \in ActiveRecords
  BY <1>1, ZenonT(60) DEF ActiveRecords, Receipts
<1>3. \/ active' = active
      \/ IsActive(b) /\ active' = [active EXCEPT ![b] = e1]
      \/ IsActive(b) /\ active' = [active EXCEPT ![b] = e2]
  BY <1>1 DEF Attach, Resume, IInv, TypeOK
<1> HIDE DEF e1, e2
<1>4. /\ active' \in [Builds -> ActiveRecords]
      /\ \A d \in Builds : IsActive(d)' => IsActive(d)
  <2>1. CASE active' = active
    BY <2>1 DEF IInv, TypeOK, IsActive
  <2>2. CASE IsActive(b) /\ active' = [active EXCEPT ![b] = e1]
    BY <1>1, <1>2, <2>2, EntryUpdated, ZenonT(60)
  <2>3. CASE IsActive(b) /\ active' = [active EXCEPT ![b] = e2]
    BY <1>1, <1>2, <2>3, EntryUpdated, ZenonT(60)
  <2> QED BY <1>3, <2>1, <2>2, <2>3
<1>5. /\ GoodTask(After(t)) /\ After(t).pc \notin CarryPcs
      /\ Return(t) \in [Tasks -> TaskRecords]
      /\ \A u \in Tasks : Return(t)[u] = IF u = t THEN After(t) ELSE tasks[u]
  BY <1>1, AfterGood, AfterQuiet DEF IInv, TasksOK, Return, GoodTask
<1>6. \A u \in Tasks : GoodTask(Return(t)[u])
  BY <1>5 DEF IInv, TasksOK
<1>7. StepOK /\ Quiet
  <2>1. CASE tasks' = Return(t)
    BY <1>1, <2>1, ReturnStep DEF IInv
  <2>2. CASE tasks' = Cancel(Return(t), b)
    BY <1>5, <1>6, <2>2, CancelStep DEF IInv
  <2> QED BY <2>1, <2>2 DEF Attach, Resume
<1>8. Rest
  BY Unchanged DEF Attach, Resume
<1> QED BY <1>4, <1>7, <1>8, Assemble DEF Attach, Resume
=============================================================================
