------------------------- MODULE WorkerOutputProofs -------------------------
(***************************************************************************)
(* WorkerSupervisor, for every value of the constants: the output of a     *)
(* build goes on the wire in order, once, and ends with BuildFinished, and *)
(* a worker without an active build runs no subprocess and no streamer.    *)
(*                                                                         *)
(* None of these is inductive.  The invariant, OutputInvariant, has        *)
(* besides WorkerInv:                                                      *)
(*   - OutputInv follows a message from the streamer to the wire.  It may  *)
(*     wait in the spool file, in the connection's reconnect report or on  *)
(*     the channel; at every point of the drain these stand in a line      *)
(*     (InLine) behind what is on the wire, and before what the streamer   *)
(*     hands over next (Edge).  The line holds because a connection is     *)
(*     attached before the drain, and nothing is spooled while it is.      *)
(*   - HandleInv follows the handles of the subprocess and the streamer    *)
(*     from the connection to the record and on to the retire task, which  *)
(*     exists at most once for a build (RetireOK).                         *)
(*   - LockHeld: the streamer that waits for room on the channel holds the *)
(*     supervisor's lock, so its build stays the active one.               *)
(* Builds in overrun, whose spool exceeded its budget or met an I/O error, *)
(* are outside OutputInv and HandleInv, as they are in the properties.     *)
(***************************************************************************)
EXTENDS WorkerSupervisorProofs

-----------------------------------------------------------------------------
(* A build is started, and revoked *)

\* What a streamer has handed over ranks below what it hands over next.
LEMMA SuccAbove == \A r \in Nat : r <= r + 1
OBVIOUS

\* A step that leaves the wire and the channel alone, outside the drain.
LEMMA LoopOrder ==
    ASSUME WorkerInv, WorkerInv', NEW b \in Builds, OrderOf(b), sent' = sent, chan' = chan,
           ws.pc \notin {"drain", "unlink"}, ws'.pc \notin {"drain", "unlink"},
             ws'.todo = ws.todo,
           spool'[b] = spool[b] \/ spool'[b] = << >>,
           active'.b = b /\ active'.path /\ active'.bytes > 0 /\ spool'[b] # << >>
             => active.b = b /\ active.path /\ active.bytes > 0,
           Edge(b) <= Edge(b)'
    PROVE  OrderOf(b)'
<1>1. LiveSpool(b)' = LiveSpool(b) \/ LiveSpool(b)' = << >>
  BY ZenonT(60) DEF LiveSpool
<1>2. Early(b) = ws.todo /\ Early(b)' = ws'.todo /\ Late(b) = LiveSpool(b)
        /\ Late(b)' = LiveSpool(b)'
  BY DEF Early, Late
<1> QED
  BY <1>1, <1>2, OrderKept

LEMMA SpoolKept ==
    ASSUME NEW b \in Builds, SpoolOf(b), sent' = sent, chan' = chan, ws'.todo = ws.todo,
           spool'[b] = spool[b] \/ spool'[b] = << >>,
           active'.b = b =>
             /\ active.b = b /\ active'.exhausted = active.exhausted
             /\ active'.bytes = active.bytes /\ active'.path = active.path
             /\ active'.pending => active.pending,
           streamer[b].pc = "done" => streamer'[b].pc = "done",
           ws'.pc \in DrainedPcs => ws.pc \in DrainedPcs,
           ws.pc \in {"sd_join", "sd_clear"} /\ ws.b = b => ws'.pc \in {"sd_join",
             "sd_clear"} /\ ws'.b = b
    PROVE  SpoolOf(b)'
<1>1. Finished(b)' = Finished(b)
  BY DEF Finished
<1> QED
  BY <1>1, ZenonT(60) DEF SpoolOf

\* The points of the message loop at which the reconnect report is done.
LoopPcs == NewPcs \union {"loop", "attach_task", "revoke"}

LEMMA LoopFacts ==
    ASSUME OutputInv, ws.pc \in LoopPcs
    PROVE  /\ ws.todo = << >> /\ transport = "live"
           /\ ws.pc \in DrainedPcs /\ ws.pc \notin DrainPcs /\ ws.pc \notin SdPcs
           /\ ws.pc \notin {"drain", "unlink", "sd_join", "sd_clear"}
BY DEF OutputInv, Connected, LoopPcs, DrainedPcs, LivePcs, TodoPcs, DrainPcs, NewPcs, SdPcs

LEMMA LoopConnected ==
    ASSUME OutputInv, ws.pc \in LoopPcs, ws'.pc \in LoopPcs, ws'.todo = << >>,
           UNCHANGED << transport >>
    PROVE  Connected'
<1>1. transport = "live"
  BY LoopFacts
<1> QED
  BY <1>1 DEF Connected, LoopPcs, DrainedPcs, LivePcs, TodoPcs, DrainPcs, NewPcs, SdPcs

\* A build that is being dispatched has not been retired.
LEMMA NewNotRetired ==
    ASSUME WorkerInv, OutputInv, ws.pc \in NewPcs
    PROVE  /\ ws.b \in Builds /\ streamer[ws.b].pc = "none" /\ spool[ws.b] = << >>
           /\ ws.b \notin overrun =>
                ~Finished(ws.b) /\ \A i \in Retirers : retire[i].pc # "idle" => retire[i].b # ws.b
<1>1. ws.b \in Builds /\ streamer[ws.b].pc = "none" /\ StreamOf(ws.b)
  BY DEF OutputInv, StreamOK
<1>2. spool[ws.b] = << >>
  BY <1>1 DEF StreamOf
<1>3. ws.b \notin overrun => ~Finished(ws.b)
  BY <1>1, NotDoneNotFinished DEF OutputInv, InOrder
<1> QED
  BY <1>1, <1>2, <1>3 DEF OutputInv, RetireOK

LEMMA SpawnBuildOutput ==
    ASSUME WorkerInv, WorkerInv', OutputInv, HandleInv, SpawnBuild
    PROVE  OutputInv' /\ HandleInv'
<1>1. CASE Send(At("loop")) /\ UNCHANGED proc
  <2>1. ws.todo = << >> /\ ws.pc = "spawn"
    BY LoopTodo DEF SpawnBuild, NewPcs
  <2>2. Calm
    BY <1>1, <2>1, LoopRecord, SendCalm DEF SpawnBuild, Alone
  <2> QED
    BY <2>2, CalmStep
<1>2. CASE proc' = Spawned /\ ws' = [ws EXCEPT !.pc = "register"] /\ UNCHANGED << chan,
             transport >>
  <2>1. /\ ws.pc = "spawn" /\ ws.pc \in NewPcs /\ ws.pc \in LoopPcs
        /\ ws'.pc = "register" /\ ws'.b = ws.b /\ ws'.todo = ws.todo
        /\ UNCHANGED << active, spool, streamer, retire, stopping, woken, sent, overrun >>
    <3>1. ws'.pc = "register" /\ ws'.b = ws.b /\ ws'.todo = ws.todo
      BY <1>2, ZenonT(60) DEF WorkerInv, TypeOK, WsRecords
    <3> QED
      BY <3>1 DEF SpawnBuild, NewPcs, LoopPcs
  <2>2. ws.b \in Builds /\ streamer[ws.b].pc = "none" /\ active.b = None
    BY <2>1, NewNotRetired DEF WorkerInv, StillFree
  <2>3. proc'[ws.b] = "running" /\ \A b \in Builds : b # ws.b => proc'[b] = proc[b]
    BY <1>2, <2>2 DEF Spawned, WorkerInv, TypeOK
  <2>4. Connected'
    BY <1>2, <2>1, LoopFacts, LoopConnected DEF LoopPcs, NewPcs
  <2>5. SpoolOK'
    <3>1. ASSUME NEW b \in Builds, SpoolOf(b) PROVE SpoolOf(b)'
      BY <1>2, <2>1, <2>2, <3>1, LoopFacts, SpoolKept
    <3> QED
      BY <2>1, <3>1 DEF OutputInv, SpoolOK
  <2>6. StreamOK'
    <3>1. ASSUME NEW b \in Builds PROVE StreamOf(b)'
      BY <2>1, <2>3 DEF OutputInv, StreamOK, StreamOf
    <3> QED
      BY <2>1, <2>2, <2>3, <3>1 DEF StreamOK
  <2>7. RetireOK'
    BY <2>1, RetireFrame
  <2>8. InOrder'
    <3>1. ASSUME NEW b \in Builds \ overrun PROVE OrderOf(b)'
      <4>1. Edge(b)' = Edge(b) /\ Edge(b) \in Nat
        BY <2>1, StageType DEF Edge
      <4> QED
        BY <1>2, <2>1, <4>1, LoopOrder DEF OutputInv, InOrder
    <3> QED
      BY <2>1, <3>1 DEF InOrder
  <2>9. HandleInv'
    <3>1. ASSUME ~stopping, NEW b \in Builds \ overrun PROVE HandleOf(b)'
      <4>1. HandleOf(b) /\ ~Reading(b) /\ Reading(b)' = Reading(b)
        <5>1. HandleOf(b)
          BY <3>1 DEF HandleInv
        <5> QED
          BY <2>1, <2>2, <5>1, IdentityAssumption DEF HandleOf, Reading
      <4>2. CASE b = ws.b
        <5>1. \A i \in Retirers : retire[i].b = b => retire[i].pc = "idle"
          BY <2>1, <4>2, NewNotRetired
        <5> QED
          BY <2>1, <4>1, <4>2, <5>1, ZenonT(60) DEF HandleOf
      <4>3. CASE b # ws.b
        <5>1. Running(b)' = Running(b)
          BY <2>3, <4>3 DEF Running
        <5> QED
          BY <2>1, <4>1, <4>3, <5>1, ZenonT(60) DEF HandleOf
      <4> QED
        BY <4>2, <4>3
    <3> QED
      BY <2>1, <3>1 DEF HandleInv, SdPcs
  <2> QED
    BY <2>4, <2>5, <2>6, <2>7, <2>8, <2>9 DEF OutputInv
<1> QED
  BY <1>1, <1>2 DEF SpawnBuild

LEMMA RegisterAcceptedOutput ==
    ASSUME WorkerInv, WorkerInv', OutputInv, HandleInv, RegisterAccepted
    PROVE  OutputInv' /\ HandleInv'
<1>1. /\ ws.pc = "register" /\ ws.pc \in NewPcs /\ ws.pc \in LoopPcs /\ active.b = None
      /\ ws'.pc = "started" /\ ws'.b = ws.b /\ ws'.todo = ws.todo
      /\ active' = Accepted(ws.b)
      /\ UNCHANGED << transport, chan, spool, streamer, proc, retire, stopping, woken, sent,
           overrun >>
  <2>1. ws.pc = "register" /\ active.b = None
    BY DEF RegisterAccepted, WorkerInv, StillFree
  <2>2. ws'.pc = "started" /\ ws'.b = ws.b /\ ws'.todo = ws.todo
    BY <2>1, ZenonT(60) DEF RegisterAccepted, WorkerInv, TypeOK, WsRecords
  <2> QED
    BY <2>1, <2>2 DEF RegisterAccepted, NewPcs, LoopPcs, build
<1>2. /\ ws.b \in Builds /\ streamer[ws.b].pc = "none" /\ spool[ws.b] = << >> /\ ws.b # None
      /\ proc[ws.b] # "none"
  <2>1. ws.b \in Builds /\ proc[ws.b] # "none"
    BY <1>1 DEF OutputInv, StreamOK
  <2> QED
    BY <1>1, <2>1, NewNotRetired, IdentityAssumption
<1>3. /\ active'.b = ws.b /\ active'.exec /\ ~active'.task /\ ~active'.pending /\ ~active'.path
      /\ ~active'.exhausted
  BY <1>1, ZenonT(60) DEF Accepted, NoBuild
<1>4. Connected'
  BY <1>1, LoopFacts, LoopConnected DEF LoopPcs, NewPcs
<1>5. SpoolOK'
  <2>1. ASSUME NEW b \in Builds PROVE SpoolOf(b)'
    BY <1>1, <1>2, <1>3, ZenonT(60) DEF SpoolOf
  <2> QED
    BY <1>1, <2>1 DEF OutputInv, SpoolOK
<1>6. StreamOK'
  BY <1>1, <1>2 DEF OutputInv, StreamOK, StreamOf
<1>7. RetireOK'
  BY <1>1, RetireFrame
<1>8. InOrder'
  <2>1. ASSUME NEW b \in Builds \ overrun PROVE OrderOf(b)'
    <3>1. Edge(b)' = Edge(b) /\ Edge(b) \in Nat
      BY <1>1, StageType DEF Edge
    <3> QED
      BY <1>1, <1>3, <3>1, LoopOrder DEF OutputInv, InOrder
  <2> QED
    BY <1>1, <2>1 DEF InOrder
<1>9. HandleInv'
  <2>1. ASSUME ~stopping, NEW b \in Builds \ overrun PROVE HandleOf(b)'
    <3>1. HandleOf(b) /\ Running(b)' = Running(b) /\ Reading(b)' = Reading(b)
            /\ Finished(b)' = Finished(b)
      BY <1>1, <2>1 DEF HandleInv, Running, Reading, Finished
    <3>2. CASE b = ws.b
      <4>1. /\ \A i \in Retirers : retire[i].b = b => retire[i].pc = "idle"
            /\ ~Finished(b) /\ ~Reading(b)
        BY <1>1, <1>2, <3>2, NewNotRetired DEF Reading
      <4> QED
        BY <1>1, <1>3, <3>1, <3>2, <4>1, ZenonT(60) DEF HandleOf
    <3>3. CASE b # ws.b
      <4>1. ~Running(b) /\ ~Reading(b)
        <5>1. active.b # b
          BY <1>1, IdentityAssumption
        <5> QED
          BY <1>1, <3>1, <3>3, <5>1, ZenonT(60) DEF HandleOf
      <4> QED
        BY <1>1, <1>3, <3>1, <3>3, <4>1, ZenonT(60) DEF HandleOf
    <3> QED
      BY <3>2, <3>3
  <2> QED
    BY <1>1, <2>1 DEF HandleInv, SdPcs
<1> QED
  BY <1>4, <1>5, <1>6, <1>7, <1>8, <1>9 DEF OutputInv

LEMMA MarkStartedOutput ==
    ASSUME WorkerInv, WorkerInv', OutputInv, HandleInv, MarkStarted
    PROVE  OutputInv' /\ HandleInv'
<1>1. /\ ws.pc = "mark" /\ ws.pc \in NewPcs /\ ws.pc \in LoopPcs
      /\ ws'.pc = "attach_task" /\ ws'.b = ws.b /\ ws'.todo = ws.todo
      /\ UNCHANGED << transport, chan, spool, proc, retire, stopping, woken, sent, overrun >>
  <2>1. ws.pc = "mark"
    BY DEF MarkStarted
  <2>2. ws'.pc = "attach_task" /\ ws'.b = ws.b /\ ws'.todo = ws.todo
    BY <2>1, ZenonT(60) DEF MarkStarted, WorkerInv, TypeOK, WsRecords
  <2> QED
    BY <2>1, <2>2 DEF MarkStarted, NewPcs, LoopPcs
<1>2. ws.b \in Builds /\ streamer[ws.b].pc = "none" /\ proc[ws.b] # "none"
  <2>1. ws.b \in Builds /\ proc[ws.b] # "none"
    BY <1>1 DEF OutputInv, StreamOK
  <2> QED
    BY <1>1, <2>1, NewNotRetired
<1>3. /\ streamer'[ws.b].pc = "read" /\ streamer'[ws.b].made = streamer[ws.b].made
      /\ \A b \in Builds : b # ws.b => streamer'[b] = streamer[b]
  BY <1>2, ZenonT(60) DEF MarkStarted, WorkerInv, TypeOK, StreamerRecords
<1>4. /\ active'.b = active.b /\ active'.exec = active.exec /\ active'.task = active.task
      /\ active'.pending = active.pending /\ active'.path = active.path
      /\ active'.bytes = active.bytes /\ active'.exhausted = active.exhausted
  BY ZenonT(60) DEF MarkStarted, Started, WorkerInv, TypeOK, ActiveRecords
<1>5. Connected'
  BY <1>1, LoopFacts, LoopConnected DEF LoopPcs, NewPcs
<1>6. SpoolOK'
  <2>1. ASSUME NEW b \in Builds, SpoolOf(b) PROVE SpoolOf(b)'
    <3>1. streamer[b].pc = "done" => streamer'[b].pc = "done"
      BY <1>2, <1>3
    <3> QED
      BY <1>1, <1>4, <2>1, <3>1, LoopFacts, SpoolKept
  <2> QED
    BY <1>1, <2>1 DEF OutputInv, SpoolOK
<1>7. StreamOK'
  <2>1. ASSUME NEW b \in Builds PROVE StreamOf(b)'
    BY <1>1, <1>2, <1>3 DEF OutputInv, StreamOK, StreamOf
  <2> QED
    BY <1>1, <1>2, <2>1 DEF StreamOK, NewPcs
<1>8. RetireOK'
  BY <1>1, RetireFrame
<1>9. InOrder'
  <2>1. ASSUME NEW b \in Builds \ overrun PROVE OrderOf(b)'
    <3>1. Edge(b)' = Edge(b)
      BY <1>2, <1>3 DEF Edge
    <3>2. Edge(b) \in Nat
      BY StageType
    <3> QED
      BY <1>1, <1>4, <3>1, <3>2, LoopOrder DEF OutputInv, InOrder
  <2> QED
    BY <1>1, <2>1 DEF InOrder
<1>10. HandleInv'
  <2>1. ASSUME ~stopping, NEW b \in Builds \ overrun PROVE HandleOf(b)'
    <3>1. HandleOf(b) /\ Running(b)' = Running(b) /\ Finished(b)' = Finished(b)
      BY <1>1, <2>1 DEF HandleInv, Running, Finished
    <3>2. CASE b = ws.b
      <4>1. /\ \A i \in Retirers : retire[i].b = b => retire[i].pc = "idle"
            /\ ~Finished(b) /\ active.b = b
        BY <1>1, <3>1, <3>2, NewNotRetired DEF HandleOf
      <4> QED
        BY <1>1, <1>4, <3>1, <3>2, <4>1, ZenonT(60) DEF HandleOf
    <3>3. CASE b # ws.b
      <4>1. Reading(b)' = Reading(b)
        BY <1>3, <3>3 DEF Reading
      <4> QED
        BY <1>1, <1>4, <3>1, <3>3, <4>1, ZenonT(60) DEF HandleOf
    <3> QED
      BY <3>2, <3>3
  <2> QED
    BY <1>1, <2>1 DEF HandleInv, SdPcs
<1> QED
  BY <1>5, <1>6, <1>7, <1>8, <1>9, <1>10 DEF OutputInv

LEMMA AttachOutputTaskOutput ==
    ASSUME WorkerInv, WorkerInv', OutputInv, HandleInv, AttachOutputTask
    PROVE  OutputInv' /\ HandleInv'
<1>1. /\ ws.pc = "attach_task" /\ ws.pc \in LoopPcs
      /\ ws'.pc = "loop" /\ ws'.pc \in LoopPcs /\ ws'.todo = << >> /\ ws.todo = << >>
      /\ UNCHANGED << transport, chan, spool, streamer, proc, retire, stopping, woken, sent,
           overrun >>
  <2>1. ws.pc = "attach_task" /\ ws.pc \in LoopPcs
    BY DEF AttachOutputTask, LoopPcs
  <2> QED
    BY <2>1, LoopRecord, LoopFacts DEF AttachOutputTask, LoopPcs, build
<1>2. /\ active'.b = active.b /\ active'.exec = active.exec
      /\ active.task => active'.task
      /\ active'.task => active.task \/ active.b = ws.b
      /\ active.b = ws.b => active'.task
      /\ active'.pending = active.pending /\ active'.path = active.path
      /\ active'.bytes = active.bytes /\ active'.exhausted = active.exhausted
  BY ZenonT(60) DEF AttachOutputTask, WorkerInv, TypeOK, ActiveRecords
<1>3. Connected'
  BY <1>1, LoopConnected
<1>4. SpoolOK'
  <2>1. ASSUME NEW b \in Builds, SpoolOf(b) PROVE SpoolOf(b)'
    BY <1>1, <1>2, <2>1, LoopFacts, SpoolKept
  <2> QED
    BY <1>1, <2>1 DEF OutputInv, SpoolOK
<1>5. StreamOK'
  BY <1>1, StreamFrame DEF NewPcs
<1>6. RetireOK'
  BY <1>1, RetireFrame
<1>7. InOrder'
  <2>1. ASSUME NEW b \in Builds \ overrun PROVE OrderOf(b)'
    <3>1. Edge(b)' = Edge(b) /\ Edge(b) \in Nat
      BY <1>1, StageType DEF Edge
    <3> QED
      BY <1>1, <1>2, <3>1, LoopOrder DEF OutputInv, InOrder
  <2> QED
    BY <1>1, <2>1 DEF InOrder
<1>8. HandleInv'
  <2>1. ASSUME ~stopping, NEW b \in Builds \ overrun PROVE HandleOf(b)'
    <3>1. HandleOf(b) /\ Running(b)' = Running(b) /\ Reading(b)' = Reading(b)
            /\ Finished(b)' = Finished(b)
      BY <1>1, <2>1 DEF HandleInv, Running, Reading, Finished
    <3>2. CASE b = ws.b
      <4>1. ~Finished(b) /\ active.b = b
        BY <1>1, <3>1, <3>2 DEF HandleOf
      <4>2. \A i \in Retirers : retire[i].b = b => retire[i].pc = "idle"
        BY <4>1 DEF OutputInv, RetireOK
      <4> QED
        BY <1>1, <1>2, <3>1, <3>2, <4>1, <4>2, ZenonT(60) DEF HandleOf
    <3>3. CASE b # ws.b
      BY <1>1, <1>2, <3>1, <3>3, ZenonT(60) DEF HandleOf
    <3> QED
      BY <3>2, <3>3
  <2> QED
    BY <1>1, <2>1 DEF HandleInv, SdPcs
<1> QED
  BY <1>3, <1>4, <1>5, <1>6, <1>7, <1>8 DEF OutputInv

LEMMA KillKeeps ==
    ASSUME WorkerInv, proc' = KillActive, NEW b \in Builds
    PROVE  Running(b)' = Running(b) /\ (proc[b] # "none" => proc'[b] # "none")
<1>1. proc \in [Builds -> {"none", "running", "killed", "exited"}]
  BY DEF WorkerInv, TypeOK
<1>2. proc'[b] = proc[b] \/ (proc[b] = "running" /\ proc'[b] = "killed")
  BY <1>1 DEF KillActive, Kill
<1> QED
  BY <1>2 DEF Running

LEMMA OnBuildRevokeOutput ==
    ASSUME WorkerInv, WorkerInv', OutputInv, HandleInv, OnBuildRevoke
    PROVE  OutputInv' /\ HandleInv'
<1>1. /\ ws.pc = "revoke" /\ ws.pc \in LoopPcs /\ ws.todo = << >>
      /\ UNCHANGED << spool, streamer, retire, stopping, woken, sent, overrun >>
  BY LoopTodo DEF OnBuildRevoke, LoopPcs
<1>2. CASE active.b # ws.b
  <2>1. CASE active.b = None
    <3>1. Calm
      BY <1>1, <1>2, <2>1, LoopRecord, SendCalm DEF OnBuildRevoke, Alone
    <3> QED
      BY <3>1, CalmStep
  <2>2. CASE active.b # None
    <3>1. Calm
      BY <1>1, <1>2, <2>2, LoopRecord, LoopCalm DEF OnBuildRevoke, Alone
    <3> QED
      BY <3>1, CalmStep
  <2> QED
    BY <2>1, <2>2
<1>3. CASE active.b = ws.b
  <2>1. /\ ws'.pc = "loop" /\ ws'.pc \in LoopPcs /\ ws'.todo = << >> /\ proc' = KillActive
        /\ UNCHANGED << chan, transport >> /\ active' = Revoking
    BY <1>3, LoopRecord DEF OnBuildRevoke, LoopPcs
  <2>2. /\ active'.b = active.b /\ active'.exec = active.exec /\ active'.task = active.task
        /\ ~active'.pending /\ active'.path = active.path
        /\ active'.bytes = active.bytes /\ active'.exhausted = active.exhausted
    BY <2>1, ZenonT(60) DEF Revoking, WorkerInv, TypeOK, ActiveRecords
  <2>3. \A b \in Builds : Running(b)' = Running(b) /\ (proc[b] # "none" => proc'[b] # "none")
    BY <2>1, KillKeeps
  <2>4. Connected'
    BY <1>1, <2>1, LoopConnected
  <2>5. SpoolOK'
    <3>1. ASSUME NEW b \in Builds, SpoolOf(b) PROVE SpoolOf(b)'
      BY <1>1, <2>1, <2>2, <3>1, LoopFacts, SpoolKept
    <3> QED
      BY <1>1, <3>1 DEF OutputInv, SpoolOK
  <2>6. StreamOK'
    <3>1. ASSUME NEW b \in Builds PROVE StreamOf(b)'
      BY <1>1, <2>3 DEF OutputInv, StreamOK, StreamOf
    <3> QED
      BY <2>1, <3>1 DEF StreamOK, NewPcs
  <2>7. RetireOK'
    BY <1>1, RetireFrame
  <2>8. InOrder'
    <3>1. ASSUME NEW b \in Builds \ overrun PROVE OrderOf(b)'
      <4>1. Edge(b)' = Edge(b) /\ Edge(b) \in Nat
        BY <1>1, StageType DEF Edge
      <4> QED
        BY <1>1, <2>1, <2>2, <4>1, LoopOrder DEF OutputInv, InOrder
    <3> QED
      BY <1>1, <3>1 DEF InOrder
  <2>9. HandleInv'
    BY <1>1, <2>1, <2>2, <2>3, HandleFrame DEF SdPcs
  <2> QED
    BY <2>4, <2>5, <2>6, <2>7, <2>8, <2>9 DEF OutputInv
<1> QED
  BY <1>2, <1>3

-----------------------------------------------------------------------------
(* The subprocess, the sampler and the signal *)

LEMMA ProcessExitsOutput ==
    ASSUME WorkerInv, WorkerInv', OutputInv, HandleInv, NEW p \in Builds, ProcessExits(p)
    PROVE  OutputInv' /\ HandleInv'
<1>1. /\ UNCHANGED << active, transport, spool, chan, ws, streamer, retire, stopping, woken,
           sent, overrun >>
      /\ proc'[p] = "exited" /\ \A b \in Builds : b # p => proc'[b] = proc[b]
  BY DEF ProcessExits, supervisor, WorkerInv, TypeOK
<1>2. \A b \in Builds : (Running(b)' => Running(b)) /\ (proc[b] # "none" => proc'[b] # "none")
  BY <1>1 DEF Running
<1>3. StreamOK'
  BY <1>1, <1>2 DEF OutputInv, StreamOK, StreamOf
<1>4. Connected' /\ SpoolOK' /\ RetireOK'
  BY <1>1 DEF OutputInv, Connected, SpoolOK, SpoolOf, RetireOK, Finished
<1>5. InOrder'
  BY <1>1 DEF OutputInv, InOrder, OrderOf, Wire, Early, Late, LiveSpool, Edge
<1>6. HandleInv'
  <2>1. ASSUME ~stopping, NEW b \in Builds \ overrun PROVE HandleOf(b)'
    <3>1. HandleOf(b) /\ Reading(b)' = Reading(b) /\ Finished(b)' = Finished(b)
      BY <1>1, <2>1 DEF HandleInv, Reading, Finished
    <3> QED
      BY <1>1, <1>2, <3>1, ZenonT(60) DEF HandleOf
  <2> QED
    BY <1>1, <2>1 DEF HandleInv
<1> QED
  BY <1>3, <1>4, <1>5, <1>6 DEF OutputInv

LEMMA SigtermOutput ==
    ASSUME OutputInv, HandleInv, Sigterm
    PROVE  OutputInv' /\ HandleInv'
<1>1. /\ UNCHANGED << active, transport, spool, chan, ws, streamer, proc, retire, sent, overrun >>
      /\ stopping'
  BY DEF Sigterm, supervisor, build
<1>2. Connected' /\ SpoolOK' /\ StreamOK' /\ RetireOK'
  BY <1>1 DEF OutputInv, Connected, SpoolOK, SpoolOf, StreamOK, StreamOf, RetireOK, Finished
<1>3. InOrder'
  BY <1>1 DEF OutputInv, InOrder, OrderOf, Wire, Early, Late, LiveSpool, Edge
<1> QED
  BY <1>1, <1>2, <1>3 DEF OutputInv, HandleInv

\* A message is put on the channel.
LEMMA ProducedOrder ==
    ASSUME WorkerInv, WorkerInv', NEW b \in Builds, OrderOf(b), NEW m \in Frames,
           sent' = sent, chan' = Append(chan, m), UNCHANGED << active, spool, ws >>,
           Edge(b) <= Edge(b)', m.b = b => Edge(b) <= Rank(m.n) /\ Rank(m.n) < Edge(b)',
           Edge(b)' \in Nat
    PROVE  OrderOf(b)'
<1>1. Wire(b)' = Wire(b) /\ Early(b)' = Early(b) /\ Late(b)' = Late(b)
  BY DEF Wire, Early, Late, LiveSpool
<1>2. /\ Wire(b) \in Seq(Frames) /\ Early(b) \in Seq(Frames) /\ Late(b) \in Seq(Frames)
      /\ chan \in Seq(Frames) /\ Edge(b) \in Nat
  BY StageType
<1>3. InLine(Wire(b), Early(b), Late(b), Append(chan, m), b, Edge(b)')
  BY <1>2, LineProduce DEF OrderOf
<1> QED
  BY <1>1, <1>3 DEF OrderOf

LEMMA SampleOutput ==
    ASSUME WorkerInv, WorkerInv', OutputInv, HandleInv, Sample
    PROVE  OutputInv' /\ HandleInv'
<1>1. /\ UNCHANGED << active, transport, spool, ws, streamer, proc, retire, stopping, woken,
           sent, overrun >>
      /\ chan' = chan \/ chan' = Append(chan, Metrics)
  BY DEF Sample, SendOrCount, supervisor, build
<1>2. ws.pc \in LivePcs /\ chan \in Seq(Frames) /\ Metrics \in Frames /\ Metrics.b \notin Builds
  BY IdentityAssumption DEF Sample, Sampling, LivePcs, DrainedPcs, NewPcs, SdPcs, WorkerInv,
     TypeOK, Frames, Metrics
<1>3. \A b \in Builds : (\A i \in DOMAIN chan : chan[i].b # b)
        => \A i \in DOMAIN chan' : chan'[i].b # b
  <2>1. CASE chan' = chan
    BY <2>1
  <2>2. CASE chan' = Append(chan, Metrics)
    BY <1>2, <2>2
  <2> QED
    BY <1>1, <2>1, <2>2
<1>4. Connected' /\ StreamOK' /\ RetireOK'
  BY <1>1, <1>2 DEF OutputInv, Connected, StreamOK, StreamOf, RetireOK, Finished
<1>5. SpoolOK'
  <2>1. ASSUME NEW b \in Builds, SpoolOf(b) PROVE SpoolOf(b)'
    <3>1. Finished(b)' = Finished(b)
      BY <1>1 DEF Finished
    <3> QED
      BY <1>1, <1>3, <2>1, <3>1, ZenonT(60) DEF SpoolOf
  <2> QED
    BY <1>1, <2>1 DEF OutputInv, SpoolOK
<1>6. InOrder'
  <2>1. ASSUME NEW b \in Builds \ overrun PROVE OrderOf(b)'
    <3>1. OrderOf(b) /\ Edge(b)' = Edge(b) /\ Edge(b) \in Nat
      BY <1>1, StageType DEF OutputInv, InOrder, Edge
    <3>2. CASE chan' = chan
      BY <1>1, <3>1, <3>2 DEF OrderOf, Wire, Early, Late, LiveSpool
    <3>3. CASE chan' = Append(chan, Metrics)
      BY <1>1, <1>2, <3>1, <3>3, ProducedOrder
    <3> QED
      BY <1>1, <3>2, <3>3
  <2> QED
    BY <1>1, <2>1 DEF InOrder
<1>7. HandleInv'
  BY <1>1 DEF HandleInv, HandleOf, Running, Reading, Finished
<1> QED
  BY <1>4, <1>5, <1>6, <1>7 DEF OutputInv

-----------------------------------------------------------------------------
(* The streamer *)

\* The streamer that waits for room on the channel holds the supervisor's lock, so
\* that its build stays the active one.
LockHeld == \A b \in Builds : streamer[b].pc = "send" => active.b = b

LEMMA StreamHandles ==
    ASSUME HandleInv, UNCHANGED << retire, sent, stopping, woken, ws >>,
             overrun \subseteq overrun',
           \A b \in Builds : (Running(b)' => Running(b)) /\ (Reading(b)' => Reading(b)),
           active'.b = active.b, active'.exec = active.exec, active'.task = active.task
    PROVE  HandleInv'
<1>1. ASSUME NEW b \in Builds, HandleOf(b) PROVE HandleOf(b)'
  <2>1. Finished(b)' = Finished(b)
    BY DEF Finished
  <2> QED
    BY <1>1, <2>1, ZenonT(60) DEF HandleOf
<1> QED
  BY <1>1, ZenonT(60) DEF HandleInv

\* The streamer of p takes a step and nothing else changes.
LEMMA StreamerStep ==
    ASSUME WorkerInv, WorkerInv', OutputInv, HandleInv, NEW p \in Builds,
           UNCHANGED << active, transport, spool, chan, ws, proc, retire, stopping, woken, sent,
             overrun >>,
           Reading(p), \A b \in Builds : b # p => streamer'[b] = streamer[b],
           streamer'[p].pc # "none", StreamOf(p)', Edge(p) <= Edge(p)'
    PROVE  OutputInv' /\ HandleInv'
<1>1. Connected' /\ RetireOK'
  BY DEF OutputInv, Connected, RetireOK, Finished
<1>2. SpoolOK'
  <2>1. ASSUME NEW b \in Builds, SpoolOf(b) PROVE SpoolOf(b)'
    <3>1. streamer[b].pc = "done" => streamer'[b].pc = "done"
      BY DEF Reading
    <3> QED
      BY <2>1, <3>1, SpoolKept
  <2> QED
    BY <2>1 DEF OutputInv, SpoolOK
<1>3. StreamOK'
  <2>1. ASSUME NEW b \in Builds PROVE StreamOf(b)'
    BY DEF OutputInv, StreamOK, StreamOf
  <2>2. ws'.pc \in NewPcs => ws'.b \in Builds /\ streamer'[ws'.b].pc = "none"
    BY DEF OutputInv, StreamOK, Reading
  <2> QED
    BY <2>1, <2>2 DEF OutputInv, StreamOK
<1>4. InOrder'
  <2>1. ASSUME NEW b \in Builds \ overrun PROVE OrderOf(b)'
    <3>1. Edge(b) <= Edge(b)'
      <4>1. Edge(b) \in Nat /\ (b # p => Edge(b)' = Edge(b))
        BY StageType DEF Edge
      <4> QED
        BY <4>1
    <3>2. OrderOf(b) /\ Early(b)' = Early(b) /\ Late(b)' = Late(b)
      BY DEF OutputInv, InOrder, Early, Late, LiveSpool
    <3> QED
      BY <3>1, <3>2, OrderKept
  <2> QED
    BY <2>1 DEF InOrder
<1>5. HandleInv'
  <2>1. \A b \in Builds : (Running(b)' => Running(b)) /\ (Reading(b)' => Reading(b))
    BY DEF Running, Reading
  <2> QED
    BY <2>1, StreamHandles
<1> QED
  BY <1>1, <1>2, <1>3, <1>4, <1>5 DEF OutputInv

LEMMA StreamOutputOutput ==
    ASSUME WorkerInv, WorkerInv', OutputInv, HandleInv, NEW p \in Builds, StreamOutput(p)
    PROVE  OutputInv' /\ HandleInv'
<1> DEFINE s == streamer[p]
           t == [pc |-> "have", n |-> s.made + 1, made |-> s.made + 1]
<1>1. /\ s.pc = "read" /\ s.made \in 0 .. MaxOutput /\ s.made < MaxOutput
      /\ streamer'[p] = t /\ \A b \in Builds : b # p => streamer'[b] = streamer[b]
  BY DEF StreamOutput, WorkerInv, TypeOK, StreamerRecords
<1>2. t.pc = "have" /\ t.n = s.made + 1 /\ t.made = s.made + 1
  OBVIOUS
<1>3. Edge(p)' = Edge(p) /\ Edge(p) \in Nat
  <2>1. Rank(s.made + 1) = s.made + 1
    BY <1>1, BoundsAssumption DEF Rank, Fin
  <2>2. Edge(p) = s.made + 1 /\ Edge(p)' = Rank(s.made + 1)
    BY <1>1, <1>2 DEF Edge
  <2> QED
    BY <2>1, <2>2, StageType
<1>4. UNCHANGED << active, transport, spool, chan, ws, proc, retire, stopping, woken, sent,
        overrun >>
  BY DEF StreamOutput, supervisor
<1>5. StreamOf(p)'
  <2>1. StreamOf(p)
    BY DEF OutputInv, StreamOK
  <2> QED
    BY <1>1, <1>2, <1>4, <2>1 DEF StreamOf
<1> QED
  BY <1>1, <1>2, <1>3, <1>4, <1>5, StreamerStep DEF Reading

LEMMA StreamEndOutput ==
    ASSUME WorkerInv, WorkerInv', OutputInv, HandleInv, NEW p \in Builds, StreamEnd(p)
    PROVE  OutputInv' /\ HandleInv'
<1>1. /\ streamer[p].pc = "read" /\ streamer[p] \in StreamerRecords
      /\ \A b \in Builds : b # p => streamer'[b] = streamer[b]
      /\ streamer'[p] = [streamer[p] EXCEPT !.pc = "have", !.n = Fin]
  BY DEF StreamEnd, WorkerInv, TypeOK
<1>2. streamer'[p].pc = "have" /\ streamer'[p].n = Fin
  BY <1>1, ZenonT(60) DEF StreamerRecords
<1>3. Edge(p) <= Edge(p)'
  <2>1. Edge(p) = streamer[p].made + 1 /\ Edge(p)' = MaxOutput + 1
    BY <1>1, <1>2 DEF Edge, Rank
  <2> QED
    BY <1>1, <2>1, EdgeType
<1>4. UNCHANGED << active, transport, spool, chan, ws, proc, retire, stopping, woken, sent,
        overrun >>
  BY DEF StreamEnd, supervisor
<1>5. StreamOf(p)'
  <2>1. StreamOf(p)
    BY DEF OutputInv, StreamOK
  <2> QED
    BY <1>1, <1>2, <1>4, <2>1 DEF StreamOf
<1> QED
  BY <1>1, <1>2, <1>3, <1>4, <1>5, StreamerStep, ZenonT(60) DEF Reading

\* The message in hand is handed over: the streamer goes on behind it.
LEMMA HandledFacts ==
    ASSUME WorkerInv, OutputInv, NEW p \in Builds, streamer[p].pc \in {"have", "send"},
           streamer' = Handled(p), \A b \in Builds : proc[b] # "none" => proc'[b] # "none",
           \A b \in Builds : b # p => spool'[b] = spool[b]
    PROVE  /\ Reading(p) /\ \A b \in Builds : b # p => streamer'[b] = streamer[b]
           /\ streamer'[p].pc \in {"read", "done"}
           /\ streamer[p].n = Fin => streamer'[p].pc = "done"
           /\ \A b \in Builds : StreamOf(b)'
           /\ Edge(p) = Rank(streamer[p].n) /\ Edge(p)' = Rank(streamer[p].n) + 1
           /\ Rank(streamer[p].n) \in Nat
           /\ InHand(p) \in Messages /\ InHand(p) \in Frames
           /\ InHand(p).b = p /\ InHand(p).n = streamer[p].n
           /\ \A b \in Builds : Reading(b)' => Reading(b)
<1> DEFINE s == streamer[p]
<1>1. s \in StreamerRecords
  BY DEF WorkerInv, TypeOK
<1>2. /\ \A b \in Builds : b # p => streamer'[b] = streamer[b]
      /\ streamer'[p] = [s EXCEPT !.pc = IF s.n = Fin THEN "done" ELSE "read"]
  BY DEF Handled, WorkerInv, TypeOK
<1>3. /\ streamer'[p].pc = (IF s.n = Fin THEN "done" ELSE "read")
      /\ streamer'[p].made = s.made
  BY <1>1, <1>2, ZenonT(60) DEF StreamerRecords
<1>4. StreamOf(p) /\ (s.n # Fin => s.n = s.made)
  BY DEF OutputInv, StreamOK, StreamOf
<1>5. \A b \in Builds : StreamOf(b)'
  <2>1. StreamOf(p)'
    BY <1>3, <1>4 DEF StreamOf
  <2>2. ASSUME NEW b \in Builds, b # p PROVE StreamOf(b)'
    BY <1>2, <2>2 DEF OutputInv, StreamOK, StreamOf
  <2> QED
    BY <2>1, <2>2
<1>6. Edge(p) = Rank(s.n) /\ Rank(s.n) \in Nat
  BY <1>1, EdgeType DEF Edge
<1>7. Edge(p)' = Rank(s.n) + 1
  <2>1. CASE s.n = Fin
    BY <1>3, <2>1, BoundsAssumption DEF Edge, Rank
  <2>2. CASE s.n # Fin
    BY <1>3, <1>4, <2>2 DEF Edge, Rank
  <2> QED
    BY <2>1, <2>2
<1>8. InHand(p) \in Messages /\ InHand(p) \in Frames /\ InHand(p).b = p /\ InHand(p).n = s.n
  BY <1>1 DEF InHand, StreamerRecords, Messages, Frames
<1>9. Reading(p) /\ \A b \in Builds : Reading(b)' => Reading(b)
  BY <1>2, <1>3 DEF Reading
<1>10. streamer'[p].pc \in {"read", "done"} /\ (s.n = Fin => streamer'[p].pc = "done")
  BY <1>3
<1> QED
  BY <1>2, <1>5, <1>6, <1>7, <1>8, <1>9, <1>10

\* The message is put on the channel.
LEMMA ChannelOutput ==
    ASSUME WorkerInv, WorkerInv', OutputInv, HandleInv, NEW p \in Builds,
           streamer[p].pc \in {"have", "send"}, streamer' = Handled(p), transport = "live",
           chan' = Append(chan, InHand(p)),
           UNCHANGED << active, transport, spool, ws, proc, retire, stopping, woken, sent,
             overrun >>
    PROVE  OutputInv' /\ HandleInv'
<1> DEFINE m == InHand(p)
<1>1. /\ Reading(p) /\ \A b \in Builds : b # p => streamer'[b] = streamer[b]
      /\ streamer'[p].pc \in {"read", "done"}
      /\ \A b \in Builds : StreamOf(b)'
      /\ Edge(p) = Rank(streamer[p].n) /\ Edge(p)' = Rank(streamer[p].n) + 1
      /\ Rank(streamer[p].n) \in Nat
      /\ m \in Frames /\ m.b = p /\ m.n = streamer[p].n
      /\ \A b \in Builds : Reading(b)' => Reading(b)
  BY HandledFacts
<1> HIDE DEF m
<1>2. chan' = Append(chan, m) /\ chan \in Seq(Frames)
  BY DEF m, WorkerInv, TypeOK
<1>3. Connected' /\ RetireOK'
  BY DEF OutputInv, Connected, RetireOK, Finished
<1>4. SpoolOK'
  <2>1. ASSUME NEW b \in Builds, SpoolOf(b) PROVE SpoolOf(b)'
    <3>1. Finished(b)' = Finished(b)
      BY DEF Finished
    <3>2. active.b = b /\ active.pending =>
            streamer'[b].pc = "done" /\ \A i \in DOMAIN chan' : chan'[i].b # b
      <4>1. SUFFICES ASSUME active.b = b, active.pending
                     PROVE  streamer'[b].pc = "done" /\ \A i \in DOMAIN chan' : chan'[i].b # b
        OBVIOUS
      <4>2. streamer[b].pc = "done" /\ \A i \in DOMAIN chan : chan[i].b # b
        BY <2>1, <4>1, ZenonT(60) DEF SpoolOf
      <4>3. b # p
        BY <1>1, <4>2 DEF Reading
      <4> QED
        BY <1>1, <1>2, <4>2, <4>3
    <3> QED
      BY <2>1, <3>1, <3>2, ZenonT(60) DEF SpoolOf
  <2> QED
    BY <2>1 DEF OutputInv, SpoolOK
<1>5. StreamOK'
  <2>1. ws'.pc \in NewPcs => ws'.b \in Builds /\ streamer'[ws'.b].pc = "none"
    BY <1>1 DEF OutputInv, StreamOK, Reading
  <2> QED
    BY <1>1, <2>1 DEF OutputInv, StreamOK
<1>6. InOrder'
  <2>1. ASSUME NEW b \in Builds \ overrun PROVE OrderOf(b)'
    <3>1. OrderOf(b) /\ Edge(b) \in Nat /\ (b # p => Edge(b)' = Edge(b))
      BY <1>1, StageType, ZenonT(60) DEF OutputInv, InOrder, Edge
    <3>2. Edge(b) <= Edge(b)' /\ Edge(b)' \in Nat /\ (m.b = b => Edge(b) <= Rank(m.n)
            /\ Rank(m.n) < Edge(b)')
      BY <1>1, <3>1
    <3> QED
      BY <1>1, <1>2, <3>1, <3>2, ProducedOrder
  <2> QED
    BY <2>1 DEF InOrder
<1>7. HandleInv'
  <2>1. \A b \in Builds : (Running(b)' => Running(b)) /\ (Reading(b)' => Reading(b))
    BY <1>1 DEF Running
  <2> QED
    BY <2>1, StreamHandles
<1> QED
  BY <1>3, <1>4, <1>5, <1>6, <1>7 DEF OutputInv

\* Without a transport nothing is on its way on the connection.
LEMMA OfflineFacts ==
    ASSUME OutputInv, transport # "live"
    PROVE  /\ chan = << >> /\ ws.todo = << >> /\ ws.pc \notin LivePcs
           /\ ws.pc \notin DrainedPcs /\ ws.pc \notin {"drain", "unlink", "sd_join", "sd_clear"}
           /\ ws.pc \notin NewPcs
BY DEF OutputInv, Connected, LivePcs, DrainedPcs, TodoPcs, DrainPcs, SdPcs, NewPcs

\* What spool_and_finalize does to the record, the file and the subprocess.
LEMMA SpoolEffect ==
    ASSUME WorkerInv, NEW m \in Messages, SpoolAndFinalize(m)
    PROVE  /\ active'.b = active.b /\ active'.exec = active.exec /\ active'.task = active.task
           /\ overrun \subseteq overrun'
           /\ \A b \in Builds : /\ Running(b)' = Running(b)
                                /\ proc[b] # "none" => proc'[b] # "none"
                                /\ b # m.b => spool'[b] = spool[b]
           /\ \/ active.exhausted /\ UNCHANGED << active, spool, overrun >>
              \/ /\ ~active.exhausted /\ m.n = Fin /\ UNCHANGED << spool, overrun >>
                 /\ ~active'.exhausted /\ active'.path = active.path
                      /\ active'.bytes = active.bytes
                 /\ active'.pending
              \/ ~active.exhausted /\ m.b \in overrun' /\ UNCHANGED spool
              \/ /\ ~active.exhausted /\ m.n # Fin /\ UNCHANGED overrun
                 /\ spool'[m.b] = Append(spool[m.b], m)
                 /\ ~active'.exhausted /\ active'.path /\ active'.bytes > 0
                 /\ active'.pending = active.pending
<1> USE DEF WorkerInv, TypeOK
<1>1. m.b \in Builds
  BY DEF Messages
<1>2. CASE active.exhausted /\ UNCHANGED << active, spool, proc, overrun >>
  BY <1>2 DEF Running
<1>3. CASE /\ ~active.exhausted /\ m.n = Fin
           /\ active' = TerminalPending
           /\ UNCHANGED << spool, proc, overrun >>
  <2>1. /\ active'.b = active.b /\ active'.exec = active.exec /\ active'.task = active.task
        /\ active'.exhausted = active.exhausted /\ active'.path = active.path
        /\ active'.bytes = active.bytes /\ active'.pending
    BY <1>3, ZenonT(60) DEF TerminalPending, ActiveRecords
  <2> QED
    BY <1>3, <2>1 DEF Running
<1>4. CASE /\ ~active.exhausted /\ m.n # Fin
           /\ active' = [TerminalPending EXCEPT !.exhausted = TRUE, !.path = @ \/ ~OverBudget]
           /\ proc' = KillActive
           /\ overrun' = overrun \union {m.b}
           /\ UNCHANGED spool
  <2>1. active'.b = active.b /\ active'.exec = active.exec /\ active'.task = active.task
    BY <1>4, ZenonT(60) DEF TerminalPending, ActiveRecords
  <2>2. \A b \in Builds : Running(b)' = Running(b) /\ (proc[b] # "none" => proc'[b] # "none")
    BY <1>4, KillKeeps
  <2> QED
    BY <1>4, <2>1, <2>2
<1>5. CASE /\ ~active.exhausted /\ m.n # Fin
           /\ active' = [active EXCEPT !.path = TRUE, !.bytes = @ + 1]
           /\ spool' = [spool EXCEPT ![m.b] = Append(@, m)]
           /\ UNCHANGED << proc, overrun >>
  <2>1. /\ active'.b = active.b /\ active'.exec = active.exec /\ active'.task = active.task
        /\ active'.exhausted = active.exhausted /\ active'.path
        /\ active'.bytes = active.bytes + 1 /\ active'.pending = active.pending
    BY <1>5, ZenonT(60) DEF ActiveRecords
  <2>2. active.bytes \in 0 .. SpoolCap
    BY DEF ActiveRecords
  <2>3. active'.bytes > 0
    BY <2>1, <2>2, BoundsAssumption
  <2>4. spool'[m.b] = Append(spool[m.b], m) /\ \A b \in Builds : b # m.b => spool'[b] = spool[b]
    BY <1>1, <1>5
  <2> QED
    BY <1>5, <2>1, <2>3, <2>4, ZenonT(60) DEF Running
<1> QED
  BY <1>2, <1>3, <1>4, <1>5 DEF SpoolAndFinalize

\* Output that is spooled comes behind what the file already holds.
LEMMA SpooledOrder ==
    ASSUME WorkerInv, WorkerInv', OutputInv, NEW p \in Builds \ overrun, active.b = p,
           NEW m \in Messages, m.b = p, streamer[p].pc # "done",
           Edge(p) = Rank(m.n), Edge(p)' = Rank(m.n) + 1, transport # "live",
           UNCHANGED << chan, ws, sent >>, spool'[p] = Append(spool[p], m),
           active'.b = p, active'.path, active'.bytes > 0
    PROVE  OrderOf(p)'
<1> DEFINE s == spool[p]
<1>1. /\ chan = << >> /\ ws.todo = << >> /\ ws.pc \notin {"drain", "unlink", "sd_join",
           "sd_clear"}
  BY OfflineFacts
<1>2. OrderOf(p) /\ SpoolOf(p) /\ ~Finished(p)
  BY NotDoneNotFinished DEF OutputInv, InOrder, SpoolOK
<1>3. s # << >> => active.path /\ active.bytes > 0
  BY <1>1, <1>2, ZenonT(60) DEF SpoolOf
<1>4. LiveSpool(p) = s /\ LiveSpool(p)' = Append(s, m)
  BY <1>1, <1>3 DEF LiveSpool
<1>5. Early(p) = << >> /\ Early(p)' = << >> /\ Late(p) = s /\ Late(p)' = Append(s, m)
  BY <1>1, <1>4 DEF Early, Late
<1>6. s \in Seq(Frames) /\ m \in Frames /\ Wire(p) \in Seq(Frames) /\ Wire(p)' = Wire(p)
        /\ Rank(m.n) \in Nat
  <2>1. s \in Seq(Messages)
    BY DEF WorkerInv, TypeOK
  <2>2. Wire(p) \in Seq(Frames) /\ Edge(p) \in Nat /\ Wire(p)' = Wire(p)
    BY StageType, ZenonT(60) DEF Wire
  <2> QED
    BY <2>1, <2>2, MessagesAreFrames DEF Frames
<1>7. InLine(Wire(p), << >>, s, << >>, p, Rank(m.n))
  BY <1>1, <1>2, <1>5 DEF OrderOf
<1> HIDE DEF s
<1>8. InLine(Wire(p), << >>, << >>, s, p, Rank(m.n))
  BY <1>6, <1>7, LineShift
<1> DEFINE k == Rank(m.n)
           l == Rank(m.n) + 1
<1>9. k \in Nat /\ l \in Nat /\ k <= l /\ k <= Rank(m.n) /\ Rank(m.n) < l
  BY <1>6
<1>10. InLine(Wire(p), << >>, << >>, Append(s, m), p, l)
  <2>1. InLine(Wire(p), << >>, << >>, s, p, k)
    BY <1>8
  <2> HIDE DEF k, l
  <2> QED
    BY <1>6, <1>9, <2>1, EmptyType, LineProduce, ZenonT(60)
<1>11. Append(s, m) \in Seq(Frames)
  BY <1>6
<1>12. InLine(Wire(p), << >>, Append(s, m), << >>, p, l)
  BY <1>6, <1>10, <1>11, LineShift, ZenonT(60)
<1> QED
  BY <1>1, <1>5, <1>6, <1>12 DEF OrderOf

\* The message is spooled, or ends the build.
LEMMA SpooledOutput ==
    ASSUME WorkerInv, WorkerInv', OutputInv, HandleInv, NEW p \in Builds, active.b = p,
           streamer[p].pc \in {"have", "send"}, streamer' = Handled(p), transport # "live",
           transport' = "none", SpoolAndFinalize(InHand(p)),
           UNCHANGED << chan, ws, retire, stopping, woken, sent >>
    PROVE  OutputInv' /\ HandleInv'
<1> DEFINE m == InHand(p)
<1>1. m \in Messages /\ m.b = p /\ m.n = streamer[p].n
  BY DEF InHand, WorkerInv, TypeOK, StreamerRecords, Messages
<1> HIDE DEF m
<1>2. /\ active'.b = p /\ active'.exec = active.exec /\ active'.task = active.task
      /\ overrun \subseteq overrun'
      /\ \A b \in Builds : /\ Running(b)' = Running(b)
                           /\ proc[b] # "none" => proc'[b] # "none"
                           /\ b # p => spool'[b] = spool[b]
      /\ \/ active.exhausted /\ UNCHANGED << active, spool, overrun >>
         \/ /\ ~active.exhausted /\ m.n = Fin /\ UNCHANGED << spool, overrun >>
            /\ ~active'.exhausted /\ active'.path = active.path /\ active'.bytes = active.bytes
            /\ active'.pending
         \/ ~active.exhausted /\ p \in overrun' /\ UNCHANGED spool
         \/ /\ ~active.exhausted /\ m.n # Fin /\ UNCHANGED overrun
            /\ spool'[p] = Append(spool[p], m)
            /\ ~active'.exhausted /\ active'.path /\ active'.bytes > 0
            /\ active'.pending = active.pending
  BY <1>1, SpoolEffect DEF m
<1>3. /\ Reading(p) /\ \A b \in Builds : b # p => streamer'[b] = streamer[b]
      /\ streamer'[p].pc \in {"read", "done"}
      /\ m.n = Fin => streamer'[p].pc = "done"
      /\ \A b \in Builds : StreamOf(b)'
      /\ Edge(p) = Rank(m.n) /\ Edge(p)' = Rank(m.n) + 1
      /\ Rank(m.n) \in Nat
      /\ \A b \in Builds : Reading(b)' => Reading(b)
  <2>1. \A b \in Builds : (proc[b] # "none" => proc'[b] # "none") /\ (b # p => spool'[b] = spool[b])
    BY <1>2, ZenonT(60)
  <2> QED
    BY <1>1, <2>1, HandledFacts, ZenonT(60)
<1>4. /\ chan = << >> /\ ws.todo = << >> /\ ws.pc \notin LivePcs
      /\ ws.pc \notin DrainedPcs /\ ws.pc \notin {"drain", "unlink", "sd_join", "sd_clear"}
      /\ ws.pc \notin NewPcs
  BY OfflineFacts
<1>5. Connected'
  BY <1>2, <1>4, ZenonT(60) DEF OutputInv, Connected, TodoPcs, DrainPcs
<1>6. \A b \in Builds : \A i \in DOMAIN spool'[b] : spool'[b][i].b = b /\ spool'[b][i].n # Fin
  <2>1. TAKE b \in Builds
  <2>2. \A i \in DOMAIN spool[b] : spool[b][i].b = b /\ spool[b][i].n # Fin
    BY DEF OutputInv, SpoolOK
  <2>3. CASE spool'[b] = spool[b]
    BY <2>2, <2>3
  <2>4. CASE b = p /\ m.n # Fin /\ spool'[b] = Append(spool[b], m)
    <3>1. spool[b] \in Seq(Messages)
      BY DEF WorkerInv, TypeOK
    <3> QED
      BY <1>1, <2>2, <2>4, <3>1
  <2> QED
    BY <1>2, <2>3, <2>4, ZenonT(60)
<1>7. ASSUME p \notin overrun, p \notin overrun' PROVE SpoolOf(p)'
  <2>1. SpoolOf(p) /\ ~active.exhausted
    BY <1>7 DEF OutputInv, SpoolOK, SpoolOf
  <2>2. ~Finished(p) /\ Finished(p)' = Finished(p) /\ streamer[p].pc # "done"
    BY <1>3, <1>7, NotDoneNotFinished, ZenonT(60) DEF OutputInv, InOrder, Reading, Finished
  <2>3. ~active.pending /\ (spool[p] # << >> => active.path /\ active.bytes > 0)
    BY <1>4, <2>1, <2>2, ZenonT(60) DEF SpoolOf
  <2>4. ~active'.exhausted /\ (spool'[p] # << >> => active'.path /\ active'.bytes > 0)
    BY <1>2, <1>7, <2>1, <2>3, ZenonT(60)
  <2>5. active'.pending => streamer'[p].pc = "done"
    BY <1>2, <1>3, <1>7, <2>1, <2>3, ZenonT(60)
  <2>6. (\A i \in DOMAIN chan : chan[i].b # p)
          /\ \A i \in DOMAIN ws.todo : ws.todo[i] # [b |-> p, n |-> Fin]
    <3>1. DOMAIN << >> = {}
      OBVIOUS
    <3> QED
      BY <1>4, <3>1, ZenonT(60)
  <2> QED
    BY <1>4, <2>2, <2>4, <2>5, <2>6, ZenonT(60) DEF SpoolOf
<1>8. SpoolOK'
  <2>1. ASSUME NEW b \in Builds \ overrun', b # p PROVE SpoolOf(b)'
    BY <1>2, <2>1, ZenonT(60) DEF SpoolOf
  <2> QED
    BY <1>2, <1>6, <1>7, <2>1, ZenonT(60) DEF SpoolOK
<1>9. StreamOK'
  <2>1. ws.pc \notin {"register", "started", "mark", "attach_task"}
    BY <1>4 DEF NewPcs, DrainedPcs
  <2> QED
    BY <1>3, <1>4, <2>1, ZenonT(60) DEF StreamOK
<1>10. RetireOK'
  BY <1>2, RetireFrame
<1>11. ASSUME NEW b \in Builds \ overrun' PROVE OrderOf(b)'
  <2>1. OrderOf(b) /\ Edge(b) \in Nat /\ b \notin overrun
    BY <1>2, StageType, ZenonT(60) DEF OutputInv, InOrder
  <2>2. CASE b # p
    <3>1. Edge(b)' = Edge(b) /\ Early(b)' = Early(b) /\ Late(b)' = Late(b)
      BY <1>2, <1>3, <2>2, ZenonT(60) DEF Edge, Early, Late, LiveSpool
    <3> QED
      BY <2>1, <3>1, OrderKept
  <2>3. CASE b = p
    <3>1. ~active.exhausted
      BY <2>1, <2>3, ZenonT(60) DEF OutputInv, SpoolOK, SpoolOf
    <3>2. CASE spool'[p] = Append(spool[p], m) /\ active'.path /\ active'.bytes > 0
      BY <1>1, <1>2, <1>3, <2>1, <2>3, <3>2, SpooledOrder, ZenonT(60) DEF Reading
    <3>3. CASE spool' = spool /\ active'.path = active.path /\ active'.bytes = active.bytes
      <4>1. Early(p)' = Early(p) /\ Late(p)' = Late(p)
        BY <1>2, <3>3, ZenonT(60) DEF Early, Late, LiveSpool
      <4>2. Edge(p) = Rank(m.n) /\ Edge(p)' = Rank(m.n) + 1 /\ Rank(m.n) \in Nat
        BY <1>3, ZenonT(60)
      <4>3. Edge(p) <= Edge(p)'
        BY <4>2, SuccAbove, ZenonT(60)
      <4> QED
        BY <2>1, <2>3, <4>1, <4>3, OrderKept, ZenonT(60)
    <3> QED
      BY <1>2, <2>3, <3>1, <3>2, <3>3, ZenonT(60)
  <2> QED
    BY <2>2, <2>3
<1>12. HandleInv'
  BY <1>2, <1>3, StreamHandles, ZenonT(60)
<1> QED
  BY <1>5, <1>8, <1>9, <1>10, <1>11, <1>12 DEF OutputInv, InOrder

LEMMA OnOutputMessageOutput ==
    ASSUME WorkerInv, WorkerInv', OutputInv, HandleInv, NEW p \in Builds, OnOutputMessage(p)
    PROVE  OutputInv' /\ HandleInv'
<1>1. streamer[p].pc = "have" /\ UNCHANGED << ws, retire, stopping, woken, sent >>
  BY DEF OnOutputMessage
<1>2. CASE streamer' = Handled(p) /\ UNCHANGED << supervisor, chan, proc, overrun >>
  <2>1. UNCHANGED << active, transport, spool >>
    BY <1>2 DEF supervisor
  <2>2. /\ Reading(p) /\ \A b \in Builds : b # p => streamer'[b] = streamer[b]
        /\ streamer'[p].pc # "none" /\ StreamOf(p)' /\ Edge(p) <= Edge(p)'
    <3>1. /\ Reading(p) /\ \A b \in Builds : b # p => streamer'[b] = streamer[b]
          /\ streamer'[p].pc \in {"read", "done"} /\ StreamOf(p)'
          /\ Edge(p) = Rank(streamer[p].n) /\ Edge(p)' = Rank(streamer[p].n) + 1
          /\ Rank(streamer[p].n) \in Nat
      BY <1>1, <1>2, <2>1, HandledFacts, ZenonT(60)
    <3> QED
      BY <3>1, SuccAbove, ZenonT(60)
  <2> QED
    BY <1>1, <1>2, <2>1, <2>2, StreamerStep, ZenonT(60)
<1>3. CASE /\ transport = "live" /\ chan' = Append(chan, InHand(p)) /\ streamer' = Handled(p)
           /\ UNCHANGED << supervisor, proc, overrun >>
  BY <1>1, <1>3, ChannelOutput, ZenonT(60) DEF supervisor
<1>4. CASE /\ streamer' = [streamer EXCEPT ![p].pc = "send"]
           /\ UNCHANGED << supervisor, chan, proc, overrun >>
  <2>1. UNCHANGED << active, transport, spool >>
    BY <1>4 DEF supervisor
  <2>2. /\ \A b \in Builds : b # p => streamer'[b] = streamer[b]
        /\ streamer'[p].pc = "send" /\ streamer'[p].n = streamer[p].n
        /\ streamer'[p].made = streamer[p].made
    BY <1>4, ZenonT(60) DEF WorkerInv, TypeOK, StreamerRecords
  <2>3. Edge(p)' = Edge(p) /\ Edge(p) \in Nat
    BY <1>1, <2>2, StageType DEF Edge
  <2>4. StreamOf(p)'
    <3>1. StreamOf(p)
      BY DEF OutputInv, StreamOK
    <3> QED
      BY <1>1, <1>4, <2>1, <2>2, <3>1 DEF StreamOf
  <2> QED
    BY <1>1, <1>4, <2>1, <2>2, <2>3, <2>4, StreamerStep DEF Reading
<1>5. CASE /\ active.b = p /\ transport # "live" /\ transport' = "none"
           /\ SpoolAndFinalize(InHand(p)) /\ streamer' = Handled(p) /\ UNCHANGED chan
  BY <1>1, <1>5, SpooledOutput
<1> QED
  BY <1>2, <1>3, <1>4, <1>5 DEF OnOutputMessage

LEMMA OutputSentOutput ==
    ASSUME WorkerInv, WorkerInv', LockHeld, OutputInv, HandleInv, NEW p \in Builds, OutputSent(p)
    PROVE  OutputInv' /\ HandleInv'
<1>1. /\ streamer[p].pc = "send" /\ active.b = p /\ streamer' = Handled(p)
      /\ UNCHANGED << ws, retire, stopping, woken, sent >>
  BY DEF OutputSent, LockHeld
<1>2. CASE /\ transport = "live" /\ chan' = Append(chan, InHand(p))
           /\ UNCHANGED << supervisor, proc, overrun >>
  BY <1>1, <1>2, ChannelOutput DEF supervisor
<1>3. CASE /\ transport = "closed" /\ transport' = "none"
           /\ SpoolAndFinalize(InHand(p)) /\ UNCHANGED chan
  BY <1>1, <1>3, SpooledOutput
<1> QED
  BY <1>2, <1>3 DEF OutputSent

-----------------------------------------------------------------------------
(* The end of a build *)

\* Steps of a retire task leave the connection, the streamer and the subprocess alone.
RetireStep == UNCHANGED << transport, chan, ws, streamer, proc, stopping, woken, sent, overrun >>

\* The record of a build that is on the wire to its end may lose its spool file.
LEMMA RetireOrder ==
    ASSUME WorkerInv, WorkerInv', OutputInv, RetireStep, NEW b \in Builds \ overrun,
           spool'[b] = spool[b] \/ spool'[b] = << >>,
           active'.b = b /\ active'.path /\ active'.bytes > 0
             => active.b = b /\ active.path /\ active.bytes > 0
    PROVE  OrderOf(b)'
<1>1. OrderOf(b) /\ Edge(b)' = Edge(b) /\ Edge(b) \in Nat
  BY StageType DEF OutputInv, InOrder, Edge, RetireStep
<1>2. LiveSpool(b)' = LiveSpool(b) \/ LiveSpool(b)' = << >>
  BY ZenonT(60) DEF LiveSpool, RetireStep
<1>3. ws' = ws /\ sent' = sent /\ chan' = chan
  BY DEF RetireStep
<1>4. /\ Early(b)' = Early(b) \/ Early(b)' = << >>
      /\ Late(b)' = Late(b) \/ Late(b)' = << >>
  BY <1>2, <1>3 DEF Early, Late
<1> QED
  BY <1>1, <1>3, <1>4, OrderKept

LEMMA RetireConnected ==
    ASSUME OutputInv, RetireStep, active'.b = active.b \/ active'.b = None
    PROVE  Connected'
BY DEF OutputInv, Connected, RetireStep

LEMMA RetireStream ==
    ASSUME OutputInv, RetireStep, \A b \in Builds : spool'[b] = spool[b] \/ spool'[b] = << >>
    PROVE  StreamOK'
BY DEF OutputInv, StreamOK, StreamOf, RetireStep

LEMMA RetireSpool ==
    ASSUME WorkerInv, OutputInv, RetireStep,
           \A b \in Builds : spool'[b] = spool[b] \/ spool'[b] = << >>,
           \A b \in Builds \ overrun : SpoolOf(b)'
    PROVE  SpoolOK'
<1>1. \A b \in Builds : \A i \in DOMAIN spool'[b] : spool'[b][i].b = b /\ spool'[b][i].n # Fin
  BY DEF OutputInv, SpoolOK
<1> QED
  BY <1>1 DEF SpoolOK, RetireStep

LEMMA RetireTakeOutput ==
    ASSUME WorkerInv, WorkerInv', OutputInv, HandleInv, NEW i \in Retirers, RetireTake(i)
    PROVE  OutputInv' /\ HandleInv'
<1> DEFINE p == retire[i].b
<1>1. /\ retire[i].pc = "take" /\ p \in Builds /\ Finished(p)
      /\ RetireStep /\ spool' = spool
  BY DEF RetireTake, OutputInv, RetireOK, RetireStep
<1>2. \A b \in Builds : /\ Running(b)' = Running(b) /\ Reading(b)' = Reading(b)
                        /\ Finished(b)' = Finished(b)
  BY <1>1 DEF RetireStep, Running, Reading, Finished
<1>3. \A j \in Retirers : retire[j].pc # "idle" /\ retire[j].b = p /\ p \notin overrun => j = i
  BY <1>1 DEF OutputInv, RetireOK
<1>4. CASE active.b # p
  <2>1. /\ active' = active /\ retire'[i] = NoRetire
        /\ \A j \in Retirers : j # i => retire'[j] = retire[j]
    BY <1>4 DEF RetireTake, WorkerInv, TypeOK
  <2>2. NoRetire.pc = "idle" /\ NoRetire.b = None
    BY DEF NoRetire
  <2>3. RetireOK'
    BY <1>1, <1>2, <2>1, <2>2 DEF OutputInv, RetireOK, RetireStep
  <2>4. \A b \in Builds \ overrun : SpoolOf(b)'
    BY <1>1, <2>1, SpoolKept, ZenonT(60) DEF OutputInv, SpoolOK, RetireStep
  <2>5. \A b \in Builds \ overrun : OrderOf(b)'
    BY <1>1, <2>1, RetireOrder
  <2>6. HandleInv'
    <3>1. ASSUME ~stopping, NEW b \in Builds \ overrun PROVE HandleOf(b)'
      <4>1. HandleOf(b)
        BY <3>1 DEF HandleInv
      <4>2. \A j \in Retirers : /\ retire'[j].pc \in {"join", "clear"}
                                     <=> retire[j].pc \in {"join", "clear"}
                                /\ retire[j].pc \in {"join", "clear"} => retire'[j] = retire[j]
        BY <1>1, <2>1, <2>2
      <4>3. ws' = ws
        BY <1>1 DEF RetireStep
      <4> QED
        BY <1>2, <2>1, <4>1, <4>2, <4>3, ZenonT(60) DEF HandleOf
    <3> QED
      BY <1>1, <3>1 DEF HandleInv, RetireStep
  <2>7. Connected' /\ StreamOK' /\ SpoolOK'
    BY <1>1, <2>1, <2>4, RetireConnected, RetireStream, RetireSpool
  <2> QED
    BY <1>1, <2>3, <2>5, <2>6, <2>7 DEF OutputInv, InOrder, RetireStep
<1>5. CASE active.b = p
  <2>1. /\ active'.b = p /\ ~active'.exec /\ ~active'.task /\ ~active'.path
        /\ active'.pending = active.pending /\ active'.exhausted = active.exhausted
    <3>1. active' = Released
      BY <1>5 DEF RetireTake
    <3> QED
      BY <1>5, <3>1, ZenonT(60) DEF Released, WorkerInv, TypeOK, ActiveRecords
  <2>2. /\ retire'[i].pc = "join" /\ retire'[i].b = p
        /\ retire'[i].task = active.task /\ retire'[i].exec = active.exec
        /\ \A j \in Retirers : j # i => retire'[j] = retire[j]
    <3>1. /\ retire'[i] = [retire[i] EXCEPT !.pc = "join", !.task = active.task,
                                            !.exec = active.exec, !.path = active.path]
          /\ \A j \in Retirers : j # i => retire'[j] = retire[j]
      BY <1>5, ZenonT(60) DEF RetireTake, WorkerInv, TypeOK
    <3>2. retire[i] \in RetireRecords
      BY DEF WorkerInv, TypeOK
    <3>3. /\ retire'[i].pc = "join" /\ retire'[i].b = p
          /\ retire'[i].task = active.task /\ retire'[i].exec = active.exec
      BY <3>1, <3>2 DEF RetireRecords
    <3> QED
      BY <3>1, <3>3
  <2> HIDE DEF p
  <2>3. RetireOK'
    BY <1>1, <1>2, <2>2 DEF OutputInv, RetireOK, RetireStep, p
  <2>4. ASSUME NEW b \in Builds \ overrun PROVE SpoolOf(b)'
    <3>1. CASE b # p
      BY <2>1, <3>1 DEF SpoolOf
    <3>2. CASE b = p
      <4>1. SpoolOf(p) /\ ~active.exhausted /\ ~active.pending
        BY <1>1, <1>5, <3>2, <2>4, ZenonT(60) DEF OutputInv, SpoolOK, SpoolOf
      <4> QED
        BY <1>1, <1>2, <2>1, <3>2, <4>1, ZenonT(60) DEF SpoolOf
    <3> QED
      BY <3>1, <3>2
  <2>5. \A b \in Builds \ overrun : OrderOf(b)'
    BY <1>1, <2>1, RetireOrder
  <2>6. HandleInv'
    <3>1. ASSUME ~stopping, NEW b \in Builds \ overrun PROVE HandleOf(b)'
      <4>1. HandleOf(b) /\ ws' = ws
        BY <1>1, <3>1 DEF HandleInv, RetireStep
      <4>2. CASE b # p
        <5>1. \A j \in Retirers : /\ retire'[j].b = b => retire'[j] = retire[j]
                                  /\ retire[j].b = b => retire'[j] = retire[j]
          BY <1>1, <2>2, <4>2 DEF p
        <5> QED
          BY <1>2, <1>5, <2>1, <4>1, <4>2, <5>1, ZenonT(60) DEF HandleOf
      <4>3. CASE b = p
        <5>1. \A j \in Retirers : retire[j].b = p => retire[j].pc \notin {"join", "clear"}
          BY <1>1, <1>3, <3>1, <4>3
        <5>2. \A j \in Retirers : retire'[j].b = p => retire'[j].pc # "clear"
          BY <2>2, <5>1
        <5>3. Running(p) => (ws.pc = "register" /\ ws.b = p) \/ active.exec
          BY <4>1, <4>3, <5>1 DEF HandleOf
        <5>4. Reading(p) => (ws.pc = "attach_task" /\ ws.b = p) \/ active.task
          BY <4>1, <4>3, <5>1 DEF HandleOf
        <5>5. ws.pc \in {"started", "mark", "attach_task"} /\ ws.b = p => ~Finished(p)
          BY <4>1, <4>3 DEF HandleOf
        <5> QED
          BY <1>2, <2>1, <2>2, <4>1, <4>3, <5>2, <5>3, <5>4, <5>5, ZenonT(60) DEF HandleOf
      <4> QED
        BY <4>2, <4>3
    <3> QED
      BY <1>1, <3>1 DEF HandleInv, RetireStep
  <2>7. Connected' /\ StreamOK' /\ SpoolOK'
    BY <1>1, <1>5, <2>1, <2>4, RetireConnected, RetireStream, RetireSpool
  <2> QED
    BY <1>1, <2>3, <2>5, <2>6, <2>7 DEF OutputInv, InOrder, RetireStep
<1> QED
  BY <1>4, <1>5

LEMMA RetireJoinOutput ==
    ASSUME WorkerInv, WorkerInv', OutputInv, HandleInv, NEW i \in Retirers, RetireJoin(i)
    PROVE  OutputInv' /\ HandleInv'
<1> DEFINE p == retire[i].b
<1>1. /\ retire[i].pc = "join" /\ p \in Builds /\ Finished(p)
      /\ RetireStep /\ active' = active /\ Joined(retire[i])
  BY DEF RetireJoin, OutputInv, RetireOK, RetireStep
<1>2. \A b \in Builds : /\ Running(b)' = Running(b) /\ Reading(b)' = Reading(b)
                        /\ Finished(b)' = Finished(b)
  BY <1>1 DEF RetireStep, Running, Reading, Finished
<1>3. \A j \in Retirers : retire[j].pc # "idle" /\ retire[j].b = p /\ p \notin overrun => j = i
  BY <1>1 DEF OutputInv, RetireOK
<1>4. \A b \in Builds : spool'[b] = spool[b] \/ spool'[b] = << >>
  BY <1>1 DEF RetireJoin, WorkerInv, TypeOK
<1>5. /\ retire'[i].pc = "clear" /\ retire'[i].b = p
      /\ \A j \in Retirers : j # i => retire'[j] = retire[j]
  BY ZenonT(60) DEF RetireJoin, WorkerInv, TypeOK, RetireRecords
<1>6. (retire[i].task => streamer[p].pc = "done") /\ (retire[i].exec => proc[p] = "exited")
  BY <1>1 DEF Joined
<1> HIDE DEF p
<1>7. RetireOK'
  BY <1>1, <1>2, <1>5 DEF OutputInv, RetireOK, RetireStep, p
<1>8. \A b \in Builds \ overrun : SpoolOf(b)'
  BY <1>1, <1>4, SpoolKept, ZenonT(60) DEF OutputInv, SpoolOK, RetireStep
<1>9. \A b \in Builds \ overrun : OrderOf(b)'
  BY <1>1, <1>4, RetireOrder
<1>10. HandleInv'
  <2>1. ASSUME ~stopping, NEW b \in Builds \ overrun PROVE HandleOf(b)'
    <3>1. HandleOf(b) /\ ws' = ws
      BY <1>1, <2>1 DEF HandleInv, RetireStep
    <3>2. CASE b # p
      <4>1. \A j \in Retirers : /\ retire'[j].b = b => retire'[j] = retire[j]
                                /\ retire[j].b = b => retire'[j] = retire[j]
        BY <1>5, <3>2 DEF p
      <4> QED
        BY <1>1, <1>2, <3>1, <3>2, <4>1, ZenonT(60) DEF HandleOf
    <3>3. CASE b = p
      <4>1. active.b = p => ~active.exec /\ ~active.task
        BY <1>1, <3>1, <3>3, ZenonT(60) DEF HandleOf, p
      <4>2. \A j \in Retirers : retire[j].pc = "join" /\ retire[j].b = p => j = i
        BY <1>3, <2>1, <3>3
      <4>3. ~(ws.pc = "register" /\ ws.b = p)
        BY <1>1, <2>1, <3>3, NewNotRetired DEF NewPcs
      <4>4. ws.pc \in {"started", "mark", "attach_task"} => ws.b # p
        BY <1>1, <3>1, <3>3, ZenonT(60) DEF HandleOf
      <4>5. ~Running(p)
        <5>1. Running(p) => retire[i].exec
          BY <3>1, <3>3, <4>1, <4>2, <4>3, ZenonT(60) DEF HandleOf
        <5> QED
          BY <1>6, <5>1 DEF Running
      <4>6. ~Reading(p)
        <5>1. Reading(p) => retire[i].task
          BY <3>1, <3>3, <4>1, <4>2, <4>4, ZenonT(60) DEF HandleOf
        <5> QED
          BY <1>6, <5>1 DEF Reading
      <4> QED
        BY <1>1, <1>2, <3>1, <3>3, <4>1, <4>4, <4>5, <4>6, ZenonT(60) DEF HandleOf
    <3> QED
      BY <3>2, <3>3
  <2> QED
    BY <1>1, <2>1 DEF HandleInv, RetireStep
<1>11. Connected' /\ StreamOK' /\ SpoolOK'
  BY <1>1, <1>4, <1>8, RetireConnected, RetireStream, RetireSpool
<1> QED
  BY <1>1, <1>7, <1>9, <1>10, <1>11 DEF OutputInv, InOrder, RetireStep

LEMMA RetireClearOutput ==
    ASSUME WorkerInv, WorkerInv', OutputInv, HandleInv, NEW i \in Retirers, RetireClear(i)
    PROVE  OutputInv' /\ HandleInv'
<1> DEFINE p == retire[i].b
<1>1. /\ retire[i].pc = "clear" /\ p \in Builds /\ Finished(p)
      /\ RetireStep /\ spool' = spool
  BY DEF RetireClear, OutputInv, RetireOK, RetireStep
<1>2. \A b \in Builds : /\ Running(b)' = Running(b) /\ Reading(b)' = Reading(b)
                        /\ Finished(b)' = Finished(b)
  BY <1>1, ZenonT(60) DEF RetireStep, Running, Reading, Finished
<1>3. /\ active.b # p => active' = active
      /\ active.b = p => active'.b = None
  BY NoBuildType, ZenonT(60) DEF RetireClear
<1>4. /\ retire'[i].pc = "idle"
      /\ \A j \in Retirers : j # i => retire'[j] = retire[j]
  BY ZenonT(60) DEF RetireClear, NoRetire, WorkerInv, TypeOK
<1> HIDE DEF p
<1>5. RetireOK'
  BY <1>1, <1>2, <1>4 DEF OutputInv, RetireOK, RetireStep
<1>6. ASSUME NEW b \in Builds \ overrun PROVE SpoolOf(b)' /\ OrderOf(b)'
  <2>1. active'.b = b => active' = active
    BY <1>3, IdentityAssumption
  <2>2. SpoolOf(b)'
    BY <1>1, <2>1, SpoolKept, ZenonT(60) DEF OutputInv, SpoolOK, RetireStep
  <2>3. OrderOf(b)'
    BY <1>1, <2>1, RetireOrder
  <2> QED
    BY <2>2, <2>3
<1>7. HandleInv'
  <2>1. ASSUME ~stopping, NEW b \in Builds \ overrun PROVE HandleOf(b)'
    <3>1. HandleOf(b) /\ ws' = ws
      BY <1>1, <2>1 DEF HandleInv, RetireStep
    <3>2. \A j \in Retirers : /\ retire'[j].pc \in {"join", "clear"} => retire'[j] = retire[j]
                              /\ retire[j].pc = "join" => retire'[j] = retire[j]
      BY <1>1, <1>4
    <3>3. CASE b # p
      <4>1. active.b = b => active' = active
        BY <1>3, <3>3
      <4>2. active'.b = b => active' = active
        BY <1>3, IdentityAssumption
      <4> QED
        BY <1>2, <3>1, <3>2, <3>3, <4>1, <4>2, ZenonT(60) DEF HandleOf
    <3>4. CASE b = p
      <4>1. ~Running(p) /\ ~Reading(p)
        BY <1>1, <3>1, <3>4, ZenonT(60) DEF HandleOf, p
      <4>2. ws.pc \in {"started", "mark", "attach_task"} => ws.b # p
        BY <1>1, <3>1, <3>4, ZenonT(60) DEF HandleOf
      <4>3. active'.b = b => active' = active
        BY <1>3, IdentityAssumption
      <4> QED
        BY <1>2, <3>1, <3>2, <3>4, <4>1, <4>2, <4>3, ZenonT(60) DEF HandleOf
    <3> QED
      BY <3>3, <3>4
  <2> QED
    BY <1>1, <2>1 DEF HandleInv, RetireStep
<1>8. Connected' /\ StreamOK' /\ SpoolOK'
  BY <1>1, <1>3, <1>6, RetireConnected, RetireStream, RetireSpool
<1> QED
  BY <1>1, <1>5, <1>6, <1>7, <1>8 DEF OutputInv, InOrder, RetireStep

LEMMA ShutdownTakeOutput ==
    ASSUME WorkerInv, WorkerInv', OutputInv, HandleInv, ShutdownTake
    PROVE  OutputInv' /\ HandleInv'
<1>1. /\ ws.pc = "sd_take" /\ stopping /\ ws.todo = << >> /\ transport = "live"
      /\ UNCHANGED << spool, streamer, retire, stopping, woken, sent, overrun >>
  BY DEF ShutdownTake, OutputInv, HandleInv, Connected, SdPcs, LivePcs, DrainedPcs, TodoPcs,
     DrainPcs
<1>2. CASE active.b = None
  <2>1. Calm
    BY <1>1, <1>2, LeaveCalm DEF ShutdownTake, Alone
  <2> QED
    BY <2>1, CalmStep
<1>3. CASE active.b # None
  <2> DEFINE p == active.b
  <2>1. /\ ws'.pc = "sd_join" /\ ws'.b = p /\ ws'.todo = << >>
        /\ UNCHANGED << chan, transport >> /\ proc' = KillActive /\ active' = Released
    <3>1. ws' = [ws EXCEPT !.pc = "sd_join", !.b = active.b, !.task = active.task,
                           !.exec = active.exec, !.path = active.path]
      BY <1>3 DEF ShutdownTake
    <3>2. ws'.pc = "sd_join" /\ ws'.b = p /\ ws'.todo = ws.todo
      BY <3>1, ZenonT(60) DEF WorkerInv, TypeOK, WsRecords
    <3> QED
      BY <1>1, <1>3, <3>2 DEF ShutdownTake
  <2>2. /\ active'.b = p /\ ~active'.path
        /\ active'.pending = active.pending /\ active'.exhausted = active.exhausted
    BY <2>1, ZenonT(60) DEF Released, WorkerInv, TypeOK, ActiveRecords
  <2>3. Connected'
    BY <1>1, <2>1 DEF Connected, SdPcs, LivePcs, DrainedPcs, NewPcs, TodoPcs, DrainPcs
  <2>4. SpoolOK'
    <3>1. ASSUME NEW b \in Builds, SpoolOf(b) PROVE SpoolOf(b)'
      <4>1. Finished(b)' = Finished(b)
        BY <1>1 DEF Finished
      <4> QED
        BY <1>1, <2>1, <2>2, <3>1, <4>1, ZenonT(60) DEF SpoolOf
    <3> QED
      BY <1>1, <3>1 DEF OutputInv, SpoolOK
  <2>5. StreamOK'
    <3>1. ASSUME NEW b \in Builds PROVE StreamOf(b)'
      BY <1>1, <2>1, KillKeeps DEF OutputInv, StreamOK, StreamOf
    <3> QED
      BY <2>1, <3>1 DEF StreamOK, NewPcs
  <2>6. RetireOK'
    BY <1>1, RetireFrame
  <2>7. InOrder'
    <3>1. ASSUME NEW b \in Builds \ overrun PROVE OrderOf(b)'
      <4>1. Edge(b)' = Edge(b) /\ Edge(b) \in Nat
        BY <1>1, StageType DEF Edge
      <4> QED
        BY <1>1, <2>1, <2>2, <4>1, LoopOrder DEF OutputInv, InOrder
    <3> QED
      BY <1>1, <3>1 DEF InOrder
  <2>8. HandleInv'
    BY <1>1 DEF HandleInv
  <2> QED
    BY <2>3, <2>4, <2>5, <2>6, <2>7, <2>8 DEF OutputInv
<1> QED
  BY <1>2, <1>3

LEMMA ShutdownJoinOutput ==
    ASSUME WorkerInv, WorkerInv', OutputInv, HandleInv, ShutdownJoin
    PROVE  OutputInv' /\ HandleInv'
<1>1. /\ ws.pc = "sd_join" /\ stopping /\ ws.todo = << >> /\ transport = "live"
      /\ UNCHANGED << active, transport, chan, streamer, proc, retire, stopping, woken, sent,
           overrun >>
  BY DEF ShutdownJoin, OutputInv, HandleInv, Connected, SdPcs, LivePcs, DrainedPcs, TodoPcs,
     DrainPcs, build
<1>2. ws'.pc = "sd_clear" /\ ws'.b = ws.b /\ ws'.todo = ws.todo
  BY ZenonT(60) DEF ShutdownJoin, WorkerInv, TypeOK, WsRecords
<1>3. \A b \in Builds : spool'[b] = spool[b] \/ spool'[b] = << >>
  BY DEF ShutdownJoin, WorkerInv, TypeOK
<1>4. Connected'
  BY <1>1, <1>2 DEF Connected, SdPcs, LivePcs, DrainedPcs, NewPcs, TodoPcs, DrainPcs
<1>5. SpoolOK'
  <2>1. ASSUME NEW b \in Builds, SpoolOf(b) PROVE SpoolOf(b)'
    BY <1>1, <1>2, <1>3, <2>1, SpoolKept DEF DrainedPcs, SdPcs
  <2>2. \A b \in Builds : \A i \in DOMAIN spool'[b] : spool'[b][i].b = b /\ spool'[b][i].n # Fin
    BY <1>3 DEF OutputInv, SpoolOK
  <2> QED
    BY <1>1, <2>1, <2>2 DEF OutputInv, SpoolOK
<1>6. StreamOK'
  BY <1>1, <1>2, <1>3, StreamFrame DEF NewPcs
<1>7. RetireOK'
  BY <1>1, RetireFrame
<1>8. InOrder'
  <2>1. ASSUME NEW b \in Builds \ overrun PROVE OrderOf(b)'
    <3>1. Edge(b)' = Edge(b) /\ Edge(b) \in Nat
      BY <1>1, StageType DEF Edge
    <3> QED
      BY <1>1, <1>2, <1>3, <3>1, LoopOrder DEF OutputInv, InOrder
  <2> QED
    BY <1>1, <2>1 DEF InOrder
<1>9. HandleInv'
  BY <1>1 DEF HandleInv
<1> QED
  BY <1>4, <1>5, <1>6, <1>7, <1>8, <1>9 DEF OutputInv

LEMMA ShutdownClearOutput ==
    ASSUME WorkerInv, WorkerInv', OutputInv, HandleInv, ShutdownClear
    PROVE  OutputInv' /\ HandleInv'
<1>1. /\ ws.pc = "sd_clear" /\ stopping /\ ws.todo = << >>
      /\ UNCHANGED << spool, streamer, proc, retire, stopping, woken, sent, overrun >>
  BY DEF ShutdownClear, OutputInv, HandleInv, Connected, SdPcs, TodoPcs, DrainPcs, build
<1>2. ws'.pc = "detach" /\ ws'.todo = << >> /\ chan' = << >> /\ transport' # "live"
  BY DEF ShutdownClear, Leave, At
<1>3. active'.b \in Builds => active' = active /\ active.b # ws.b
  BY NoBuildType, IdentityAssumption DEF ShutdownClear
<1>4. Connected'
  BY <1>2 DEF Connected, SdPcs, LivePcs, DrainedPcs, NewPcs, TodoPcs, DrainPcs
<1>5. SpoolOK'
  <2>1. ASSUME NEW b \in Builds, SpoolOf(b) PROVE SpoolOf(b)'
    <3>1. Finished(b)' = Finished(b) /\ ws'.pc \notin DrainedPcs
      BY <1>1, <1>2 DEF Finished, DrainedPcs, NewPcs, SdPcs
    <3>2. DOMAIN << >> = {}
      OBVIOUS
    <3>3. SUFFICES ASSUME active'.b = b PROVE SpoolOf(b)'
      BY DEF SpoolOf
    <3>4. active' = active /\ active.b = b /\ ws.b # b
      BY <1>3, <3>3
    <3> QED
      BY <1>1, <1>2, <2>1, <3>1, <3>2, <3>4, ZenonT(60) DEF SpoolOf
  <2> QED
    BY <1>1, <2>1 DEF OutputInv, SpoolOK
<1>6. StreamOK'
  BY <1>1, <1>2, StreamFrame DEF NewPcs
<1>7. RetireOK'
  BY <1>1, RetireFrame
<1>8. InOrder'
  <2>1. ASSUME NEW b \in Builds \ overrun PROVE OrderOf(b)'
    <3>1. OrderOf(b) /\ Edge(b)' = Edge(b) /\ Edge(b) \in Nat
      BY <1>1, StageType DEF OutputInv, InOrder, Edge
    <3>2. LiveSpool(b)' = LiveSpool(b) \/ LiveSpool(b)' = << >>
      BY <1>1, <1>2, <1>3 DEF LiveSpool
    <3>3. Early(b)' = << >> /\ (Late(b)' = Late(b) \/ Late(b)' = << >>)
      BY <1>1, <1>2, <3>2 DEF Early, Late
    <3> QED
      BY <1>1, <1>2, <3>1, <3>3, OrderKept
  <2> QED
    BY <1>1, <2>1 DEF InOrder
<1>9. HandleInv'
  BY <1>1 DEF HandleInv
<1> QED
  BY <1>4, <1>5, <1>6, <1>7, <1>8, <1>9 DEF OutputInv

-----------------------------------------------------------------------------
(* The supervisor's lock *)

LEMMA LockKept ==
    ASSUME LockHeld, LockFree \/ active' = active, streamer' = streamer
    PROVE  LockHeld'
BY DEF LockHeld, LockFree

LEMMA HandledLock ==
    ASSUME WorkerInv, LockHeld, NEW p \in Builds, active'.b = active.b,
           NEW t, streamer' = [streamer EXCEPT ![p] = t],
           t.pc = "send" => active.b = p
    PROVE  LockHeld'
BY DEF LockHeld, WorkerInv, TypeOK

LEMMA LockSpool ==
    ASSUME WorkerInv, NEW p \in Builds, SpoolAndFinalize(InHand(p))
    PROVE  active'.b = active.b
<1>1. InHand(p) \in Messages
  BY DEF InHand, Messages, WorkerInv, TypeOK, StreamerRecords
<1> QED
  BY <1>1, SpoolEffect

LEMMA StreamingLock ==
    ASSUME WorkerInv, LockHeld, NEW p \in Builds, Streaming(p)
    PROVE  LockHeld'
<1> DEFINE s == streamer[p]
<1>1. s \in StreamerRecords
  BY DEF WorkerInv, TypeOK
<1>2. CASE StreamOutput(p)
  <2> DEFINE t == [pc |-> "have", n |-> s.made + 1, made |-> s.made + 1]
  <2>1. t.pc = "have"
    OBVIOUS
  <2>2. streamer' = [streamer EXCEPT ![p] = t] /\ active' = active
    BY <1>2 DEF StreamOutput, supervisor
  <2> HIDE DEF t
  <2> QED
    BY <2>1, <2>2, HandledLock, ZenonT(60)
<1>3. CASE StreamEnd(p)
  <2> DEFINE t == [s EXCEPT !.pc = "have", !.n = Fin]
  <2>1. t.pc = "have"
    BY <1>1 DEF StreamerRecords
  <2>2. streamer' = [streamer EXCEPT ![p] = t] /\ active' = active
    BY <1>3, ZenonT(60) DEF StreamEnd, supervisor
  <2> HIDE DEF t
  <2> QED
    BY <2>1, <2>2, HandledLock, ZenonT(60)
<1> DEFINE h == [s EXCEPT !.pc = IF s.n = Fin THEN "done" ELSE "read"]
<1>4. h.pc # "send" /\ Handled(p) = [streamer EXCEPT ![p] = h]
  BY <1>1, ZenonT(60) DEF StreamerRecords, Handled
<1> HIDE DEF h
<1>5. CASE OnOutputMessage(p) /\ streamer' = Handled(p)
  <2>1. active'.b = active.b
    BY <1>5, LockSpool DEF OnOutputMessage, supervisor
  <2> QED
    BY <1>4, <1>5, <2>1, HandledLock, ZenonT(60)
<1>6. CASE OutputSent(p)
  <2>1. active'.b = active.b /\ streamer' = Handled(p)
    BY <1>6, LockSpool DEF OutputSent, supervisor
  <2> QED
    BY <1>4, <2>1, HandledLock, ZenonT(60)
<1>7. CASE /\ active.b = p /\ streamer' = [streamer EXCEPT ![p].pc = "send"]
           /\ UNCHANGED << supervisor, chan, proc, overrun >>
  <2> DEFINE t == [s EXCEPT !.pc = "send"]
  <2>1. streamer' = [streamer EXCEPT ![p] = t] /\ active' = active
    BY <1>7 DEF supervisor
  <2> HIDE DEF t
  <2> QED
    BY <1>7, <2>1, HandledLock, ZenonT(60)
<1> QED
  BY <1>2, <1>3, <1>5, <1>6, <1>7 DEF Streaming, OnOutputMessage

LEMMA LockStep == ASSUME WorkerInv, LockHeld, [Next]_vars PROVE LockHeld'
<1>1. CASE UNCHANGED vars
  BY <1>1 DEF vars, LockHeld
<1>2. CASE Awaiting \/ Connecting
  <2>1. (LockFree \/ active' = active) /\ streamer' = streamer
    BY <1>2 DEF Awaiting, Connecting, Dial, WaitForWelcome, NewTarball, Connect, SendHello,
       AttachTransport, TakeReconnect, DrainSpool, RemoveSpool, SpoolDrained, SendStatus, Flush,
       Flushed, DetachTransport, Backoff, supervisor, build
  <2> QED
    BY <2>1, LockKept
<1>3. CASE MarkStarted
  BY <1>3 DEF MarkStarted, LockHeld, LockFree, WorkerInv, TypeOK, StreamerRecords
<1>4. CASE Dispatching /\ ~MarkStarted
  <2>1. (LockFree \/ active' = active) /\ streamer' = streamer
    BY <1>4 DEF Dispatching, NewCheck, SpawnBuild, RegisterAccepted, SendStarted,
       AttachOutputTask, OnBuildRevoke, build
  <2> QED
    BY <2>1, LockKept
<1>5. CASE Stopping \/ Receiving \/ ForwardOutput \/ Sample \/ Sigterm
  <2>1. (LockFree \/ active' = active) /\ streamer' = streamer
    BY <1>5, ZenonT(60) DEF Stopping, ShutdownNotified, ShutdownTake, ShutdownJoin, ShutdownClear, Receiving,
       ConnectionLost, ReceiveIgnored, ReceiveBuildNew, ReceiveBuildRevoke, ForwardOutput, Sample,
       Sigterm, supervisor, build
  <2> QED
    BY <2>1, LockKept
<1>6. CASE \E b \in Builds : ProcessExits(b)
  BY <1>6, LockKept DEF ProcessExits, supervisor
<1>7. CASE \E b \in Builds : Streaming(b)
  BY <1>7, StreamingLock
<1>8. CASE \E i \in Retirers : Retiring(i)
  <2>1. (LockFree \/ active' = active) /\ streamer' = streamer
    BY <1>8 DEF Retiring, RetireTake, RetireJoin, RetireClear
  <2> QED
    BY <2>1, LockKept
<1> QED
  BY <1>1, <1>2, <1>3, <1>4, <1>5, <1>6, <1>7, <1>8 DEF Next

-----------------------------------------------------------------------------
(* The invariant of the output and of the handles *)

OutputInvariant == WorkerInv /\ LockHeld /\ OutputInv /\ HandleInv

LEMMA OutputInit == ASSUME Init PROVE OutputInvariant
<1> USE DEF Init
<1>1. WorkerInv
  BY WorkerInit
<1>2. /\ ws.pc = "connect" /\ ws.todo = << >> /\ active.b = None
      /\ \A b \in Builds : streamer[b].pc = "none" /\ streamer[b].made = 0
      /\ \A i \in Retirers : retire[i].pc = "idle"
  BY DEF At, NoBuild, NoRetire
<1>3. LockHeld
  BY <1>2 DEF LockHeld
<1>4. Connected /\ StreamOK /\ RetireOK
  BY <1>2 DEF Connected, StreamOK, StreamOf, RetireOK, LivePcs, DrainedPcs, NewPcs, SdPcs,
     TodoPcs, DrainPcs
<1>5. SpoolOK
  <2>1. \A b \in Builds : SpoolOf(b)
    BY <1>2, IdentityAssumption DEF SpoolOf
  <2>2. \A b \in Builds : DOMAIN spool[b] = {}
    <3>1. DOMAIN << >> = {} /\ \A b \in Builds : spool[b] = << >>
      OBVIOUS
    <3> QED
      BY <3>1, ZenonT(60)
  <2> QED
    BY <2>1, <2>2 DEF SpoolOK
<1>6. InOrder
  <2>1. SUFFICES ASSUME NEW b \in Builds PROVE OrderOf(b)
    BY ZenonT(60) DEF InOrder
  <2>2. Early(b) = << >> /\ Late(b) = << >>
    BY <1>2, IdentityAssumption DEF Early, Late, LiveSpool
  <2>3. Wire(b) \in Seq(Frames) /\ DOMAIN Wire(b) = {}
    BY <1>1, WireType
  <2>4. Ascending(Wire(b), b) /\ Below(Wire(b), b, Edge(b))
    BY <2>3 DEF Ascending, Below
  <2>5. InLine(Wire(b), << >>, << >>, << >>, b, Edge(b))
    BY <2>3, <2>4, LineParts, EmptyType, EmptyParts, ZenonT(60)
  <2> QED
    BY <2>2, <2>5 DEF OrderOf
<1>7. HandleInv
  <2>1. ~woken /\ ~stopping /\ \A b \in Builds : ~Running(b) /\ ~Reading(b)
    BY <1>2 DEF Running, Reading
  <2> QED
    BY <1>2, <2>1, ZenonT(60) DEF HandleInv, HandleOf, SdPcs
<1> QED
  BY <1>1, <1>3, <1>4, <1>5, <1>6, <1>7 DEF OutputInvariant, OutputInv

LEMMA OutputStep ==
    ASSUME WorkerInv, WorkerInv', LockHeld, OutputInv, HandleInv, Next
    PROVE  OutputInv' /\ HandleInv'
<1>1. CASE Awaiting
  <2>1. Calm
    BY <1>1, DialCalm, WaitForWelcomeCalm, NewTarballCalm DEF Awaiting
  <2> QED
    BY <2>1, CalmStep
<1>2. CASE \/ Connect \/ SendHello \/ AttachTransport \/ SendStatus
           \/ Flushed \/ DetachTransport \/ Backoff
  <2>1. Calm
    BY <1>2, ConnectCalm, SendHelloCalm, AttachTransportCalm, SendStatusCalm, FlushedCalm,
       DetachTransportCalm, BackoffCalm
  <2> QED
    BY <2>1, CalmStep
<1>3. CASE TakeReconnect \/ DrainSpool \/ RemoveSpool \/ SpoolDrained \/ Flush
  BY <1>3, TakeReconnectOutput, DrainSpoolOutput, RemoveSpoolOutput, SpoolDrainedOutput,
     FlushOutput
<1>4. CASE NewCheck \/ SendStarted \/ ShutdownNotified \/ Receiving
  <2>1. Calm
    BY <1>4, NewCheckCalm, SendStartedCalm, ShutdownNotifiedCalm, ConnectionLostCalm,
       ReceiveIgnoredCalm, ReceiveBuildNewCalm, ReceiveBuildRevokeCalm DEF Receiving
  <2> QED
    BY <2>1, CalmStep
<1>5. CASE SpawnBuild \/ RegisterAccepted \/ MarkStarted \/ AttachOutputTask \/ OnBuildRevoke
  BY <1>5, SpawnBuildOutput, RegisterAcceptedOutput, MarkStartedOutput, AttachOutputTaskOutput,
     OnBuildRevokeOutput
<1>6. CASE ShutdownTake \/ ShutdownJoin \/ ShutdownClear
  BY <1>6, ShutdownTakeOutput, ShutdownJoinOutput, ShutdownClearOutput
<1>7. CASE ForwardOutput \/ Sample \/ Sigterm
  BY <1>7, ForwardOutputOutput, SampleOutput, SigtermOutput
<1>8. CASE \E b \in Builds : ProcessExits(b) \/ Streaming(b)
  BY <1>8, ProcessExitsOutput, StreamOutputOutput, StreamEndOutput, OnOutputMessageOutput,
     OutputSentOutput DEF Streaming
<1>9. CASE \E i \in Retirers : Retiring(i)
  BY <1>9, RetireTakeOutput, RetireJoinOutput, RetireClearOutput DEF Retiring
<1> QED
  BY <1>1, <1>2, <1>3, <1>4, <1>5, <1>6, <1>7, <1>8, <1>9 DEF Next, Connecting, Dispatching,
     Stopping

LEMMA OutputStutter == ASSUME OutputInv, HandleInv, UNCHANGED vars PROVE OutputInv' /\ HandleInv'
<1>1. UNCHANGED << active, transport, chan, spool, ws, streamer, proc, retire, stopping, woken,
        sent, overrun >>
  BY DEF vars
<1>2. Connected' /\ StreamOK' /\ RetireOK'
  BY <1>1, ZenonT(60) DEF OutputInv, Connected, StreamOK, StreamOf, RetireOK, Finished
<1>3. SpoolOK'
  <2>1. ASSUME NEW b \in Builds PROVE SpoolOf(b)' = SpoolOf(b)
    BY <1>1, ZenonT(60) DEF SpoolOf, Finished
  <2>2. \A b \in Builds : spool'[b] = spool[b]
    BY <1>1
  <2> QED
    BY <1>1, <2>1, <2>2, ZenonT(60) DEF OutputInv, SpoolOK
<1>4. InOrder'
  <2>1. ASSUME NEW b \in Builds PROVE OrderOf(b)' = OrderOf(b)
    <3>1. Wire(b)' = Wire(b)
      BY <1>1, ZenonT(60) DEF Wire
    <3>2. Early(b)' = Early(b) /\ Late(b)' = Late(b)
      BY <1>1, ZenonT(60) DEF Early, Late, LiveSpool
    <3>3. Edge(b)' = Edge(b)
      BY <1>1, ZenonT(60) DEF Edge
    <3> QED
      BY <1>1, <3>1, <3>2, <3>3, ZenonT(60) DEF OrderOf
  <2> QED
    BY <1>1, <2>1, ZenonT(60) DEF OutputInv, InOrder
<1>5. HandleInv'
  <2>1. ASSUME NEW b \in Builds PROVE HandleOf(b)' = HandleOf(b)
    BY <1>1, ZenonT(60) DEF HandleOf, Running, Reading, Finished
  <2> QED
    BY <1>1, <2>1, ZenonT(60) DEF HandleInv
<1> QED
  BY <1>2, <1>3, <1>4, <1>5 DEF OutputInv

\* Over the whole life of the worker, connections, losses of connections, spooling,
\* draining, retirement and shutdown included, the output of a build waits in order
\* on its way to the wire, and its subprocess and streamer are in somebody's hands.
THEOREM OutputInvariance == Spec => []OutputInvariant
<1>1. Init => OutputInvariant
  BY OutputInit
<1>2. OutputInvariant /\ [Next]_vars => OutputInvariant'
  <2>1. SUFFICES ASSUME OutputInvariant, [Next]_vars PROVE OutputInvariant'
    OBVIOUS
  <2>2. WorkerInv' /\ LockHeld'
    BY <2>1, WorkerStep, LockStep DEF OutputInvariant
  <2>3. OutputInv' /\ HandleInv'
    BY <2>1, <2>2, OutputStep, OutputStutter DEF OutputInvariant
  <2> QED
    BY <2>2, <2>3 DEF OutputInvariant
<1> QED
  BY <1>1, <1>2, PTL DEF Spec

LEMMA WireInOrder ==
    ASSUME WorkerInv, OutputInv, NEW b \in Builds \ overrun
    PROVE  /\ sent[b] \in Seq(0 .. MaxOutput)
           /\ \A i, j \in DOMAIN sent[b] : i < j => Rank(sent[b][i]) < Rank(sent[b][j])
<1>1. OrderOf(b)
  BY DEF OutputInv, InOrder
<1>2. Ascending(Wire(b), b)
  BY <1>1, StageType, LineParts DEF OrderOf
<1>3. /\ DOMAIN Wire(b) = DOMAIN sent[b]
      /\ \A i \in DOMAIN sent[b] : Wire(b)[i].b = b /\ Wire(b)[i].n = sent[b][i]
  BY WireType
<1> QED
  BY <1>2, <1>3 DEF Ascending, WorkerInv, TypeOK

\* However often the connection is lost, output of a build goes on the wire in the
\* order in which the streamer produced it, and nothing is replayed: what was
\* spooled is drained before what comes on the channel (take_reconnect_messages,
\* run_connection, spool_and_finalize).
THEOREM OutputOrderTheorem == Spec => []OutputOrder
<1>1. ASSUME OutputInvariant PROVE OutputOrder
  <2>1. SUFFICES ASSUME NEW b \in Builds \ overrun, NEW i \in DOMAIN sent[b],
                          NEW j \in DOMAIN sent[b],
                        i < j, sent[b][j] # Fin
                 PROVE  sent[b][i] < sent[b][j]
    BY DEF OutputOrder
  <2>2. sent[b] \in Seq(0 .. MaxOutput) /\ Rank(sent[b][i]) < Rank(sent[b][j])
    BY <1>1, <2>1, WireInOrder DEF OutputInvariant
  <2>3. sent[b][i] \in 0 .. MaxOutput /\ sent[b][j] \in 0 .. MaxOutput
    <3>1. i \in 1 .. Len(sent[b]) /\ j \in 1 .. Len(sent[b])
      BY <2>1, <2>2, SeqFacts
    <3> QED
      BY <2>2, <3>1, SeqFacts, ZenonT(60)
  <2> QED
    BY <2>1, <2>2, <2>3, BoundsAssumption DEF Rank
<1> QED
  BY <1>1, OutputInvariance, PTL

\* BuildFinished is the last message of a build on the wire and goes there once,
\* whether it came on the channel or waited in the record for a reconnect.
THEOREM TerminalLastTheorem == Spec => []TerminalLast
<1>1. ASSUME OutputInvariant PROVE TerminalLast
  <2>1. SUFFICES ASSUME NEW b \in Builds \ overrun, NEW i \in DOMAIN sent[b], sent[b][i] = Fin,
                        i # Len(sent[b])
                 PROVE  FALSE
    BY DEF TerminalLast
  <2> DEFINE j == Len(sent[b])
  <2>2. /\ sent[b] \in Seq(0 .. MaxOutput)
        /\ \A k, l \in DOMAIN sent[b] : k < l => Rank(sent[b][k]) < Rank(sent[b][l])
    BY <1>1, <2>1, WireInOrder DEF OutputInvariant
  <2>3. j \in DOMAIN sent[b] /\ i < j /\ sent[b][j] \in 0 .. MaxOutput
    <3>1. j \in Nat /\ DOMAIN sent[b] = 1 .. j /\ i \in 1 .. j
      BY <2>1, <2>2, SeqFacts
    <3>2. j \in 1 .. j /\ i < j
      BY <2>1, <3>1
    <3> QED
      BY <2>2, <3>1, <3>2, SeqFacts, ZenonT(60)
  <2>4. Rank(Fin) < Rank(sent[b][j])
    BY <2>1, <2>2, <2>3
  <2> QED
    BY <2>3, <2>4, BoundsAssumption DEF Rank
<1> QED
  BY <1>1, OutputInvariance, PTL

\* A worker whose record is empty runs no subprocess and streams no output: retire
\* awaits the streamer and the subprocess it took from the record before it clears
\* it, and handle_build_new registers what it spawned.
THEOREM QuietWhenFreeTheorem == Spec => []QuietWhenFree
<1>1. ASSUME OutputInvariant PROVE QuietWhenFree
  <2>1. SUFFICES ASSUME active.b = None, ~stopping, NEW b \in Builds \ overrun
                 PROVE  /\ proc[b] \in {"none", "exited"} \/ (ws.pc = "register" /\ ws.b = b)
                        /\ streamer[b].pc \in {"none", "done"}
    BY ZenonT(60) DEF QuietWhenFree
  <2>2. HandleOf(b) /\ active.b # b
    BY <1>1, <2>1, IdentityAssumption DEF OutputInvariant, HandleInv
  <2>3. (Running(b) => ws.pc = "register" /\ ws.b = b) /\ ~Reading(b)
    BY <2>2 DEF HandleOf
  <2>4. /\ proc[b] \in {"none", "running", "killed", "exited"}
        /\ streamer[b].pc \in {"none", "read", "have", "send", "done"}
    BY <1>1 DEF OutputInvariant, WorkerInv, TypeOK, StreamerRecords
  <2> QED
    BY <2>3, <2>4 DEF Running, Reading
<1> QED
  BY <1>1, OutputInvariance, PTL
=============================================================================
