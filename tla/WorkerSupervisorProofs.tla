----------------------- MODULE WorkerSupervisorProofs -----------------------
(***************************************************************************)
(* WorkerSupervisor, for every value of the constants: type correctness    *)
(* with the capacities of the outbound channel and the spool, and that a   *)
(* build is never registered on a busy worker.  RegisterNeverBusy is not   *)
(* inductive: handle_build_new checks for an active build some awaits      *)
(* before it registers its own.  WorkerInv keeps what the check found      *)
(* until the registration (StillFree).                                     *)
(*                                                                         *)
(* Then the invariants behind the order of a build's output and the end of *)
(* its subprocess, OutputInv and HandleInv, and the steps of the           *)
(* connection, from the reconnect report to a message on the wire, which   *)
(* keep them.  WorkerOutputProofs has the other steps and the theorems.    *)
(***************************************************************************)
EXTENDS WorkerSupervisor, TLAPS

\* Between the check and the registration no build becomes active.
StillFree == ws.pc \in {"new_tarball", "spawn", "register"} => active.b = None

\* The spool that is drained is that of a build.
DrainsBuild == ws.pc \in {"drain", "unlink"} => ws.b \in Builds

WorkerInv == TypeOK /\ StillFree /\ DrainsBuild

-----------------------------------------------------------------------------
(* The records and the helpers *)

LEMMA AtType ==
    ASSUME NEW pc \in WsPcs
    PROVE  At(pc) \in WsRecords /\ At(pc).pc = pc /\ At(pc).b = None
BY DEF At, WsRecords

LEMMA WsUpdate ==
    ASSUME NEW w \in WsRecords, NEW pc \in WsPcs
    PROVE  /\ [w EXCEPT !.pc = pc] \in WsRecords
           /\ [w EXCEPT !.pc = pc].pc = pc
           /\ [w EXCEPT !.pc = pc].b = w.b
BY DEF WsRecords

LEMMA NoBuildType == NoBuild \in ActiveRecords /\ NoBuild.b = None
BY BoundsAssumption DEF NoBuild, ActiveRecords, Phases

LEMMA LeaveInv ==
    ASSUME WorkerInv, Leave
    PROVE  /\ ws' \in WsRecords /\ ws'.pc = "detach"
           /\ chan' \in Seq(Frames) /\ Len(chan') <= ChanCap
           /\ transport' \in {"none", "live", "closed"}
BY AtType, BoundsAssumption DEF Leave, WorkerInv, TypeOK, WsPcs

LEMMA SendInv ==
    ASSUME WorkerInv, NEW next \in WsRecords, Send(next)
    PROVE  /\ ws' \in WsRecords /\ (ws' = next \/ ws'.pc = "detach")
           /\ chan' \in Seq(Frames) /\ Len(chan') <= ChanCap
           /\ transport' \in {"none", "live", "closed"}
BY LeaveInv DEF Send, WorkerInv, TypeOK

LEMMA KillActiveType ==
    ASSUME WorkerInv
    PROVE  KillActive \in [Builds -> {"none", "running", "killed", "exited"}]
BY ZenonT(60) DEF KillActive, Kill, WorkerInv, TypeOK

\* Sending a message keeps the types of the wire and of the retire tasks.
LEMMA OnWireType ==
    ASSUME WorkerInv, NEW m \in Frames, OnWire(m)
    PROVE  sent' \in [Builds -> Seq(0 .. MaxOutput)]
<1>1. CASE m = Metrics
  BY <1>1 DEF OnWire, WorkerInv, TypeOK
<1>2. CASE m # Metrics
  <2>1. m.b \in Builds /\ m.n \in 0 .. MaxOutput
    BY <1>2 DEF Frames, Messages
  <2>2. Append(sent[m.b], m.n) \in Seq(0 .. MaxOutput)
    BY <2>1 DEF WorkerInv, TypeOK
  <2> QED
    BY <1>2, <2>1, <2>2 DEF OnWire, WorkerInv, TypeOK
<1> QED
  BY <1>1, <1>2

LEMMA SpawnRetireType ==
    ASSUME WorkerInv, NEW m \in Frames, SpawnRetire(m)
    PROVE  retire' \in [Retirers -> RetireRecords]
<1>1. m.b \in Builds \union {None}
  BY DEF Frames, Messages, Metrics
<1>2. [NoRetire EXCEPT !.pc = "take", !.b = m.b] \in RetireRecords
  BY <1>1, ZenonT(60) DEF NoRetire, RetireRecords
<1> QED
  BY <1>2, ZenonT(60) DEF SpawnRetire, WorkerInv, TypeOK

-----------------------------------------------------------------------------
(* One lemma per action *)

LEMMA ConnectInv == ASSUME WorkerInv, Connect PROVE WorkerInv'
BY AtType DEF Connect, WorkerInv, TypeOK, StillFree, DrainsBuild, supervisor, build, WsPcs

LEMMA DialInv == ASSUME WorkerInv, Dial PROVE WorkerInv'
BY AtType DEF Dial, WorkerInv, TypeOK, StillFree, DrainsBuild, supervisor, build, WsPcs

LEMMA SendHelloInv == ASSUME WorkerInv, SendHello PROVE WorkerInv'
<1>1. At("welcome") \in WsRecords /\ At("welcome").pc = "welcome"
  BY AtType DEF WsPcs
<1> QED
  BY <1>1, SendInv DEF SendHello, WorkerInv, TypeOK, StillFree, DrainsBuild, build

LEMMA WaitForWelcomeInv == ASSUME WorkerInv, WaitForWelcome PROVE WorkerInv'
<1>1. At("attach") \in WsRecords /\ At("attach").pc = "attach"
  BY AtType DEF WsPcs
<1>2. Send(At("attach"))
  BY DEF WaitForWelcome, Send
<1> QED
  BY <1>1, <1>2, SendInv DEF WaitForWelcome, WorkerInv, TypeOK, StillFree, DrainsBuild, build

LEMMA AttachTransportInv == ASSUME WorkerInv, AttachTransport PROVE WorkerInv'
BY AtType, BoundsAssumption
   DEF AttachTransport, WorkerInv, TypeOK, StillFree, DrainsBuild, build, WsPcs

LEMMA TakeReconnectInv == ASSUME WorkerInv, TakeReconnect PROVE WorkerInv'
<1>1. CASE active.b = None
  BY <1>1, AtType DEF TakeReconnect, WorkerInv, TypeOK, StillFree, DrainsBuild, build, WsPcs
<1>2. CASE active.b # None
  <2>1. active \in ActiveRecords /\ active.b \in Builds
    BY <1>2 DEF WorkerInv, TypeOK, ActiveRecords
  <2>2. Reported \in ActiveRecords
    BY <2>1, ZenonT(60) DEF Reported, HasTerminal, ActiveRecords
  <2>3. [b |-> active.b, n |-> Fin] \in Messages
    BY <2>1, BoundsAssumption DEF Messages, Fin
  <2> DEFINE pc == IF active.path /\ active.bytes > 0 THEN "drain" ELSE "status"
             todo == IF HasTerminal THEN << [b |-> active.b, n |-> Fin] >> ELSE << >>
  <2>4. /\ pc \in {"drain", "status"} /\ todo \in Seq(Messages)
        /\ ws' = [At(pc) EXCEPT !.b = active.b, !.todo = todo]
    <3>1. todo \in Seq(Messages)
      BY <2>3
    <3>2. ws' = [At(pc) EXCEPT !.b = active.b, !.todo = todo]
      BY <1>2 DEF TakeReconnect
    <3> QED
      BY <3>1, <3>2
  <2> HIDE DEF pc, todo
  <2>5. ws' \in WsRecords /\ ws'.pc = pc /\ ws'.b = active.b
    BY <2>1, <2>4, ZenonT(60) DEF At, WsRecords, WsPcs
  <2>6. active' = Reported
    BY <1>2 DEF TakeReconnect
  <2> QED
    BY <2>1, <2>2, <2>4, <2>5, <2>6
       DEF TakeReconnect, WorkerInv, TypeOK, StillFree, DrainsBuild, build
<1> QED
  BY <1>1, <1>2

LEMMA DrainSpoolInv == ASSUME WorkerInv, DrainSpool PROVE WorkerInv'
<1>1. ws \in WsRecords /\ ws.b \in Builds /\ spool[ws.b] \in Seq(Messages)
  BY DEF DrainSpool, WorkerInv, TypeOK, DrainsBuild
<1>2. spool[ws.b] \o ws.todo \in Seq(Messages)
  BY <1>1 DEF WsRecords
<1>3. PICK todo \in Seq(Messages) : ws' = [ws EXCEPT !.pc = "unlink", !.todo = todo]
  <2>1. ws.todo \in Seq(Messages) /\ [ws EXCEPT !.pc = "unlink"] = [ws EXCEPT !.pc = "unlink",
          !.todo = ws.todo]
    BY <1>1, ZenonT(60) DEF WsRecords
  <2> QED
    BY <1>2, <2>1, ZenonT(60) DEF DrainSpool
<1>4. ws' \in WsRecords /\ ws'.pc = "unlink" /\ ws'.b = ws.b
  BY <1>1, <1>3, ZenonT(60) DEF WsRecords, WsPcs
<1>5. overrun' \subseteq Builds
  BY <1>1 DEF DrainSpool, WorkerInv, TypeOK
<1> QED
  BY <1>1, <1>4, <1>5 DEF DrainSpool, WorkerInv, TypeOK, StillFree, DrainsBuild, supervisor, build

LEMMA RemoveSpoolInv == ASSUME WorkerInv, RemoveSpool PROVE WorkerInv'
<1>1. ws' \in WsRecords /\ ws'.pc = "drained"
  BY WsUpdate, ZenonT(60) DEF RemoveSpool, WorkerInv, TypeOK, WsPcs
<1>2. overrun' \subseteq Builds
  BY DEF RemoveSpool, WorkerInv, TypeOK, DrainsBuild
<1>3. spool' \in [Builds -> Seq(Messages)]
  <2>1. RemovedFile(spool[ws.b]) \in Seq(Messages)
    BY DEF RemovedFile
  <2> QED
    BY <2>1, ZenonT(60) DEF RemoveSpool, WorkerInv, TypeOK
<1> QED
  BY <1>1, <1>2, <1>3 DEF RemoveSpool, WorkerInv, TypeOK, StillFree, DrainsBuild, build

LEMMA SpoolDrainedInv == ASSUME WorkerInv, SpoolDrained PROVE WorkerInv'
<1>1. ws' \in WsRecords /\ ws'.pc = "status"
  BY WsUpdate, ZenonT(60) DEF SpoolDrained, WorkerInv, TypeOK, WsPcs
<1>2. active' \in ActiveRecords
  <2>1. active \in ActiveRecords
    BY DEF WorkerInv, TypeOK
  <2>2. [active EXCEPT !.bytes = 0, !.path = FALSE] \in ActiveRecords
    <3>1. 0 \in 0 .. SpoolCap
      BY BoundsAssumption
    <3> QED
      BY <2>1, <3>1, ZenonT(60) DEF ActiveRecords
  <2> QED
    BY <2>1, <2>2 DEF SpoolDrained
<1> QED
  BY <1>1, <1>2 DEF SpoolDrained, WorkerInv, TypeOK, StillFree, DrainsBuild, build

LEMMA SendStatusInv == ASSUME WorkerInv, SendStatus PROVE WorkerInv'
<1> DEFINE next == [ws EXCEPT !.pc = "flush", !.b = None]
<1>1. next \in WsRecords /\ next.pc = "flush"
  BY ZenonT(60) DEF WorkerInv, TypeOK, WsRecords, WsPcs
<1>2. Send(next)
  BY DEF SendStatus
<1> HIDE DEF next
<1> QED
  BY <1>1, <1>2, SendInv, ZenonT(60) DEF SendStatus, WorkerInv, TypeOK, StillFree, DrainsBuild,
     build

LEMMA FlushInv == ASSUME WorkerInv, Flush PROVE WorkerInv'
<1>1. ws \in WsRecords /\ ws.todo \in Seq(Messages) /\ ws.todo # << >> /\ ws.pc = "flush"
  BY DEF Flush, WorkerInv, TypeOK, WsRecords
<1>2. Head(ws.todo) \in Frames /\ Tail(ws.todo) \in Seq(Messages)
  <2>1. Head(ws.todo) \in Messages /\ Tail(ws.todo) \in Seq(Messages)
    BY <1>1
  <2> QED BY <2>1 DEF Frames
<1>3. CASE Leave /\ UNCHANGED << sent, retire >>
  BY <1>3, LeaveInv DEF Flush, WorkerInv, TypeOK, StillFree, DrainsBuild
<1>4. CASE /\ ws' = [ws EXCEPT !.todo = Tail(@)]
           /\ OnWire(Head(ws.todo)) /\ SpawnRetire(Head(ws.todo))
           /\ UNCHANGED << chan, transport >>
  <2>1. ws' \in WsRecords /\ ws'.pc = "flush"
    BY <1>1, <1>2, <1>4, ZenonT(60) DEF WsRecords
  <2>2. sent' \in [Builds -> Seq(0 .. MaxOutput)]
    BY <1>2, <1>4, OnWireType
  <2>3. retire' \in [Retirers -> RetireRecords]
    BY <1>2, <1>4, SpawnRetireType
  <2> QED
    BY <1>4, <2>1, <2>2, <2>3 DEF Flush, WorkerInv, TypeOK, StillFree, DrainsBuild
<1> QED
  BY <1>3, <1>4 DEF Flush

LEMMA FlushedInv == ASSUME WorkerInv, Flushed PROVE WorkerInv'
BY AtType DEF Flushed, WorkerInv, TypeOK, StillFree, DrainsBuild, supervisor, build, WsPcs

LEMMA DetachTransportInv == ASSUME WorkerInv, DetachTransport PROVE WorkerInv'
BY AtType DEF DetachTransport, WorkerInv, TypeOK, StillFree, DrainsBuild, build, WsPcs

LEMMA BackoffInv == ASSUME WorkerInv, Backoff PROVE WorkerInv'
BY AtType, ZenonT(60) DEF Backoff, WorkerInv, TypeOK, StillFree, DrainsBuild, supervisor, build,
   WsPcs

LEMMA ReceiveBuildNewInv ==
    ASSUME WorkerInv, NEW b \in Builds, ReceiveBuildNew(b)
    PROVE  WorkerInv'
<1>1. ws' \in WsRecords /\ ws'.pc = "new_check"
  BY ZenonT(60) DEF ReceiveBuildNew, WorkerInv, TypeOK, WsRecords, WsPcs
<1> QED
  BY <1>1, ZenonT(60) DEF ReceiveBuildNew, WorkerInv, TypeOK, StillFree, DrainsBuild,
     supervisor, build

LEMMA ReceiveBuildRevokeInv ==
    ASSUME WorkerInv, NEW b \in Builds, ReceiveBuildRevoke(b)
    PROVE  WorkerInv'
<1>1. ws' \in WsRecords /\ ws'.pc = "revoke"
  BY ZenonT(60) DEF ReceiveBuildRevoke, WorkerInv, TypeOK, WsRecords, WsPcs
<1> QED
  BY <1>1, ZenonT(60) DEF ReceiveBuildRevoke, WorkerInv, TypeOK, StillFree, DrainsBuild,
     supervisor, build

LEMMA ReceiveIgnoredInv == ASSUME WorkerInv, ReceiveIgnored PROVE WorkerInv'
BY ZenonT(60) DEF ReceiveIgnored, WorkerInv, TypeOK, StillFree, DrainsBuild, supervisor, build

LEMMA ConnectionLostInv == ASSUME WorkerInv, ConnectionLost PROVE WorkerInv'
BY LeaveInv, ZenonT(60) DEF ConnectionLost, WorkerInv, TypeOK, StillFree, DrainsBuild, build

LEMMA ForwardOutputInv == ASSUME WorkerInv, ForwardOutput PROVE WorkerInv'
<1>1. chan \in Seq(Frames) /\ chan # << >> /\ Len(chan) <= ChanCap
  BY DEF ForwardOutput, WorkerInv, TypeOK
<1>2. /\ Head(chan) \in Frames /\ Tail(chan) \in Seq(Frames)
      /\ Len(Tail(chan)) <= ChanCap
  BY <1>1, BoundsAssumption
<1>3. CASE Leave /\ UNCHANGED << sent, retire >>
  BY <1>3, LeaveInv, ZenonT(60) DEF ForwardOutput, WorkerInv, TypeOK, StillFree, DrainsBuild
<1>4. CASE /\ chan' = Tail(chan)
           /\ OnWire(Head(chan)) /\ SpawnRetire(Head(chan))
           /\ UNCHANGED << ws, transport >>
  <2>1. sent' \in [Builds -> Seq(0 .. MaxOutput)]
    BY <1>2, <1>4, OnWireType
  <2>2. retire' \in [Retirers -> RetireRecords]
    BY <1>2, <1>4, SpawnRetireType
  <2> QED
    BY <1>2, <1>4, <2>1, <2>2, ZenonT(60) DEF ForwardOutput, WorkerInv, TypeOK, StillFree,
       DrainsBuild
<1> QED
  BY <1>3, <1>4 DEF ForwardOutput

LEMMA ShutdownNotifiedInv == ASSUME WorkerInv, ShutdownNotified PROVE WorkerInv'
BY AtType, ZenonT(60) DEF ShutdownNotified, WorkerInv, TypeOK, StillFree, DrainsBuild,
   supervisor, build, WsPcs

LEMMA NewCheckInv == ASSUME WorkerInv, NewCheck PROVE WorkerInv'
<1>1. At("loop") \in WsRecords /\ At("loop").pc = "loop"
  BY AtType DEF WsPcs
<1>2. CASE Busy
  BY <1>1, <1>2, SendInv, ZenonT(60) DEF NewCheck, WorkerInv, TypeOK, StillFree, DrainsBuild,
     build
<1>3. CASE ~Busy
  <2>1. ws' \in WsRecords /\ ws'.pc = "new_tarball"
    <3>1. ws' = [ws EXCEPT !.pc = "new_tarball"]
      BY <1>3 DEF NewCheck
    <3> QED
      BY <3>1, WsUpdate, ZenonT(60) DEF WorkerInv, TypeOK, WsPcs
  <2> QED
    BY <1>3, <2>1 DEF NewCheck, Busy, WorkerInv, TypeOK, StillFree, DrainsBuild, build
<1> QED
  BY <1>2, <1>3

LEMMA NewTarballInv == ASSUME WorkerInv, NewTarball PROVE WorkerInv'
<1>1. At("loop") \in WsRecords /\ At("loop").pc = "loop"
  BY AtType DEF WsPcs
<1> DEFINE next == [ws EXCEPT !.pc = "spawn"]
<1>2. next \in WsRecords /\ next.pc = "spawn"
  BY WsUpdate, ZenonT(60) DEF WorkerInv, TypeOK, WsPcs
<1>3. Send(next) \/ Send(At("loop"))
  BY DEF NewTarball
<1> HIDE DEF next
<1>4. CASE Send(next)
  BY <1>2, <1>4, SendInv, ZenonT(60) DEF NewTarball, WorkerInv, TypeOK, StillFree, DrainsBuild,
     build
<1>5. CASE Send(At("loop"))
  BY <1>1, <1>5, SendInv, ZenonT(60) DEF NewTarball, WorkerInv, TypeOK, StillFree, DrainsBuild,
     build
<1> QED
  BY <1>3, <1>4, <1>5

LEMMA SpawnBuildInv == ASSUME WorkerInv, SpawnBuild PROVE WorkerInv'
<1>1. At("loop") \in WsRecords /\ At("loop").pc = "loop"
  BY AtType DEF WsPcs
<1>2. CASE /\ proc' = [proc EXCEPT ![ws.b] = "running"]
           /\ ws' = [ws EXCEPT !.pc = "register"] /\ UNCHANGED << chan, transport >>
  <2>1. ws' \in WsRecords /\ ws'.pc = "register"
    BY <1>2, WsUpdate, ZenonT(60) DEF WorkerInv, TypeOK, WsPcs
  <2> QED
    BY <1>2, <2>1, ZenonT(60) DEF SpawnBuild, WorkerInv, TypeOK, StillFree, DrainsBuild
<1>3. CASE Send(At("loop")) /\ UNCHANGED proc
  BY <1>1, <1>3, SendInv DEF SpawnBuild, WorkerInv, TypeOK, StillFree, DrainsBuild
<1> QED
  BY <1>2, <1>3 DEF SpawnBuild, Spawned

LEMMA RegisterAcceptedInv == ASSUME WorkerInv, RegisterAccepted PROVE WorkerInv'
<1>1. active.b = None
  BY DEF RegisterAccepted, WorkerInv, StillFree
<1>2. ws \in WsRecords /\ ws.b \in Builds \union {None}
  BY DEF WorkerInv, TypeOK, WsRecords
<1>3. ws' \in WsRecords /\ ws'.pc = "started"
  <2>1. ws' = [ws EXCEPT !.pc = "started"]
    BY <1>1 DEF RegisterAccepted
  <2> QED
    BY <1>2, <2>1, WsUpdate, ZenonT(60) DEF WsPcs
<1>4. Accepted(ws.b) \in ActiveRecords
  <2>1. 0 \in 0 .. SpoolCap
    BY BoundsAssumption
  <2> QED
    BY <1>2, <2>1, ZenonT(60) DEF Accepted, NoBuild, ActiveRecords, Phases
<1> QED
  BY <1>1, <1>3, <1>4 DEF RegisterAccepted, WorkerInv, TypeOK, StillFree, DrainsBuild, build

LEMMA SendStartedInv == ASSUME WorkerInv, SendStarted PROVE WorkerInv'
<1> DEFINE next == [ws EXCEPT !.pc = "mark"]
<1>1. next \in WsRecords /\ next.pc = "mark"
  BY WsUpdate, ZenonT(60) DEF WorkerInv, TypeOK, WsPcs
<1>2. Send(next)
  BY DEF SendStarted
<1> HIDE DEF next
<1> QED
  BY <1>1, <1>2, SendInv, ZenonT(60) DEF SendStarted, WorkerInv, TypeOK, StillFree, DrainsBuild,
     build

LEMMA MarkStartedInv == ASSUME WorkerInv, MarkStarted PROVE WorkerInv'
<1>1. active \in ActiveRecords /\ ws \in WsRecords
  BY DEF WorkerInv, TypeOK
<1>2. [active EXCEPT !.phase = "started"] \in ActiveRecords
  BY <1>1, ZenonT(60) DEF ActiveRecords, Phases
<1>3. ws' \in WsRecords /\ ws'.pc = "attach_task"
  BY <1>1, WsUpdate, ZenonT(60) DEF MarkStarted, WsPcs
<1>4. streamer' \in [Builds -> StreamerRecords]
  <2>1. CASE ws.b \in Builds
    <3>1. [streamer[ws.b] EXCEPT !.pc = "read"] \in StreamerRecords
      BY <2>1, ZenonT(60) DEF WorkerInv, TypeOK, StreamerRecords
    <3>2. streamer' = [streamer EXCEPT ![ws.b] = [streamer[ws.b] EXCEPT !.pc = "read"]]
      BY DEF MarkStarted
    <3> QED
      BY <3>1, <3>2, ZenonT(60) DEF WorkerInv, TypeOK
  <2>2. CASE ws.b \notin Builds
    BY <2>2, ZenonT(60) DEF MarkStarted, WorkerInv, TypeOK
  <2> QED
    BY <2>1, <2>2
<1>5. active' \in ActiveRecords
  BY <1>1, <1>2 DEF MarkStarted, Started
<1> QED
  BY <1>3, <1>4, <1>5 DEF MarkStarted, WorkerInv, TypeOK, StillFree, DrainsBuild

LEMMA AttachOutputTaskInv == ASSUME WorkerInv, AttachOutputTask PROVE WorkerInv'
<1>1. active \in ActiveRecords /\ [active EXCEPT !.task = TRUE] \in ActiveRecords
  BY ZenonT(60) DEF WorkerInv, TypeOK, ActiveRecords
<1>2. active' \in ActiveRecords
  BY <1>1 DEF AttachOutputTask
<1>3. ws' \in WsRecords /\ ws'.pc = "loop"
  BY AtType DEF AttachOutputTask, WsPcs
<1> QED
  BY <1>2, <1>3 DEF AttachOutputTask, WorkerInv, TypeOK, StillFree, DrainsBuild, build

LEMMA OnBuildRevokeInv == ASSUME WorkerInv, OnBuildRevoke PROVE WorkerInv'
<1>1. At("loop") \in WsRecords /\ At("loop").pc = "loop"
  BY AtType DEF WsPcs
<1>2. CASE active.b = ws.b
  <2>1. Revoking \in ActiveRecords
    BY ZenonT(60) DEF Revoking, WorkerInv, TypeOK, ActiveRecords, Phases
  <2>2. active' \in ActiveRecords
    BY <1>2, <2>1 DEF OnBuildRevoke
  <2>3. proc' \in [Builds -> {"none", "running", "killed", "exited"}]
    BY <1>2, KillActiveType DEF OnBuildRevoke
  <2> QED
    BY <1>1, <1>2, <2>2, <2>3 DEF OnBuildRevoke, WorkerInv, TypeOK, StillFree, DrainsBuild
<1>3. CASE active.b # ws.b
  <2>1. Send(At("loop")) \/ (ws' = At("loop") /\ UNCHANGED << chan, transport >>)
    BY <1>3 DEF OnBuildRevoke
  <2>2. Send(At("loop"))
    BY <2>1 DEF Send
  <2> QED
    BY <1>1, <1>3, <2>2, SendInv DEF OnBuildRevoke, WorkerInv, TypeOK, StillFree, DrainsBuild
<1> QED
  BY <1>2, <1>3

LEMMA ProcessExitsInv ==
    ASSUME WorkerInv, NEW b \in Builds, ProcessExits(b)
    PROVE  WorkerInv'
BY DEF ProcessExits, WorkerInv, TypeOK, StillFree, DrainsBuild, supervisor

LEMMA StreamOutputInv ==
    ASSUME WorkerInv, NEW b \in Builds, StreamOutput(b)
    PROVE  WorkerInv'
<1>1. streamer[b] \in StreamerRecords
  BY DEF WorkerInv, TypeOK
<1>2. streamer[b].made + 1 \in 0 .. MaxOutput
  BY <1>1, BoundsAssumption DEF StreamOutput, StreamerRecords
<1> DEFINE k == streamer[b].made + 1
<1>3. streamer' = [streamer EXCEPT ![b] = [pc |-> "have", n |-> k, made |-> k]]
  BY DEF StreamOutput
<1>4. [pc |-> "have", n |-> k, made |-> k] \in StreamerRecords
  BY <1>2 DEF StreamerRecords
<1> HIDE DEF k
<1>5. streamer' \in [Builds -> StreamerRecords]
  BY <1>3, <1>4 DEF WorkerInv, TypeOK
<1> QED
  BY <1>5 DEF StreamOutput, WorkerInv, TypeOK, StillFree, DrainsBuild, supervisor

LEMMA StreamEndInv ==
    ASSUME WorkerInv, NEW b \in Builds, StreamEnd(b)
    PROVE  WorkerInv'
<1> DEFINE rec == [streamer[b] EXCEPT !.pc = "have", !.n = Fin]
<1>1. rec \in StreamerRecords
  <2>1. streamer[b] \in StreamerRecords /\ Fin \in 0 .. MaxOutput
    BY BoundsAssumption DEF WorkerInv, TypeOK, Fin
  <2> QED
    BY <2>1, ZenonT(60) DEF StreamerRecords
<1>2. streamer' = [streamer EXCEPT ![b] = rec]
  BY ZenonT(60) DEF StreamEnd, WorkerInv, TypeOK
<1> HIDE DEF rec
<1>3. streamer' \in [Builds -> StreamerRecords]
  BY <1>1, <1>2 DEF WorkerInv, TypeOK
<1> QED
  BY <1>3 DEF StreamEnd, WorkerInv, TypeOK, StillFree, DrainsBuild, supervisor

LEMMA HandledType ==
    ASSUME WorkerInv, NEW b \in Builds
    PROVE  /\ Handled(b) \in [Builds -> StreamerRecords]
           /\ InHand(b) \in Messages /\ InHand(b) \in Frames
<1>1. streamer[b] \in StreamerRecords
  BY DEF WorkerInv, TypeOK
<1>2. InHand(b) \in Messages /\ InHand(b) \in Frames
  BY <1>1 DEF InHand, StreamerRecords, Messages, Frames
<1> DEFINE pc == IF streamer[b].n = Fin THEN "done" ELSE "read"
           rec == [streamer[b] EXCEPT !.pc = pc]
<1>3. rec \in StreamerRecords
  BY <1>1 DEF StreamerRecords
<1>4. Handled(b) = [streamer EXCEPT ![b] = rec]
  BY DEF Handled
<1> HIDE DEF rec
<1>5. Handled(b) \in [Builds -> StreamerRecords]
  BY <1>3, <1>4 DEF WorkerInv, TypeOK
<1> QED
  BY <1>2, <1>5

\* What spool_and_finalize leaves of the record, the spool and the subprocess.
LEMMA SpoolAndFinalizeType ==
    ASSUME WorkerInv, NEW m \in Messages, SpoolAndFinalize(m)
    PROVE  /\ active' \in ActiveRecords /\ active'.b = active.b
           /\ spool' \in [Builds -> Seq(Messages)]
           /\ proc' \in [Builds -> {"none", "running", "killed", "exited"}]
           /\ overrun' \subseteq Builds
<1>1. active \in ActiveRecords /\ m.b \in Builds
  BY DEF WorkerInv, TypeOK, Messages
<1>2. TerminalPending \in ActiveRecords /\ TerminalPending.b = active.b
  BY <1>1, ZenonT(60) DEF TerminalPending, ActiveRecords, Phases
<1>3. CASE active.exhausted /\ UNCHANGED << active, spool, proc, overrun >>
  BY <1>3 DEF WorkerInv, TypeOK
<1>4. CASE active' = TerminalPending /\ UNCHANGED << spool, proc, overrun >>
  BY <1>2, <1>4 DEF WorkerInv, TypeOK
<1>5. CASE /\ active' = [TerminalPending EXCEPT !.exhausted = TRUE, !.path = @ \/ ~OverBudget]
           /\ proc' = KillActive
           /\ overrun' = overrun \union {m.b}
           /\ UNCHANGED spool
  <2>1. active' \in ActiveRecords /\ active'.b = active.b
    <3> DEFINE path == TerminalPending.path \/ ~OverBudget
    <3>1. path \in BOOLEAN
      OBVIOUS
    <3>2. active' = [TerminalPending EXCEPT !.exhausted = TRUE, !.path = path]
      BY <1>5
    <3> HIDE DEF path
    <3> QED
      BY <1>2, <3>1, <3>2, ZenonT(60) DEF ActiveRecords
  <2> QED
    BY <1>1, <1>5, <2>1, KillActiveType DEF WorkerInv, TypeOK
<1>6. CASE /\ ~OverBudget
           /\ active' = [active EXCEPT !.path = TRUE, !.bytes = @ + 1]
           /\ spool' = [spool EXCEPT ![m.b] = Append(@, m)]
           /\ UNCHANGED << proc, overrun >>
  <2>1. active.bytes + 1 \in 0 .. SpoolCap
    BY <1>1, <1>6, BoundsAssumption DEF OverBudget, ActiveRecords
  <2>2. active' \in ActiveRecords /\ active'.b = active.b
    BY <1>1, <1>6, <2>1, ZenonT(60) DEF ActiveRecords
  <2>3. Append(spool[m.b], m) \in Seq(Messages)
    BY <1>1 DEF WorkerInv, TypeOK
  <2> QED
    BY <1>1, <1>6, <2>2, <2>3 DEF WorkerInv, TypeOK
<1> QED
  BY <1>3, <1>4, <1>5, <1>6 DEF SpoolAndFinalize

LEMMA RoomForOne ==
    ASSUME WorkerInv, NEW m \in Frames, Len(chan) < ChanCap, chan' = Append(chan, m)
    PROVE  chan' \in Seq(Frames) /\ Len(chan') <= ChanCap
BY BoundsAssumption DEF WorkerInv, TypeOK

LEMMA SampleInv == ASSUME WorkerInv, Sample PROVE WorkerInv'
<1>1. Metrics \in Frames
  BY DEF Frames
<1>2. chan' \in Seq(Frames) /\ Len(chan') <= ChanCap
  BY <1>1, RoomForOne DEF Sample, SendOrCount, WorkerInv, TypeOK
<1> QED
  BY <1>2 DEF Sample, WorkerInv, TypeOK, StillFree, DrainsBuild, supervisor, build

LEMMA OnOutputMessageInv ==
    ASSUME WorkerInv, NEW b \in Builds, OnOutputMessage(b)
    PROVE  WorkerInv'
<1>1. UNCHANGED << ws, retire, stopping, woken, sent >>
  BY DEF OnOutputMessage
<1>2. CASE streamer' = Handled(b) /\ UNCHANGED << supervisor, chan, proc, overrun >>
  BY <1>1, <1>2, HandledType DEF WorkerInv, TypeOK, StillFree, DrainsBuild, supervisor
<1>3. CASE /\ Len(chan) < ChanCap /\ chan' = Append(chan, InHand(b))
           /\ streamer' = Handled(b) /\ UNCHANGED << supervisor, proc, overrun >>
  BY <1>1, <1>3, HandledType, RoomForOne DEF WorkerInv, TypeOK, StillFree, DrainsBuild, supervisor
<1>4. CASE /\ streamer' = [streamer EXCEPT ![b].pc = "send"]
           /\ UNCHANGED << supervisor, chan, proc, overrun >>
  <2> DEFINE rec == [streamer[b] EXCEPT !.pc = "send"]
  <2>1. rec \in StreamerRecords /\ streamer' = [streamer EXCEPT ![b] = rec]
    BY <1>4, ZenonT(60) DEF WorkerInv, TypeOK, StreamerRecords
  <2> HIDE DEF rec
  <2>2. streamer' \in [Builds -> StreamerRecords]
    BY <2>1 DEF WorkerInv, TypeOK
  <2> QED
    BY <1>1, <1>4, <2>2 DEF WorkerInv, TypeOK, StillFree, DrainsBuild, supervisor
<1>5. CASE /\ transport' = "none" /\ SpoolAndFinalize(InHand(b))
           /\ streamer' = Handled(b) /\ UNCHANGED chan
  BY <1>1, <1>5, HandledType, SpoolAndFinalizeType DEF WorkerInv, TypeOK, StillFree, DrainsBuild
<1> QED
  BY <1>2, <1>3, <1>4, <1>5 DEF OnOutputMessage

LEMMA OutputSentInv ==
    ASSUME WorkerInv, NEW b \in Builds, OutputSent(b)
    PROVE  WorkerInv'
<1>1. UNCHANGED << ws, retire, stopping, woken, sent >> /\ streamer' = Handled(b)
  BY DEF OutputSent
<1>2. CASE /\ Len(chan) < ChanCap /\ chan' = Append(chan, InHand(b))
           /\ UNCHANGED << supervisor, proc, overrun >>
  BY <1>1, <1>2, HandledType, RoomForOne DEF WorkerInv, TypeOK, StillFree, DrainsBuild, supervisor
<1>3. CASE transport' = "none" /\ SpoolAndFinalize(InHand(b)) /\ UNCHANGED chan
  BY <1>1, <1>3, HandledType, SpoolAndFinalizeType DEF WorkerInv, TypeOK, StillFree, DrainsBuild
<1> QED
  BY <1>2, <1>3 DEF OutputSent

LEMMA ReleasedType ==
    ASSUME WorkerInv
    PROVE  Released \in ActiveRecords /\ Released.b = active.b
BY ZenonT(60) DEF Released, WorkerInv, TypeOK, ActiveRecords

LEMMA NoRetireType == NoRetire \in RetireRecords
BY DEF NoRetire, RetireRecords

LEMMA RetireTakeInv ==
    ASSUME WorkerInv, NEW i \in Retirers, RetireTake(i)
    PROVE  WorkerInv'
<1>1. CASE active.b = retire[i].b
  <2> DEFINE rec == [retire[i] EXCEPT !.pc = "join", !.task = active.task,
                                      !.exec = active.exec, !.path = active.path]
  <2>1. rec \in RetireRecords
    <3>1. retire[i] \in RetireRecords /\ active \in ActiveRecords
      BY DEF WorkerInv, TypeOK
    <3>2. active.task \in BOOLEAN /\ active.exec \in BOOLEAN /\ active.path \in BOOLEAN
      BY <3>1, ZenonT(60) DEF ActiveRecords
    <3> QED
      BY <3>1, <3>2, ZenonT(60) DEF RetireRecords
  <2>2. retire' = [retire EXCEPT ![i] = rec]
    BY <1>1, ZenonT(60) DEF RetireTake, WorkerInv, TypeOK
  <2> HIDE DEF rec
  <2>3. retire' \in [Retirers -> RetireRecords]
    BY <2>1, <2>2 DEF WorkerInv, TypeOK
  <2> QED
    BY <1>1, <2>3, ReleasedType DEF RetireTake, WorkerInv, TypeOK, StillFree, DrainsBuild
<1>2. CASE active.b # retire[i].b
  BY <1>2, NoRetireType DEF RetireTake, WorkerInv, TypeOK, StillFree, DrainsBuild
<1> QED
  BY <1>1, <1>2

\* A task that ends a build removes its spool file.
LEMMA RetireJoinInv ==
    ASSUME WorkerInv, NEW i \in Retirers, RetireJoin(i)
    PROVE  WorkerInv'
<1> DEFINE rec == [retire[i] EXCEPT !.pc = "clear"]
<1>1. rec \in RetireRecords /\ retire' = [retire EXCEPT ![i] = rec]
  BY ZenonT(60) DEF RetireJoin, WorkerInv, TypeOK, RetireRecords
<1> HIDE DEF rec
<1>2. retire' \in [Retirers -> RetireRecords]
  BY <1>1 DEF WorkerInv, TypeOK
<1>3. spool' \in [Builds -> Seq(Messages)]
  <2>1. << >> \in Seq(Messages)
    OBVIOUS
  <2> QED
    BY <2>1, ZenonT(60) DEF RetireJoin, WorkerInv, TypeOK
<1> QED
  BY <1>2, <1>3 DEF RetireJoin, WorkerInv, TypeOK, StillFree, DrainsBuild

LEMMA RetireClearInv ==
    ASSUME WorkerInv, NEW i \in Retirers, RetireClear(i)
    PROVE  WorkerInv'
<1>1. active' \in ActiveRecords /\ (active'.b = active.b \/ active'.b = None)
  BY NoBuildType DEF RetireClear, WorkerInv, TypeOK
<1>2. retire' \in [Retirers -> RetireRecords]
  BY NoRetireType DEF RetireClear, WorkerInv, TypeOK
<1> QED
  BY <1>1, <1>2 DEF RetireClear, WorkerInv, TypeOK, StillFree, DrainsBuild

LEMMA ShutdownTakeInv == ASSUME WorkerInv, ShutdownTake PROVE WorkerInv'
<1>1. CASE active.b = None
  BY <1>1, LeaveInv DEF ShutdownTake, WorkerInv, TypeOK, StillFree, DrainsBuild
<1>2. CASE active.b # None
  <2>1. ws \in WsRecords /\ active \in ActiveRecords
    BY DEF WorkerInv, TypeOK
  <2>2. /\ active.task \in BOOLEAN /\ active.exec \in BOOLEAN /\ active.path \in BOOLEAN
        /\ active.b \in Builds \union {None}
    BY <2>1, ZenonT(60) DEF ActiveRecords
  <2>3. ws' = [ws EXCEPT !.pc = "sd_join", !.b = active.b, !.task = active.task,
                         !.exec = active.exec, !.path = active.path]
    BY <1>2 DEF ShutdownTake
  <2>4. ws' \in WsRecords /\ ws'.pc = "sd_join"
    BY <2>1, <2>2, <2>3, ZenonT(60) DEF WsRecords, WsPcs
  <2>5. active' = Released /\ proc' = KillActive /\ UNCHANGED << chan, transport >>
    BY <1>2 DEF ShutdownTake
  <2> QED
    BY <2>4, <2>5, ReleasedType, KillActiveType
       DEF ShutdownTake, WorkerInv, TypeOK, StillFree, DrainsBuild
<1> QED
  BY <1>1, <1>2

LEMMA ShutdownJoinInv == ASSUME WorkerInv, ShutdownJoin PROVE WorkerInv'
<1>1. ws' \in WsRecords /\ ws'.pc = "sd_clear"
  BY WsUpdate, ZenonT(60) DEF ShutdownJoin, WorkerInv, TypeOK, WsPcs
<1>2. spool' \in [Builds -> Seq(Messages)]
  <2>1. << >> \in Seq(Messages)
    OBVIOUS
  <2> QED
    BY <2>1, ZenonT(60) DEF ShutdownJoin, WorkerInv, TypeOK
<1> QED
  BY <1>1, <1>2 DEF ShutdownJoin, WorkerInv, TypeOK, StillFree, DrainsBuild, build

LEMMA ShutdownClearInv == ASSUME WorkerInv, ShutdownClear PROVE WorkerInv'
<1>1. active' \in ActiveRecords
  BY NoBuildType DEF ShutdownClear, WorkerInv, TypeOK
<1> QED
  BY <1>1, LeaveInv DEF ShutdownClear, WorkerInv, TypeOK, StillFree, DrainsBuild, build

LEMMA SigtermInv == ASSUME WorkerInv, Sigterm PROVE WorkerInv'
BY DEF Sigterm, WorkerInv, TypeOK, StillFree, DrainsBuild, supervisor, build

-----------------------------------------------------------------------------
LEMMA WorkerInit == Init => WorkerInv
<1> SUFFICES ASSUME Init PROVE WorkerInv
  OBVIOUS
<1>1. ws \in WsRecords /\ ws.pc = "connect"
  BY AtType DEF Init, WsPcs
<1>2. streamer \in [Builds -> StreamerRecords]
  <2>1. [pc |-> "none", n |-> 0, made |-> 0] \in StreamerRecords
    BY BoundsAssumption DEF StreamerRecords
  <2> QED
    BY <2>1 DEF Init
<1>3. /\ chan \in Seq(Frames) /\ Len(chan) <= ChanCap
      /\ spool \in [Builds -> Seq(Messages)]
      /\ sent \in [Builds -> Seq(0 .. MaxOutput)]
  BY BoundsAssumption DEF Init
<1> QED
  BY <1>1, <1>2, <1>3, NoBuildType, NoRetireType, ZenonT(60)
     DEF Init, WorkerInv, TypeOK, StillFree, DrainsBuild

LEMMA WorkerStep == ASSUME WorkerInv, [Next]_vars PROVE WorkerInv'
<1>1. CASE UNCHANGED vars
  BY <1>1 DEF vars, WorkerInv, TypeOK, StillFree, DrainsBuild
<1>2. CASE Awaiting \/ Connecting
  BY <1>2, DialInv, SendHelloInv, WaitForWelcomeInv, NewTarballInv, ConnectInv,
     AttachTransportInv, TakeReconnectInv,
     DrainSpoolInv, RemoveSpoolInv, SpoolDrainedInv, SendStatusInv, FlushInv, FlushedInv,
     DetachTransportInv, BackoffInv DEF Awaiting, Connecting
<1>3. CASE Dispatching \/ Stopping
  BY <1>3, NewCheckInv, SpawnBuildInv, RegisterAcceptedInv, SendStartedInv, MarkStartedInv,
     AttachOutputTaskInv, OnBuildRevokeInv, ShutdownNotifiedInv, ShutdownTakeInv,
     ShutdownJoinInv, ShutdownClearInv DEF Dispatching, Stopping
<1>4. CASE Receiving \/ ForwardOutput \/ Sample \/ Sigterm
  BY <1>4, ConnectionLostInv, ReceiveIgnoredInv, ReceiveBuildNewInv, ReceiveBuildRevokeInv,
     ForwardOutputInv,
     SampleInv, SigtermInv DEF Receiving
<1>5. CASE \E b \in Builds : ProcessExits(b) \/ Streaming(b)
  BY <1>5, ProcessExitsInv, StreamOutputInv, StreamEndInv, OnOutputMessageInv, OutputSentInv
     DEF Streaming
<1>6. CASE \E i \in Retirers : Retiring(i)
  BY <1>6, RetireTakeInv, RetireJoinInv, RetireClearInv DEF Retiring
<1> QED
  BY <1>1, <1>2, <1>3, <1>4, <1>5, <1>6 DEF Next

\* WorkerInv holds in every reachable state of the worker.
THEOREM WorkerInvariance == Spec => []WorkerInv
<1>1. Init => WorkerInv
  BY WorkerInit
<1>2. WorkerInv /\ [Next]_vars => WorkerInv'
  BY WorkerStep
<1> QED
  BY <1>1, <1>2, PTL DEF Spec

\* The record, the channel and the spool of the worker (supervisor.rs, handler.rs)
\* keep their types, and the channel and the spool their capacities.
THEOREM WorkerTypeCorrect == Spec => []TypeOK
<1>1. WorkerInv => TypeOK
  BY DEF WorkerInv
<1> QED
  BY <1>1, WorkerInvariance, PTL

\* handle_build_new never meets a busy supervisor at register_accepted, although
\* it made sure of that several awaits earlier.
THEOREM RegisterNeverBusyTheorem == Spec => []RegisterNeverBusy
<1>1. WorkerInv => RegisterNeverBusy
  BY DEF WorkerInv, StillFree, RegisterNeverBusy
<1> QED
  BY <1>1, WorkerInvariance, PTL
-----------------------------------------------------------------------------
(* Frames in order *)

\* BuildFinished comes after all output.
Rank(n) == IF n = Fin THEN MaxOutput + 1 ELSE n

\* The messages of build b in s are in the order of their production, none twice.
Ascending(s, b) ==
    \A i, j \in DOMAIN s :
      i < j /\ s[i].b = b /\ s[j].b = b => Rank(s[i].n) < Rank(s[j].n)

Below(s, b, k) == \A i \in DOMAIN s : s[i].b = b => Rank(s[i].n) < k
Above(s, b, k) == \A i \in DOMAIN s : s[i].b = b => k < Rank(s[i].n)

Precedes(s, t, b) ==
    \A i \in DOMAIN s, j \in DOMAIN t :
      s[i].b = b /\ t[j].b = b => Rank(s[i].n) < Rank(t[j].n)

LEMMA RankType ==
    ASSUME NEW m \in Frames
    PROVE  Rank(m.n) \in Nat /\ Rank(m.n) <= MaxOutput + 1
BY BoundsAssumption DEF Rank, Frames, Messages, Metrics, Fin

LEMMA JoinAscending ==
    ASSUME NEW s \in Seq(Frames), NEW t \in Seq(Frames), NEW b
    PROVE  Ascending(s \o t, b) <=> Ascending(s, b) /\ Ascending(t, b) /\ Precedes(s, t, b)
<1>1. ASSUME Ascending(s \o t, b)
      PROVE  Ascending(s, b) /\ Ascending(t, b) /\ Precedes(s, t, b)
  <2>1. Ascending(s, b)
    BY <1>1 DEF Ascending
  <2>2. Ascending(t, b)
    <3>1. SUFFICES ASSUME NEW i \in DOMAIN t, NEW j \in DOMAIN t, i < j, t[i].b = b, t[j].b = b
                   PROVE  Rank(t[i].n) < Rank(t[j].n)
      BY DEF Ascending
    <3>2. /\ Len(s) + i \in DOMAIN (s \o t) /\ Len(s) + j \in DOMAIN (s \o t)
          /\ Len(s) + i < Len(s) + j
          /\ (s \o t)[Len(s) + i] = t[i] /\ (s \o t)[Len(s) + j] = t[j]
      BY <3>1
    <3> QED
      BY <1>1, <3>1, <3>2 DEF Ascending
  <2>3. Precedes(s, t, b)
    <3>1. SUFFICES ASSUME NEW i \in DOMAIN s, NEW j \in DOMAIN t, s[i].b = b, t[j].b = b
                   PROVE  Rank(s[i].n) < Rank(t[j].n)
      BY DEF Precedes
    <3>2. /\ i \in DOMAIN (s \o t) /\ Len(s) + j \in DOMAIN (s \o t)
          /\ i < Len(s) + j
          /\ (s \o t)[i] = s[i] /\ (s \o t)[Len(s) + j] = t[j]
      BY <3>1
    <3> QED
      BY <1>1, <3>1, <3>2 DEF Ascending
  <2> QED
    BY <2>1, <2>2, <2>3
<1>2. ASSUME Ascending(s, b), Ascending(t, b), Precedes(s, t, b)
      PROVE  Ascending(s \o t, b)
  <2>1. SUFFICES ASSUME NEW i \in DOMAIN (s \o t), NEW j \in DOMAIN (s \o t), i < j,
                        (s \o t)[i].b = b, (s \o t)[j].b = b
                 PROVE  Rank((s \o t)[i].n) < Rank((s \o t)[j].n)
    BY DEF Ascending
  <2>2. CASE i \in DOMAIN s /\ j \in DOMAIN s
    BY <1>2, <2>1, <2>2 DEF Ascending
  <2>3. CASE i \in DOMAIN s /\ j \notin DOMAIN s
    <3>1. j - Len(s) \in DOMAIN t /\ (s \o t)[j] = t[j - Len(s)] /\ (s \o t)[i] = s[i]
      BY <2>1, <2>3
    <3> QED
      BY <1>2, <2>1, <2>3, <3>1 DEF Precedes
  <2>4. CASE i \notin DOMAIN s
    <3>1. /\ j - Len(s) \in DOMAIN t /\ (s \o t)[j] = t[j - Len(s)]
          /\ i - Len(s) \in DOMAIN t /\ (s \o t)[i] = t[i - Len(s)]
          /\ i - Len(s) < j - Len(s)
      BY <2>1, <2>4
    <3> QED
      BY <1>2, <2>1, <3>1 DEF Ascending
  <2> QED
    BY <2>1, <2>2, <2>3, <2>4
<1> QED
  BY <1>1, <1>2

LEMMA JoinElements ==
    ASSUME NEW s \in Seq(Frames), NEW t \in Seq(Frames)
    PROVE  /\ s \o t \in Seq(Frames)
           /\ \A i \in DOMAIN s : i \in DOMAIN (s \o t) /\ (s \o t)[i] = s[i]
           /\ \A i \in DOMAIN t : \E j \in DOMAIN (s \o t) : (s \o t)[j] = t[i]
           /\ \A i \in DOMAIN (s \o t) : \/ \E j \in DOMAIN s : (s \o t)[i] = s[j]
                                         \/ \E j \in DOMAIN t : (s \o t)[i] = t[j]
<1>1. s \o t \in Seq(Frames) /\ Len(s \o t) = Len(s) + Len(t)
  OBVIOUS
<1>2. \A i \in DOMAIN s : i \in DOMAIN (s \o t) /\ (s \o t)[i] = s[i]
  OBVIOUS
<1>3. ASSUME NEW i \in DOMAIN t PROVE \E j \in DOMAIN (s \o t) : (s \o t)[j] = t[i]
  <2>1. Len(s) + i \in DOMAIN (s \o t) /\ (s \o t)[Len(s) + i] = t[i]
    OBVIOUS
  <2> QED
    BY <2>1
<1>4. ASSUME NEW i \in DOMAIN (s \o t)
      PROVE  \/ \E j \in DOMAIN s : (s \o t)[i] = s[j]
             \/ \E j \in DOMAIN t : (s \o t)[i] = t[j]
  <2>1. CASE i \in DOMAIN s
    BY <1>2, <2>1
  <2>2. CASE i \notin DOMAIN s
    <3>1. i - Len(s) \in DOMAIN t /\ (s \o t)[i] = t[i - Len(s)]
      BY <2>2
    <3> QED
      BY <3>1
  <2> QED
    BY <2>1, <2>2
<1> QED
  BY <1>1, <1>2, <1>3, <1>4

LEMMA JoinBounds ==
    ASSUME NEW s \in Seq(Frames), NEW t \in Seq(Frames), NEW u \in Seq(Frames), NEW b, NEW k
    PROVE  /\ Below(s \o t, b, k) <=> Below(s, b, k) /\ Below(t, b, k)
           /\ Precedes(s \o t, u, b) <=> Precedes(s, u, b) /\ Precedes(t, u, b)
           /\ Precedes(u, s \o t, b) <=> Precedes(u, s, b) /\ Precedes(u, t, b)
<1> DEFINE r == s \o t
<1>1. /\ \A i \in DOMAIN s : i \in DOMAIN r /\ r[i] = s[i]
      /\ \A i \in DOMAIN t : \E j \in DOMAIN r : r[j] = t[i]
      /\ \A i \in DOMAIN r : (\E j \in DOMAIN s : r[i] = s[j]) \/ \E j \in DOMAIN t : r[i] = t[j]
  BY JoinElements, ZenonT(60)
<1> HIDE DEF r
<1>2. Below(r, b, k) <=> Below(s, b, k) /\ Below(t, b, k)
  BY <1>1 DEF Below
<1>3. Precedes(r, u, b) <=> Precedes(s, u, b) /\ Precedes(t, u, b)
  BY <1>1 DEF Precedes
<1>4. Precedes(u, r, b) <=> Precedes(u, s, b) /\ Precedes(u, t, b)
  BY <1>1 DEF Precedes
<1> QED
  BY <1>2, <1>3, <1>4 DEF r

LEMMA EmptyType == << >> \in Seq(Frames)
OBVIOUS

LEMMA EmptyParts ==
    ASSUME NEW s, NEW b, NEW k
    PROVE  /\ Ascending(<< >>, b) /\ Below(<< >>, b, k)
           /\ Precedes(<< >>, s, b) /\ Precedes(s, << >>, b)
BY DEF Ascending, Below, Precedes

LEMMA AppendParts ==
    ASSUME NEW s \in Seq(Frames), NEW m \in Frames, NEW t \in Seq(Frames), NEW b, NEW k
    PROVE  /\ Append(s, m) \in Seq(Frames)
           /\ Ascending(s, b) /\ (m.b = b => Below(s, b, Rank(m.n))) => Ascending(Append(s, m), b)
           /\ Below(s, b, k) /\ (m.b = b => Rank(m.n) < k) => Below(Append(s, m), b, k)
           /\ Precedes(s, t, b) /\ (m.b = b => Above(t, b, Rank(m.n))) => Precedes(Append(s, m),
                t, b)
           /\ Precedes(t, s, b) /\ (m.b = b => Below(t, b, Rank(m.n))) => Precedes(t, Append(s,
                m), b)
<1> DEFINE r == Append(s, m)
<1>1. /\ r \in Seq(Frames) /\ DOMAIN r = 1 .. Len(s) + 1 /\ DOMAIN s = 1 .. Len(s)
           /\ Len(s) \in Nat
      /\ \A i \in 1 .. Len(s) : r[i] = s[i]
      /\ r[Len(s) + 1] = m
  OBVIOUS
<1> HIDE DEF r
<1>2. \A i \in DOMAIN r : (i \in DOMAIN s /\ r[i] = s[i]) \/ (i = Len(s) + 1 /\ r[i] = m)
  BY <1>1
<1>3. Ascending(s, b) /\ (m.b = b => Below(s, b, Rank(m.n))) => Ascending(r, b)
  BY <1>1, <1>2 DEF Ascending, Below
<1>4. Below(s, b, k) /\ (m.b = b => Rank(m.n) < k) => Below(r, b, k)
  BY <1>2 DEF Below
<1>5. Precedes(s, t, b) /\ (m.b = b => Above(t, b, Rank(m.n))) => Precedes(r, t, b)
  BY <1>2 DEF Precedes, Above
<1>6. Precedes(t, s, b) /\ (m.b = b => Below(t, b, Rank(m.n))) => Precedes(t, r, b)
  BY <1>2 DEF Precedes, Below
<1> QED
  BY <1>1, <1>3, <1>4, <1>5, <1>6 DEF r

LEMMA TailParts ==
    ASSUME NEW s \in Seq(Frames), s # << >>, NEW t \in Seq(Frames), NEW b, NEW k
    PROVE  /\ Tail(s) \in Seq(Frames) /\ Head(s) \in Frames
           /\ Ascending(s, b) => /\ Ascending(Tail(s), b)
                                 /\ Head(s).b = b => Above(Tail(s), b, Rank(Head(s).n))
           /\ Below(s, b, k) => Below(Tail(s), b, k) /\ (Head(s).b = b => Rank(Head(s).n) < k)
           /\ Precedes(s, t, b) => /\ Precedes(Tail(s), t, b)
                                   /\ Head(s).b = b => Above(t, b, Rank(Head(s).n))
           /\ Precedes(t, s, b) => /\ Precedes(t, Tail(s), b)
                                   /\ Head(s).b = b => Below(t, b, Rank(Head(s).n))
<1> DEFINE r == Tail(s)
           h == Head(s)
<1>1. /\ r \in Seq(Frames) /\ h \in Frames /\ 1 \in DOMAIN s /\ s[1] = h
      /\ \A i \in DOMAIN r : i \in Nat /\ i + 1 \in DOMAIN s /\ 1 < i + 1 /\ r[i] = s[i + 1]
  OBVIOUS
<1> HIDE DEF r, h
<1>2. Ascending(s, b) => Ascending(r, b) /\ (h.b = b => Above(r, b, Rank(h.n)))
  <2>1. ASSUME Ascending(s, b), NEW i \in DOMAIN r, NEW j \in DOMAIN r, i < j,
               r[i].b = b, r[j].b = b
        PROVE  Rank(r[i].n) < Rank(r[j].n)
    <3>1. i + 1 < j + 1 /\ i + 1 \in DOMAIN s /\ j + 1 \in DOMAIN s
      BY <1>1, <2>1
    <3> QED
      BY <1>1, <2>1, <3>1 DEF Ascending
  <2>2. ASSUME Ascending(s, b), NEW i \in DOMAIN r, h.b = b, r[i].b = b
        PROVE  Rank(h.n) < Rank(r[i].n)
    BY <1>1, <2>2 DEF Ascending
  <2> QED
    BY <2>1, <2>2 DEF Ascending, Above
<1>3. Below(s, b, k) => Below(r, b, k) /\ (h.b = b => Rank(h.n) < k)
  BY <1>1 DEF Below
<1>4. Precedes(s, t, b) => Precedes(r, t, b) /\ (h.b = b => Above(t, b, Rank(h.n)))
  BY <1>1 DEF Precedes, Above
<1>5. Precedes(t, s, b) => Precedes(t, r, b) /\ (h.b = b => Below(t, b, Rank(h.n)))
  BY <1>1 DEF Precedes, Below
<1> QED
  BY <1>1, <1>2, <1>3, <1>4, <1>5 DEF r, h

\* A lower bound of what comes next bounds what is there.
LEMMA BelowWeaken ==
    ASSUME NEW s \in Seq(Frames), NEW b, NEW k \in Nat, NEW l \in Nat, k <= l, Below(s, b, k)
    PROVE  Below(s, b, l)
<1>1. \A i \in DOMAIN s : Rank(s[i].n) \in Nat
  BY RankType
<1> QED
  BY <1>1 DEF Below

-----------------------------------------------------------------------------
(* Four stages of a build's output *)

\* Stages w, h, t and c, the first nearest to the wire, hold the output of b in
\* order, and what is produced next has rank k or more.
InLine(w, h, t, c, b, k) ==
    Ascending(w \o h \o t \o c, b) /\ Below(w \o h \o t \o c, b, k)

LEMMA LineParts ==
    ASSUME NEW w \in Seq(Frames), NEW h \in Seq(Frames), NEW t \in Seq(Frames),
           NEW c \in Seq(Frames), NEW b, NEW k
    PROVE  InLine(w, h, t, c, b, k) <=>
             /\ Ascending(w, b) /\ Ascending(h, b) /\ Ascending(t, b) /\ Ascending(c, b)
             /\ Precedes(w, h, b) /\ Precedes(w, t, b) /\ Precedes(w, c, b)
             /\ Precedes(h, t, b) /\ Precedes(h, c, b) /\ Precedes(t, c, b)
             /\ Below(w, b, k) /\ Below(h, b, k) /\ Below(t, b, k) /\ Below(c, b, k)
<1> DEFINE wh == w \o h
           wht == wh \o t
<1>1. wh \in Seq(Frames)
  OBVIOUS
<1>2. /\ Ascending(wh, b) <=> Ascending(w, b) /\ Ascending(h, b) /\ Precedes(w, h, b)
      /\ Below(wh, b, k) <=> Below(w, b, k) /\ Below(h, b, k)
      /\ Precedes(wh, t, b) <=> Precedes(w, t, b) /\ Precedes(h, t, b)
      /\ Precedes(wh, c, b) <=> Precedes(w, c, b) /\ Precedes(h, c, b)
  BY JoinAscending, JoinBounds
<1> HIDE DEF wh
<1>3. wht \in Seq(Frames)
  BY <1>1
<1>4. /\ Ascending(wht, b) <=> Ascending(wh, b) /\ Ascending(t, b) /\ Precedes(wh, t, b)
      /\ Below(wht, b, k) <=> Below(wh, b, k) /\ Below(t, b, k)
      /\ Precedes(wht, c, b) <=> Precedes(wh, c, b) /\ Precedes(t, c, b)
  BY <1>1, JoinAscending, JoinBounds, ZenonT(60)
<1> HIDE DEF wht
<1>5. /\ Ascending(wht \o c, b) <=> Ascending(wht, b) /\ Ascending(c, b) /\ Precedes(wht, c, b)
      /\ Below(wht \o c, b, k) <=> Below(wht, b, k) /\ Below(c, b, k)
  BY <1>3, JoinAscending, JoinBounds
<1>6. InLine(w, h, t, c, b, k) <=> Ascending(wht \o c, b) /\ Below(wht \o c, b, k)
  BY DEF InLine, wht, wh
<1> QED
  BY <1>2, <1>4, <1>5, <1>6

\* Messages may be dropped and the bound raised.
LEMMA LineDrop ==
    ASSUME NEW w \in Seq(Frames), NEW h \in Seq(Frames), NEW t \in Seq(Frames),
           NEW c \in Seq(Frames), NEW b, NEW k \in Nat, InLine(w, h, t, c, b, k),
           NEW l \in Nat, k <= l,
           NEW h1, h1 = h \/ h1 = << >>, NEW t1, t1 = t \/ t1 = << >>,
           NEW c1, c1 = c \/ c1 = << >>
    PROVE  InLine(w, h1, t1, c1, b, l)
<1>0. /\ Ascending(w, b) /\ Ascending(h, b) /\ Ascending(t, b) /\ Ascending(c, b)
      /\ Precedes(w, h, b) /\ Precedes(w, t, b) /\ Precedes(w, c, b)
      /\ Precedes(h, t, b) /\ Precedes(h, c, b) /\ Precedes(t, c, b)
      /\ Below(w, b, k) /\ Below(h, b, k) /\ Below(t, b, k) /\ Below(c, b, k)
  BY LineParts
<1>1. << >> \in Seq(Frames) /\ h1 \in Seq(Frames) /\ t1 \in Seq(Frames) /\ c1 \in Seq(Frames)
  BY EmptyType, ZenonT(60)
<1>2. /\ Ascending(w, b) /\ Ascending(h1, b) /\ Ascending(t1, b) /\ Ascending(c1, b)
      /\ Precedes(w, h1, b) /\ Precedes(w, t1, b) /\ Precedes(w, c1, b)
      /\ Precedes(h1, t1, b) /\ Precedes(h1, c1, b) /\ Precedes(t1, c1, b)
      /\ Below(w, b, k) /\ Below(h1, b, k) /\ Below(t1, b, k) /\ Below(c1, b, k)
  BY <1>0, EmptyParts, ZenonT(60)
<1>3. Below(w, b, l) /\ Below(h1, b, l) /\ Below(t1, b, l) /\ Below(c1, b, l)
  BY <1>1, <1>2, BelowWeaken
<1> QED
  BY <1>1, <1>2, <1>3, LineParts

\* The next message of b, or a message of no interest to b, joins the last stage.
LEMMA LineProduce ==
    ASSUME NEW w \in Seq(Frames), NEW h \in Seq(Frames), NEW t \in Seq(Frames),
           NEW c \in Seq(Frames), NEW b, NEW k \in Nat, InLine(w, h, t, c, b, k),
           NEW m \in Frames, NEW l \in Nat, k <= l,
           m.b = b => k <= Rank(m.n) /\ Rank(m.n) < l
    PROVE  InLine(w, h, t, Append(c, m), b, l)
<1>1. /\ Ascending(w, b) /\ Ascending(h, b) /\ Ascending(t, b) /\ Ascending(c, b)
      /\ Precedes(w, h, b) /\ Precedes(w, t, b) /\ Precedes(w, c, b)
      /\ Precedes(h, t, b) /\ Precedes(h, c, b) /\ Precedes(t, c, b)
      /\ Below(w, b, k) /\ Below(h, b, k) /\ Below(t, b, k) /\ Below(c, b, k)
  BY LineParts
<1>2. Below(w, b, l) /\ Below(h, b, l) /\ Below(t, b, l) /\ Below(c, b, l)
  BY <1>1, BelowWeaken
<1>3. m.b = b => /\ Below(w, b, Rank(m.n)) /\ Below(h, b, Rank(m.n))
                 /\ Below(t, b, Rank(m.n)) /\ Below(c, b, Rank(m.n))
  BY <1>1, BelowWeaken, RankType
<1>4. /\ Append(c, m) \in Seq(Frames) /\ Ascending(Append(c, m), b) /\ Below(Append(c, m), b, l)
      /\ Precedes(w, Append(c, m), b) /\ Precedes(h, Append(c, m), b)
      /\ Precedes(t, Append(c, m), b)
  BY <1>1, <1>2, <1>3, AppendParts
<1> QED
  BY <1>1, <1>2, <1>4, LineParts, ZenonT(60)

\* The head of the stage nearest to the wire is put on the wire.
LEMMA LineForward ==
    ASSUME NEW w \in Seq(Frames), NEW h \in Seq(Frames), h # << >>, NEW c \in Seq(Frames),
           NEW b, NEW k, InLine(w, h, << >>, c, b, k)
    PROVE  /\ Head(h).b = b => InLine(Append(w, Head(h)), Tail(h), << >>, c, b, k)
           /\ Head(h).b # b => InLine(w, Tail(h), << >>, c, b, k)
<1> DEFINE m == Head(h)
           r == Tail(h)
<1>1. /\ Ascending(w, b) /\ Ascending(h, b) /\ Ascending(c, b)
      /\ Precedes(w, h, b) /\ Precedes(w, c, b) /\ Precedes(h, c, b)
      /\ Below(w, b, k) /\ Below(h, b, k) /\ Below(c, b, k)
  BY LineParts, EmptyType, ZenonT(60)
<1>2. /\ r \in Seq(Frames) /\ m \in Frames
      /\ Ascending(r, b) /\ Below(r, b, k) /\ Precedes(w, r, b) /\ Precedes(r, c, b)
      /\ m.b = b => /\ Above(r, b, Rank(m.n)) /\ Rank(m.n) < k
                    /\ Below(w, b, Rank(m.n)) /\ Above(c, b, Rank(m.n))
  BY <1>1, TailParts
<1> HIDE DEF m, r
<1>3. m.b = b => /\ Append(w, m) \in Seq(Frames)
                 /\ Ascending(Append(w, m), b) /\ Below(Append(w, m), b, k)
                 /\ Precedes(Append(w, m), r, b) /\ Precedes(Append(w, m), c, b)
  BY <1>1, <1>2, AppendParts
<1>4. m.b = b => InLine(Append(w, m), r, << >>, c, b, k)
  BY <1>1, <1>2, <1>3, LineParts, EmptyType, EmptyParts, ZenonT(60)
<1>5. m.b # b => InLine(w, r, << >>, c, b, k)
  BY <1>1, <1>2, LineParts, EmptyType, EmptyParts, ZenonT(60)
<1> QED
  BY <1>4, <1>5 DEF m, r

\* An empty stage between two others may be left out.
LEMMA LineShift ==
    ASSUME NEW w \in Seq(Frames), NEW s \in Seq(Frames), NEW b, NEW k
    PROVE  /\ InLine(w, << >>, << >>, s, b, k) <=> InLine(w, s, << >>, << >>, b, k)
           /\ InLine(w, << >>, s, << >>, b, k) <=> InLine(w, << >>, << >>, s, b, k)
BY LineParts, EmptyType, EmptyParts, ZenonT(60)

\* Two stages become one.
LEMMA LineMerge ==
    ASSUME NEW w \in Seq(Frames), NEW h \in Seq(Frames), NEW t \in Seq(Frames),
           NEW c \in Seq(Frames), NEW b, NEW k, InLine(w, h, t, c, b, k)
    PROVE  InLine(w, h \o t, << >>, c, b, k)
<1>1. h \o t \in Seq(Frames)
  OBVIOUS
<1>2. /\ Ascending(w, b) /\ Ascending(h, b) /\ Ascending(t, b) /\ Ascending(c, b)
      /\ Precedes(w, h, b) /\ Precedes(w, t, b) /\ Precedes(w, c, b)
      /\ Precedes(h, t, b) /\ Precedes(h, c, b) /\ Precedes(t, c, b)
      /\ Below(w, b, k) /\ Below(h, b, k) /\ Below(t, b, k) /\ Below(c, b, k)
  BY LineParts
<1>3. /\ Ascending(h \o t, b) /\ Below(h \o t, b, k)
      /\ Precedes(w, h \o t, b) /\ Precedes(h \o t, c, b)
  BY <1>2, JoinAscending, JoinBounds
<1> QED
  BY <1>1, <1>2, <1>3, LineParts, EmptyType, EmptyParts, ZenonT(60)

-----------------------------------------------------------------------------
(* The invariant *)

\* The way of a build's output to the wire: what is on the wire, the messages the
\* connection has taken for its reconnect report, the spool file as far as it is
\* still to be drained, and the outbound channel.  While the file is being read
\* the taken terminal comes after it.
Wire(b) == [i \in DOMAIN sent[b] |-> [b |-> b, n |-> sent[b][i]]]
LiveSpool(b) ==
    IF \/ ws.pc = "drain" /\ ws.b = b
       \/ ws.pc # "unlink" /\ active.b = b /\ active.path /\ active.bytes > 0
    THEN spool[b] ELSE << >>
Early(b) == IF ws.pc = "drain" THEN LiveSpool(b) ELSE ws.todo
Late(b) == IF ws.pc = "drain" THEN ws.todo ELSE LiveSpool(b)

\* The rank of what the streamer hands over next.
Edge(b) ==
    IF streamer[b].pc = "done" THEN MaxOutput + 2
    ELSE IF streamer[b].pc \in {"have", "send"} THEN Rank(streamer[b].n)
    ELSE streamer[b].made + 1

OrderOf(b) == InLine(Wire(b), Early(b), Late(b), chan, b, Edge(b))
InOrder == \A b \in Builds \ overrun : OrderOf(b)

DrainPcs == {"drain", "unlink", "drained"}
TodoPcs == DrainPcs \union {"status", "flush"}
NewPcs == {"new_check", "new_tarball", "spawn", "register", "started", "mark"}
SdPcs == {"sd_take", "sd_join", "sd_clear"}
\* The transport of the connection is attached, and its backlog has been drained.
DrainedPcs == NewPcs \union SdPcs \union {"drained", "status", "flush", "loop", "attach_task",
  "revoke"}
LivePcs == DrainedPcs \union {"take", "drain", "unlink"}

\* The supervisor has a transport exactly while the connection serves it.
Connected ==
    /\ ws.pc \in LivePcs <=> transport = "live"
    /\ ws.pc \notin LivePcs => chan = << >>
    /\ ws.pc \notin TodoPcs => ws.todo = << >>
    /\ ws.pc = "drain" => ws.todo = << >> \/ ws.todo = << [b |-> ws.b, n |-> Fin] >>
    /\ ws.pc \in DrainPcs => active.b = ws.b \/ active.b = None

\* The spool file of the active build holds output that the record knows of, until
\* a task that ends the build took the path; while a connection is past the drain
\* there is none.  A pending terminal is the end of the output and nowhere else.
SpoolOf(b) ==
    active.b = b =>
      /\ ~active.exhausted
      /\ spool[b] # << >> => \/ active.path /\ active.bytes > 0
                             \/ Finished(b)
                             \/ ws.pc \in {"sd_join", "sd_clear"} /\ ws.b = b
      /\ ws.pc \in DrainedPcs /\ active.path /\ active.bytes > 0 => spool[b] = << >>
      /\ active.pending =>
           /\ streamer[b].pc = "done" /\ ~Finished(b)
           /\ \A i \in DOMAIN chan : chan[i].b # b
           /\ \A i \in DOMAIN ws.todo : ws.todo[i] # [b |-> b, n |-> Fin]
SpoolOK ==
    /\ \A b \in Builds : \A i \in DOMAIN spool[b] : spool[b][i].b = b /\ spool[b][i].n # Fin
    /\ \A b \in Builds \ overrun : SpoolOf(b)

\* A build is streamed once, after its subprocess was started.
StreamOf(b) ==
    /\ streamer[b].pc \in {"have", "send"} /\ streamer[b].n # Fin
         => streamer[b].n = streamer[b].made
    /\ streamer[b].pc # "none" => proc[b] # "none"
    /\ spool[b] # << >> => streamer[b].pc # "none"
StreamOK ==
    /\ \A b \in Builds : StreamOf(b)
    /\ ws.pc \in NewPcs => ws.b \in Builds /\ streamer[ws.b].pc = "none"
    /\ ws.pc \in {"register", "started", "mark", "attach_task"}
         => ws.b \in Builds /\ proc[ws.b] # "none"

\* A build is retired by one task, after its end is on the wire.
RetireOK ==
    /\ \A i \in Retirers : retire[i].pc # "idle" => retire[i].b \in Builds
         /\ Finished(retire[i].b)
    /\ \A i, j \in Retirers :
         retire[i].pc # "idle" /\ retire[j].pc # "idle" /\ retire[i].b = retire[j].b
           /\ retire[i].b \notin overrun => i = j

OutputInv == Connected /\ SpoolOK /\ StreamOK /\ RetireOK /\ InOrder

\* A subprocess and a streamer are in the hands of somebody who will await them:
\* the connection that is about to register them, the record, or the retire task
\* that took them from the record and clears it last.
Running(b) == proc[b] = "running" \/ proc[b] = "killed"
Reading(b) == streamer[b].pc \in {"read", "have", "send"}
HandleOf(b) ==
    /\ Running(b) =>
         \/ ws.pc = "register" /\ ws.b = b
         \/ active.b = b /\ active.exec
         \/ active.b = b /\ \E i \in Retirers :
              retire[i].pc = "join" /\ retire[i].b = b /\ retire[i].exec
    /\ Reading(b) =>
         /\ active.b = b
         /\ \/ active.task
            \/ ws.pc = "attach_task" /\ ws.b = b
            \/ \E i \in Retirers : retire[i].pc = "join" /\ retire[i].b = b /\ retire[i].task
    /\ \A i \in Retirers : retire[i].b = b =>
         /\ retire[i].pc \in {"join", "clear"} /\ active.b = b => ~active.exec /\ ~active.task
         /\ retire[i].pc = "clear" => ~Running(b) /\ ~Reading(b)
    /\ ws.pc \in {"started", "mark", "attach_task"} /\ ws.b = b => active.b = b /\ ~Finished(b)
HandleInv ==
    /\ woken \/ ws.pc \in SdPcs => stopping
    /\ ~stopping => \A b \in Builds \ overrun : HandleOf(b)

-----------------------------------------------------------------------------
(* Steps of the connection that leave the builds alone *)

LEMMA MessagesAreFrames ==
    ASSUME NEW s \in Seq(Messages) PROVE s \in Seq(Frames)
BY DEF Frames

LEMMA SeqFacts ==
    ASSUME NEW S
    PROVE  /\ \A s \in Seq(S) : \A i \in 1 .. Len(s) : s[i] \in S
           /\ \A s \in Seq(S) : Len(s) \in Nat /\ DOMAIN s = 1 .. Len(s)
           /\ \A s \in Seq(S) : s = [i \in DOMAIN s |-> s[i]]
           /\ \A n \in Nat : \A f \in [1 .. n -> S] : f \in Seq(S)
OBVIOUS

LEMMA WireType ==
    ASSUME WorkerInv, NEW b \in Builds
    PROVE  /\ Wire(b) \in Seq(Messages) /\ Wire(b) \in Seq(Frames)
           /\ DOMAIN Wire(b) = DOMAIN sent[b]
           /\ \A i \in DOMAIN sent[b] : Wire(b)[i].b = b /\ Wire(b)[i].n = sent[b][i]
<1>1. sent[b] \in Seq(0 .. MaxOutput)
  BY DEF WorkerInv, TypeOK
<1>2. \A i \in 1 .. Len(sent[b]) : sent[b][i] \in 0 .. MaxOutput
  BY <1>1, SeqFacts, ZenonT(60)
<1>3. DOMAIN sent[b] = 1 .. Len(sent[b]) /\ Len(sent[b]) \in Nat
  BY <1>1, SeqFacts
<1>4. Wire(b) \in [1 .. Len(sent[b]) -> Messages]
  BY <1>2, <1>3 DEF Wire, Messages
<1>5. Wire(b) \in Seq(Messages)
  BY <1>3, <1>4, SeqFacts
<1> QED
  BY <1>5, MessagesAreFrames DEF Wire

LEMMA EdgeType ==
    ASSUME NEW r \in StreamerRecords
    PROVE  /\ r.made + 1 \in Nat /\ MaxOutput + 2 \in Nat /\ Rank(r.n) \in Nat
           /\ r.made + 1 <= MaxOutput + 1 /\ Rank(r.n) <= MaxOutput + 1
BY BoundsAssumption DEF Rank, StreamerRecords, Fin

LEMMA StageType ==
    ASSUME WorkerInv, NEW b \in Builds
    PROVE  /\ Wire(b) \in Seq(Frames) /\ Early(b) \in Seq(Frames) /\ Late(b) \in Seq(Frames)
           /\ LiveSpool(b) \in Seq(Frames) /\ ws.todo \in Seq(Frames) /\ chan \in Seq(Frames)
           /\ Edge(b) \in Nat
<1>1. spool[b] \in Seq(Messages) /\ ws.todo \in Seq(Messages) /\ chan \in Seq(Frames)
  BY DEF WorkerInv, TypeOK, WsRecords
<1>2. spool[b] \in Seq(Frames) /\ ws.todo \in Seq(Frames) /\ << >> \in Seq(Frames)
  BY <1>1, MessagesAreFrames, EmptyType
<1>3. LiveSpool(b) \in Seq(Frames)
  BY <1>2, ZenonT(60) DEF LiveSpool
<1>4. Early(b) \in Seq(Frames) /\ Late(b) \in Seq(Frames)
  BY <1>2, <1>3, ZenonT(60) DEF Early, Late
<1>5. Edge(b) \in Nat
  <2>1. streamer[b] \in StreamerRecords
    BY DEF WorkerInv, TypeOK
  <2> QED
    BY <2>1, EdgeType, ZenonT(60) DEF Edge
<1> QED
  BY <1>1, <1>2, <1>3, <1>4, <1>5, WireType

\* Nothing of b is put on the wire, and nothing is added.
LEMMA OrderKept ==
    ASSUME WorkerInv, WorkerInv', NEW b \in Builds, OrderOf(b), sent'[b] = sent[b],
           Edge(b) <= Edge(b)', chan' = chan \/ chan' = << >>,
           Early(b)' = Early(b) \/ Early(b)' = << >>,
           Late(b)' = Late(b) \/ Late(b)' = << >>
    PROVE  OrderOf(b)'
<1>1. Wire(b)' = Wire(b)
  BY DEF Wire
<1>2. /\ Wire(b) \in Seq(Frames) /\ Early(b) \in Seq(Frames) /\ Late(b) \in Seq(Frames)
      /\ chan \in Seq(Frames) /\ Edge(b) \in Nat
  BY StageType
<1>3. Edge(b)' \in Nat
  <2>1. streamer'[b] \in StreamerRecords
    BY DEF WorkerInv, TypeOK
  <2> QED
    BY <2>1, EdgeType, ZenonT(60) DEF Edge
<1>4. InLine(Wire(b), Early(b)', Late(b)', chan', b, Edge(b)')
  BY <1>2, <1>3, LineDrop DEF OrderOf
<1> QED
  BY <1>1, <1>4 DEF OrderOf

\* What a step of the connection does that takes no part in the life of a build.
Calm ==
    /\ UNCHANGED << active, spool, streamer, retire, sent, overrun, proc >>
    /\ chan' = chan \/ chan' = << >>
    /\ ws'.todo = ws.todo \/ ws'.todo = << >>
    /\ ws.pc \notin {"take", "drain", "unlink", "drained", "register", "attach_task", "sd_join",
                     "sd_clear"}
    /\ ws'.pc \notin {"drain", "unlink", "drained", "register", "attach_task", "sd_join",
         "sd_clear"}
    /\ ws'.pc \in DrainedPcs => ws.pc \in DrainedPcs
    /\ ws'.pc \in NewPcs => /\ ws'.b \in Builds
                            /\ (ws.pc \in NewPcs /\ ws'.b = ws.b) \/ proc[ws'.b] = "none"
    /\ ws'.pc \in {"started", "mark"} => ws.pc \in {"started", "mark"} /\ ws'.b = ws.b
    /\ ws'.pc \in LivePcs <=> transport' = "live"
    /\ ws'.pc \notin LivePcs => chan' = << >>
    /\ ws'.pc \notin TodoPcs => ws'.todo = << >>
    /\ woken' \/ ws'.pc \in SdPcs => stopping'
    /\ stopping => stopping'

LEMMA CalmOutput ==
    ASSUME WorkerInv, WorkerInv', OutputInv, Calm
    PROVE  OutputInv'
<1>1. Connected'
  BY DEF Calm, Connected, DrainPcs
<1>2. SpoolOK'
  <2>1. ASSUME NEW b \in Builds, SpoolOf(b) PROVE SpoolOf(b)'
    <3>1. CASE active.b # b
      BY <3>1 DEF Calm, SpoolOf
    <3>2. CASE active.b = b
      <4>1. ~active.exhausted /\ (spool[b] # << >> => (active.path
              /\ active.bytes > 0) \/ Finished(b))
        BY <2>1, <3>2, ZenonT(60) DEF Calm, SpoolOf
      <4>2. ws'.pc \in DrainedPcs /\ active.path /\ active.bytes > 0 => spool[b] = << >>
        BY <2>1, <3>2, ZenonT(60) DEF Calm, SpoolOf
      <4>3. active.pending =>
              /\ streamer[b].pc = "done" /\ ~Finished(b)
              /\ \A i \in DOMAIN chan' : chan'[i].b # b
              /\ \A i \in DOMAIN ws'.todo : ws'.todo[i] # [b |-> b, n |-> Fin]
        <5>1. DOMAIN << >> = {}
          OBVIOUS
        <5> QED
          BY <2>1, <3>2, <5>1, ZenonT(60) DEF Calm, SpoolOf
      <4>4. Finished(b)' = Finished(b) /\ active' = active /\ spool' = spool
              /\ streamer' = streamer
        BY DEF Calm, Finished
      <4> QED
        BY <3>2, <4>1, <4>2, <4>3, <4>4, ZenonT(60) DEF SpoolOf
    <3> QED
      BY <3>1, <3>2
  <2> QED
    BY <2>1 DEF OutputInv, SpoolOK, Calm
<1>3. StreamOK'
  <2>1. \A b \in Builds : StreamOf(b)'
    BY DEF Calm, OutputInv, StreamOK, StreamOf
  <2>2. ws'.pc \in NewPcs => ws'.b \in Builds /\ streamer[ws'.b].pc = "none"
    BY ZenonT(60) DEF Calm, OutputInv, StreamOK, StreamOf
  <2>3. ws'.pc \in {"register", "started", "mark", "attach_task"}
          => ws'.b \in Builds /\ proc[ws'.b] # "none"
    BY ZenonT(60) DEF Calm, OutputInv, StreamOK
  <2> QED
    BY <2>1, <2>2, <2>3 DEF Calm, StreamOK
<1>4. RetireOK'
  BY DEF Calm, OutputInv, RetireOK, Finished
<1>5. InOrder'
  <2>1. SUFFICES ASSUME NEW b \in Builds \ overrun PROVE OrderOf(b)'
    BY DEF InOrder, Calm
  <2>2. OrderOf(b)
    BY DEF OutputInv, InOrder
  <2>3. Early(b) = ws.todo /\ Early(b)' = ws'.todo
    BY ZenonT(60) DEF Calm, Early
  <2>4. Late(b)' = Late(b)
    BY ZenonT(60) DEF Calm, Late, LiveSpool
  <2>5. Edge(b)' = Edge(b) /\ Edge(b) \in Nat
    BY StageType DEF Calm, Edge
  <2> QED
    BY <2>2, <2>3, <2>4, <2>5, OrderKept DEF Calm
<1> QED
  BY <1>1, <1>2, <1>3, <1>4, <1>5 DEF OutputInv

LEMMA CalmHandles ==
    ASSUME HandleInv, Calm
    PROVE  HandleInv'
<1>1. woken' \/ ws'.pc \in SdPcs => stopping'
  BY DEF Calm
<1>2. ASSUME ~stopping', NEW b \in Builds \ overrun PROVE HandleOf(b)'
  <2>1. HandleOf(b)
    BY <1>2 DEF HandleInv, Calm
  <2>2. /\ Running(b)' = Running(b) /\ Reading(b)' = Reading(b) /\ Finished(b)' = Finished(b)
        /\ active' = active /\ retire' = retire
    BY DEF Calm, Running, Reading, Finished
  <2>3. /\ ws.pc # "register" /\ ws.pc # "attach_task" /\ ws'.pc # "register"
             /\ ws'.pc # "attach_task"
        /\ ws'.pc \in {"started", "mark"} => ws.pc \in {"started", "mark"} /\ ws'.b = ws.b
    BY DEF Calm
  <2> QED
    BY <2>1, <2>2, <2>3, ZenonT(60) DEF HandleOf
<1> QED
  BY <1>1, <1>2 DEF HandleInv, Calm

LEMMA CalmStep ==
    ASSUME WorkerInv, WorkerInv', OutputInv, HandleInv, Calm
    PROVE  OutputInv' /\ HandleInv'
BY CalmOutput, CalmHandles

Alone == UNCHANGED << active, spool, streamer, retire, sent, overrun, proc, stopping >>

\* Without a transport, before and after.
LEMMA OutsideCalm ==
    ASSUME OutputInv, HandleInv, Alone, woken' => woken,
           ws.pc \in {"connect", "dial", "hello", "welcome", "detach", "backoff"},
           NEW pc \in {"dial", "hello", "welcome", "attach", "backoff", "connect", "exit"},
           ws' = At(pc), chan' = chan, transport' = transport \/ transport' = "none"
    PROVE  Calm
<1>1. ws'.pc = pc /\ ws'.todo = << >>
  BY DEF At
<1>2. chan = << >> /\ transport # "live" /\ (woken => stopping)
  BY ZenonT(60) DEF OutputInv, Connected, HandleInv, LivePcs, DrainedPcs, NewPcs, SdPcs
<1> QED
  BY <1>1, <1>2 DEF Alone, Calm, LivePcs, DrainedPcs, NewPcs, SdPcs, TodoPcs, DrainPcs

\* The connection is given up.
LEMMA LeaveCalm ==
    ASSUME OutputInv, HandleInv, Alone, woken' => woken, Leave,
           ws.pc \in {"hello", "welcome", "status", "flush", "loop", "new_check", "new_tarball",
             "spawn",
                      "started", "revoke", "sd_take"}
    PROVE  Calm
<1>1. ws'.pc = "detach" /\ ws'.todo = << >> /\ chan' = << >> /\ transport' # "live"
  BY DEF Leave, At
<1>2. woken => stopping
  BY DEF HandleInv
<1> QED
  BY <1>1, <1>2 DEF Alone, Calm, LivePcs, DrainedPcs, NewPcs, SdPcs, TodoPcs, DrainPcs

\* The message loop goes on.
LEMMA LoopCalm ==
    ASSUME OutputInv, HandleInv, Alone, woken' => woken, UNCHANGED << chan, transport >>,
           ws.pc \in {"status", "flush", "loop", "new_check", "new_tarball", "spawn", "started",
                      "revoke"},
           ws'.pc \in {"flush", "loop", "new_check", "new_tarball", "spawn", "revoke", "mark",
                       "sd_take"},
           ws'.todo = ws.todo, ws'.pc # "flush" => ws'.todo = << >>,
           ws'.pc = "new_check" => ws'.b \in Builds /\ proc[ws'.b] = "none",
           ws'.pc \in {"new_tarball", "spawn", "mark"} => ws.pc \in NewPcs /\ ws'.b = ws.b,
           ws'.pc = "mark" => ws.pc = "started",
           ws'.pc = "sd_take" => woken
    PROVE  Calm
<1>1. ws.pc \in LivePcs /\ ws'.pc \in LivePcs /\ transport = "live"
  BY DEF OutputInv, Connected, LivePcs, DrainedPcs, NewPcs, SdPcs
<1>2. woken => stopping
  BY DEF HandleInv
<1>3. ws'.pc \in NewPcs => /\ ws'.b \in Builds
                           /\ (ws.pc \in NewPcs /\ ws'.b = ws.b) \/ proc[ws'.b] = "none"
  BY ZenonT(60) DEF NewPcs, OutputInv, StreamOK
<1> QED
  BY <1>1, <1>2, <1>3 DEF Alone, Calm, DrainedPcs, NewPcs, SdPcs, TodoPcs, DrainPcs

\* One send on the socket, from a point of the message loop to another.
LEMMA SendCalm ==
    ASSUME OutputInv, HandleInv, Alone, woken' = woken, NEW next, Send(next),
           ws.pc \in {"status", "flush", "loop", "new_check", "new_tarball", "spawn", "started",
                      "revoke"},
           next.pc \in {"flush", "loop", "spawn", "mark"},
           next.todo = ws.todo, next.pc # "flush" => next.todo = << >>,
           next.pc \in {"spawn", "mark"} => ws.pc \in NewPcs /\ next.b = ws.b,
           next.pc = "mark" => ws.pc = "started"
    PROVE  Calm
<1>1. CASE Leave
  BY <1>1, LeaveCalm
<1>2. CASE ws' = next /\ UNCHANGED << chan, transport >>
  BY <1>2, LoopCalm
<1> QED
  BY <1>1, <1>2 DEF Send

LEMMA ConnectCalm == ASSUME OutputInv, HandleInv, Connect PROVE Calm
BY OutsideCalm DEF Connect, Alone, supervisor, build

LEMMA DialCalm == ASSUME OutputInv, HandleInv, Dial PROVE Calm
BY OutsideCalm DEF Dial, Alone, supervisor, build

LEMMA SendHelloCalm == ASSUME OutputInv, HandleInv, SendHello PROVE Calm
BY OutsideCalm, LeaveCalm DEF SendHello, Send, Alone, build

LEMMA WaitForWelcomeCalm == ASSUME OutputInv, HandleInv, WaitForWelcome PROVE Calm
BY OutsideCalm, LeaveCalm DEF WaitForWelcome, Alone, build

LEMMA AttachTransportCalm == ASSUME OutputInv, HandleInv, AttachTransport PROVE Calm
<1>1. ws'.pc = "take" /\ ws'.todo = << >> /\ chan' = << >> /\ transport' = "live"
  BY DEF AttachTransport, At
<1>2. woken => stopping
  BY DEF HandleInv
<1> QED
  BY <1>1, <1>2 DEF AttachTransport, Calm, LivePcs, DrainedPcs, NewPcs, SdPcs, TodoPcs,
     DrainPcs, build

LEMMA DetachTransportCalm == ASSUME OutputInv, HandleInv, DetachTransport PROVE Calm
BY OutsideCalm DEF DetachTransport, Alone, build

LEMMA BackoffCalm == ASSUME OutputInv, HandleInv, Backoff PROVE Calm
BY OutsideCalm DEF Backoff, Alone, supervisor, build

LEMMA SendStatusCalm == ASSUME WorkerInv, OutputInv, HandleInv, SendStatus PROVE Calm
<1> DEFINE next == [ws EXCEPT !.pc = "flush", !.b = None]
<1>1. next.pc = "flush" /\ next.todo = ws.todo
  BY ZenonT(60) DEF WorkerInv, TypeOK, WsRecords
<1>2. Send(next)
  BY DEF SendStatus
<1> HIDE DEF next
<1> QED
  BY <1>1, <1>2, SendCalm DEF SendStatus, Alone, build

LEMMA FlushedCalm == ASSUME OutputInv, HandleInv, Flushed PROVE Calm
<1>1. ws'.pc = "loop" /\ ws'.todo = << >> /\ ws.todo = << >>
  BY DEF Flushed, At
<1> QED
  BY <1>1, LoopCalm DEF Flushed, Alone, supervisor, build

\* In the message loop nothing is left to report.
LEMMA LoopTodo ==
    ASSUME OutputInv, ws.pc \in NewPcs \union {"loop", "revoke"}
    PROVE  ws.todo = << >>
BY DEF OutputInv, Connected, TodoPcs, DrainPcs, NewPcs

LEMMA ReceiveBuildNewCalm ==
    ASSUME WorkerInv, OutputInv, HandleInv, NEW b \in Builds, ReceiveBuildNew(b) PROVE Calm
<1>1. ws'.pc = "new_check" /\ ws'.b = b /\ ws'.todo = ws.todo
  BY ZenonT(60) DEF ReceiveBuildNew, WorkerInv, TypeOK, WsRecords
<1> QED
  BY <1>1, LoopCalm, LoopTodo DEF ReceiveBuildNew, Alone, supervisor, build

LEMMA ReceiveBuildRevokeCalm ==
    ASSUME WorkerInv, OutputInv, HandleInv, NEW b \in Builds, ReceiveBuildRevoke(b) PROVE Calm
<1>1. ws'.pc = "revoke" /\ ws'.todo = ws.todo
  BY ZenonT(60) DEF ReceiveBuildRevoke, WorkerInv, TypeOK, WsRecords
<1> QED
  BY <1>1, LoopCalm, LoopTodo DEF ReceiveBuildRevoke, Alone, supervisor, build

LEMMA ReceiveIgnoredCalm == ASSUME OutputInv, HandleInv, ReceiveIgnored PROVE Calm
BY LoopCalm, LoopTodo DEF ReceiveIgnored, Alone, supervisor, build

LEMMA ConnectionLostCalm == ASSUME OutputInv, HandleInv, ConnectionLost PROVE Calm
BY LeaveCalm DEF ConnectionLost, Alone, build

LEMMA ShutdownNotifiedCalm == ASSUME OutputInv, HandleInv, ShutdownNotified PROVE Calm
<1>1. ws'.pc = "sd_take" /\ ws'.todo = << >>
  BY DEF ShutdownNotified, At
<1> QED
  BY <1>1, LoopCalm, LoopTodo DEF ShutdownNotified, Alone, supervisor, build

LEMMA LoopRecord == At("loop").pc = "loop" /\ At("loop").todo = << >>
BY DEF At

LEMMA NewCheckCalm == ASSUME WorkerInv, OutputInv, HandleInv, NewCheck PROVE Calm
<1>1. ws.todo = << >> /\ ws.pc = "new_check" /\ ws.pc \in NewPcs
  BY LoopTodo DEF NewCheck, NewPcs
<1>2. CASE Busy
  BY <1>1, <1>2, LoopRecord, SendCalm DEF NewCheck, Alone, build
<1>3. CASE ~Busy
  <2>1. ws'.pc = "new_tarball" /\ ws'.b = ws.b /\ ws'.todo = ws.todo
    BY <1>3, ZenonT(60) DEF NewCheck, WorkerInv, TypeOK, WsRecords
  <2> QED
    BY <1>1, <1>3, <2>1, LoopCalm DEF NewCheck, Alone, build
<1> QED
  BY <1>2, <1>3

LEMMA NewTarballCalm == ASSUME WorkerInv, OutputInv, HandleInv, NewTarball PROVE Calm
<1> DEFINE next == [ws EXCEPT !.pc = "spawn"]
<1>1. ws.todo = << >> /\ ws.pc = "new_tarball" /\ ws.pc \in NewPcs
  BY LoopTodo DEF NewTarball, NewPcs
<1>2. next.pc = "spawn" /\ next.b = ws.b /\ next.todo = ws.todo
  BY ZenonT(60) DEF WorkerInv, TypeOK, WsRecords
<1>3. Send(next) \/ Send(At("loop"))
  BY DEF NewTarball
<1>4. Alone /\ woken' = woken
  BY DEF NewTarball, Alone, build
<1> HIDE DEF next
<1>5. CASE Send(next)
  BY <1>1, <1>2, <1>4, <1>5, SendCalm
<1>6. CASE Send(At("loop"))
  BY <1>1, <1>4, <1>6, LoopRecord, SendCalm
<1> QED
  BY <1>3, <1>5, <1>6

LEMMA SendStartedCalm == ASSUME WorkerInv, OutputInv, HandleInv, SendStarted PROVE Calm
<1> DEFINE next == [ws EXCEPT !.pc = "mark"]
<1>1. ws.todo = << >> /\ ws.pc = "started" /\ ws.pc \in NewPcs
  BY LoopTodo DEF SendStarted, NewPcs
<1>2. next.pc = "mark" /\ next.b = ws.b /\ next.todo = ws.todo
  BY ZenonT(60) DEF WorkerInv, TypeOK, WsRecords
<1>3. Send(next)
  BY DEF SendStarted
<1> HIDE DEF next
<1> QED
  BY <1>1, <1>2, <1>3, SendCalm DEF SendStarted, Alone, build

-----------------------------------------------------------------------------
(* What a step leaves as it is *)

LEMMA StreamFrame ==
    ASSUME OutputInv, UNCHANGED << streamer, proc >>,
           \A b \in Builds : spool'[b] = spool[b] \/ spool'[b] = << >>,
           ws'.pc \notin NewPcs, ws'.pc # "attach_task"
    PROVE  StreamOK'
BY DEF OutputInv, StreamOK, StreamOf, NewPcs

LEMMA RetireFrame ==
    ASSUME OutputInv, UNCHANGED << retire, sent >>, overrun \subseteq overrun'
    PROVE  RetireOK'
BY DEF OutputInv, RetireOK, Finished

LEMMA HandleFrame ==
    ASSUME HandleInv, UNCHANGED << retire, streamer, sent, stopping, woken >>,
             overrun \subseteq overrun',
           \A b \in Builds : Running(b)' => Running(b),
           active'.b = active.b, active'.exec = active.exec, active'.task = active.task,
           ws.pc \notin {"register", "attach_task"},
           ws'.pc \notin {"started", "mark", "register", "attach_task"},
           ws'.pc \in SdPcs => stopping
    PROVE  HandleInv'
<1>1. ASSUME NEW b \in Builds, HandleOf(b) PROVE HandleOf(b)'
  <2>1. /\ Running(b)' => Running(b)
        /\ Reading(b)' = Reading(b) /\ Finished(b)' = Finished(b)
        /\ retire' = retire
    BY DEF Reading, Finished
  <2> QED
    BY <1>1, <2>1, ZenonT(60) DEF HandleOf
<1> QED
  BY <1>1, ZenonT(60) DEF HandleInv

-----------------------------------------------------------------------------
(* The reconnect report *)

LEMMA FinishedWire ==
    ASSUME WorkerInv, NEW b \in Builds
    PROVE  ~Finished(b) => Below(Wire(b), b, MaxOutput + 1)
<1>1. \A i \in DOMAIN sent[b] : sent[b][i] \in 0 .. MaxOutput
  <2>1. sent[b] \in Seq(0 .. MaxOutput)
    BY DEF WorkerInv, TypeOK
  <2> QED
    BY <2>1, SeqFacts, ZenonT(60)
<1>2. \A i \in DOMAIN sent[b] : sent[b][i] # Fin => Rank(sent[b][i]) < MaxOutput + 1
  BY <1>1, BoundsAssumption DEF Rank, Fin
<1>3. /\ DOMAIN Wire(b) = DOMAIN sent[b]
      /\ \A i \in DOMAIN sent[b] : Wire(b)[i].b = b /\ Wire(b)[i].n = sent[b][i]
  BY WireType, ZenonT(60)
<1> QED
  BY <1>2, <1>3 DEF Below, Finished

\* A build that is still streamed is not reported as finished.
LEMMA NotDoneNotFinished ==
    ASSUME WorkerInv, NEW b \in Builds, OrderOf(b), streamer[b].pc # "done"
    PROVE  ~Finished(b)
<1>1. Edge(b) <= MaxOutput + 1 /\ Edge(b) \in Nat
  <2>1. streamer[b] \in StreamerRecords
    BY DEF WorkerInv, TypeOK
  <2> QED
    BY <2>1, EdgeType DEF Edge
<1>2. Below(Wire(b), b, Edge(b))
  BY StageType, LineParts DEF OrderOf
<1>3. SUFFICES ASSUME NEW i \in DOMAIN sent[b], sent[b][i] = Fin PROVE FALSE
  BY DEF Finished
<1>4. i \in DOMAIN Wire(b) /\ Wire(b)[i].b = b /\ Wire(b)[i].n = Fin
  BY <1>3, WireType, ZenonT(60)
<1>5. Rank(Fin) < Edge(b) /\ Rank(Fin) = MaxOutput + 1
  BY <1>2, <1>4 DEF Below, Rank
<1> QED
  BY <1>1, <1>5, BoundsAssumption

\* A stage without messages of b may take any place.
LEMMA LineForeign ==
    ASSUME NEW w \in Seq(Frames), NEW h \in Seq(Frames), NEW t \in Seq(Frames),
           NEW c \in Seq(Frames), NEW b, NEW k, InLine(w, h, t, c, b, k),
           NEW s \in Seq(Frames), \A i \in DOMAIN s : s[i].b # b
    PROVE  InLine(w, s, << >>, c, b, k) /\ InLine(w, << >>, s, c, b, k)
<1>1. /\ Ascending(w, b) /\ Ascending(c, b) /\ Precedes(w, c, b)
      /\ Below(w, b, k) /\ Below(c, b, k)
  BY LineParts
<1>2. /\ Ascending(s, b) /\ Below(s, b, k) /\ Precedes(w, s, b) /\ Precedes(s, c, b)
  BY DEF Ascending, Below, Precedes
<1> QED
  BY <1>1, <1>2, LineParts, EmptyType, EmptyParts, ZenonT(60)

\* The pending terminal comes after the spool and before nothing.
LEMMA LineTerminal ==
    ASSUME NEW w \in Seq(Frames), NEW s \in Seq(Frames), NEW c \in Seq(Frames), NEW b, NEW k,
           InLine(w, << >>, s, c, b, k), NEW m \in Frames, m.b = b,
           Below(w, b, Rank(m.n)), Below(s, b, Rank(m.n)), Rank(m.n) < k,
           \A i \in DOMAIN c : c[i].b # b
    PROVE  InLine(w, s, << m >>, c, b, k)
<1> DEFINE t == << m >>
<1>1. t \in Seq(Frames) /\ DOMAIN t = {1} /\ t[1] = m
  OBVIOUS
<1>2. /\ Ascending(w, b) /\ Ascending(c, b) /\ Precedes(w, c, b)
      /\ Ascending(s, b) /\ Precedes(w, s, b) /\ Precedes(s, c, b)
      /\ Below(w, b, k) /\ Below(c, b, k) /\ Below(s, b, k)
  BY LineParts, EmptyType, ZenonT(60)
<1> HIDE DEF t
<1>3. Ascending(t, b) /\ Below(t, b, k)
  BY <1>1 DEF Ascending, Below
<1>4. Precedes(w, t, b) /\ Precedes(s, t, b) /\ Precedes(t, c, b)
  BY <1>1 DEF Precedes, Below
<1>5. InLine(w, s, t, c, b, k)
  BY <1>1, <1>2, <1>3, <1>4, LineParts
<1> QED
  BY <1>5 DEF t

LEMMA TakeReconnectFields ==
    ASSUME WorkerInv, TakeReconnect, active.b # None
    PROVE  /\ active.b \in Builds /\ active'.b = active.b
           /\ active'.exec = active.exec /\ active'.task = active.task
           /\ active'.path = active.path /\ active'.bytes = active.bytes
           /\ active'.exhausted = active.exhausted
           /\ active'.pending = (active.pending /\ ~HasTerminal)
           /\ ws'.pc = (IF active.path /\ active.bytes > 0 THEN "drain" ELSE "status")
           /\ ws'.b = active.b
           /\ ws'.todo = (IF HasTerminal THEN << [b |-> active.b, n |-> Fin] >> ELSE << >>)
<1>1. active \in ActiveRecords /\ active.b \in Builds
  BY DEF WorkerInv, TypeOK, ActiveRecords
<1>2. active' = Reported
  BY DEF TakeReconnect
<1>3. /\ active'.b = active.b
      /\ active'.exec = active.exec /\ active'.task = active.task
      /\ active'.path = active.path /\ active'.bytes = active.bytes
      /\ active'.exhausted = active.exhausted
      /\ active'.pending = (active.pending /\ ~HasTerminal)
  BY <1>1, <1>2, ZenonT(60) DEF Reported, ActiveRecords
<1> DEFINE pc == IF active.path /\ active.bytes > 0 THEN "drain" ELSE "status"
           todo == IF HasTerminal THEN << [b |-> active.b, n |-> Fin] >> ELSE << >>
<1>4. ws' = [At(pc) EXCEPT !.b = active.b, !.todo = todo]
  BY DEF TakeReconnect
<1> HIDE DEF pc, todo
<1>5. ws'.pc = pc /\ ws'.b = active.b /\ ws'.todo = todo
  BY <1>4 DEF At
<1> QED
  BY <1>1, <1>3, <1>5 DEF pc, todo

LEMMA TakeReconnectOrder ==
    ASSUME WorkerInv, WorkerInv', OutputInv, TakeReconnect, active.b # None,
           NEW b \in Builds \ overrun
    PROVE  OrderOf(b)'
<1> DEFINE m == [b |-> active.b, n |-> Fin]
           w == Wire(b)
           s == LiveSpool(b)
           k == Edge(b)
<1>1. /\ active.b \in Builds /\ active'.b = active.b
      /\ active'.path = active.path /\ active'.bytes = active.bytes
      /\ ws'.pc = (IF active.path /\ active.bytes > 0 THEN "drain" ELSE "status")
      /\ ws'.b = active.b
      /\ ws'.todo = (IF HasTerminal THEN << m >> ELSE << >>)
  BY TakeReconnectFields
<1>2. /\ ws.pc = "take" /\ ws.todo = << >>
      /\ UNCHANGED << chan, spool, streamer, sent >>
  <2>1. ws.pc = "take" /\ UNCHANGED << chan, spool, streamer, sent >>
    BY DEF TakeReconnect, build
  <2> QED
    BY <2>1 DEF OutputInv, Connected, TodoPcs, DrainPcs
<1>3. /\ w \in Seq(Frames) /\ s \in Seq(Frames) /\ chan \in Seq(Frames) /\ k \in Nat
      /\ InLine(w, << >>, s, chan, b, k)
  BY <1>2, StageType DEF OutputInv, InOrder, OrderOf, Early, Late
<1>4. Wire(b)' = w /\ Edge(b)' = k /\ LiveSpool(b)' = s
  BY <1>1, <1>2 DEF Wire, Edge, LiveSpool
<1>5. m \in Frames /\ m.b = active.b /\ m.n = Fin /\ Rank(m.n) = MaxOutput + 1
      /\ << m >> \in Seq(Frames) /\ DOMAIN << m >> = {1} /\ << m >>[1] = m
  BY <1>1, BoundsAssumption DEF Frames, Messages, Fin, Rank
<1> DEFINE t == IF HasTerminal THEN << m >> ELSE << >>
<1> HIDE DEF w, s, k, m
<1>6. InLine(w, s, t, chan, b, k) /\ t \in Seq(Frames)
  <2>1. CASE ~HasTerminal
    <3>1. InLine(w, s, << >>, chan, b, k)
      BY <1>3, LineParts, EmptyType, EmptyParts, ZenonT(60)
    <3> QED
      BY <2>1, <3>1, EmptyType
  <2>2. CASE HasTerminal /\ active.b # b
    <3>1. s = << >>
      BY <1>2, <2>2 DEF s, LiveSpool
    <3>2. InLine(w, << >>, << m >>, chan, b, k)
      <4>1. \A i \in DOMAIN << m >> : << m >>[i].b # b
        BY <1>5, <2>2
      <4> QED
        BY <1>3, <1>5, <4>1, LineForeign, EmptyType, ZenonT(60)
    <3> QED
      BY <1>5, <2>2, <3>1, <3>2
  <2>3. CASE HasTerminal /\ active.b = b
    <3>1. SpoolOf(b) /\ active.pending
      BY <2>3 DEF OutputInv, SpoolOK, HasTerminal
    <3>2. streamer[b].pc = "done" /\ ~Finished(b) /\ \A i \in DOMAIN chan : chan[i].b # b
      BY <2>3, <3>1 DEF SpoolOf
    <3>3. Below(w, b, Rank(m.n)) /\ Rank(m.n) < k
      BY <1>5, <3>2, FinishedWire, BoundsAssumption DEF w, k, Edge
    <3>4. Below(s, b, Rank(m.n))
      <4>1. \A i \in DOMAIN s : s[i].n # Fin /\ s[i] \in Messages
        <5>1. \A i \in DOMAIN spool[b] : spool[b][i].n # Fin /\ spool[b][i] \in Messages
          <6>1. spool[b] \in Seq(Messages)
            BY DEF WorkerInv, TypeOK
          <6> QED
            BY <6>1, SeqFacts DEF OutputInv, SpoolOK
        <5>2. DOMAIN << >> = {}
          OBVIOUS
        <5> QED
          BY <5>1, <5>2, ZenonT(60) DEF s, LiveSpool
      <4> QED
        BY <1>5, <4>1, BoundsAssumption DEF Below, Rank, Messages
    <3>5. InLine(w, s, << m >>, chan, b, k)
      BY <1>3, <1>5, <2>3, <3>2, <3>3, <3>4, LineTerminal
    <3> QED
      BY <1>5, <2>3, <3>5
  <2> QED
    BY <2>1, <2>2, <2>3
<1>7. CASE active.path /\ active.bytes > 0
  <2>1. Early(b)' = s /\ Late(b)' = t
    BY <1>1, <1>4, <1>7, ZenonT(60) DEF Early, Late
  <2> QED
    BY <1>2, <1>4, <1>6, <2>1 DEF OrderOf
<1>8. CASE ~(active.path /\ active.bytes > 0)
  <2>1. Early(b)' = t /\ Late(b)' = s
    BY <1>1, <1>4, <1>8, ZenonT(60) DEF Early, Late
  <2>2. s = << >>
    BY <1>2, <1>8, ZenonT(60) DEF s, LiveSpool
  <2>3. InLine(w, t, << >>, chan, b, k)
    BY <1>3, <1>6, <2>2, LineParts, EmptyType, EmptyParts, ZenonT(60)
  <2> QED
    BY <1>2, <1>4, <2>1, <2>2, <2>3 DEF OrderOf
<1> QED
  BY <1>7, <1>8

LEMMA TakeReconnectOutput ==
    ASSUME WorkerInv, WorkerInv', OutputInv, HandleInv, TakeReconnect
    PROVE  OutputInv' /\ HandleInv'
<1>1. /\ ws.pc = "take" /\ ws.todo = << >> /\ transport' = "live" /\ transport = "live"
      /\ UNCHANGED << chan, spool, streamer, proc, retire, sent, overrun, stopping, woken >>
  <2>1. /\ ws.pc = "take"
        /\ UNCHANGED << transport, chan, spool, streamer, proc, retire, sent, overrun, stopping,
             woken >>
    BY DEF TakeReconnect, build
  <2> QED
    BY <2>1 DEF OutputInv, Connected, TodoPcs, DrainPcs, LivePcs
<1>2. CASE active.b = None
  <2>1. active' = active /\ ws'.pc = "status" /\ ws'.todo = << >>
    BY <1>2 DEF TakeReconnect, At
  <2>2. Connected'
    BY <1>1, <2>1 DEF Connected, TodoPcs, DrainPcs, LivePcs, DrainedPcs
  <2>3. SpoolOK'
    BY <1>1, <1>2, <2>1, IdentityAssumption DEF OutputInv, SpoolOK, SpoolOf
  <2>4. StreamOK' /\ RetireOK' /\ HandleInv'
    BY <1>1, <2>1, StreamFrame, RetireFrame, HandleFrame DEF NewPcs, Running, SdPcs
  <2>5. ASSUME NEW b \in Builds \ overrun PROVE OrderOf(b)'
    <3>1. OrderOf(b)
      BY DEF OutputInv, InOrder
    <3>2. Early(b)' = << >> /\ Late(b)' = Late(b) /\ Edge(b)' = Edge(b) /\ Edge(b) \in Nat
      BY <1>1, <2>1, StageType DEF Early, Late, LiveSpool, Edge
    <3> QED
      BY <1>1, <3>1, <3>2, OrderKept
  <2> QED
    BY <1>1, <2>2, <2>3, <2>4, <2>5 DEF OutputInv, InOrder
<1>3. CASE active.b # None
  <2>1. /\ active.b \in Builds /\ active'.b = active.b
        /\ active'.exec = active.exec /\ active'.task = active.task
        /\ active'.path = active.path /\ active'.bytes = active.bytes
        /\ active'.exhausted = active.exhausted
        /\ active'.pending = (active.pending /\ ~HasTerminal)
        /\ ws'.pc = (IF active.path /\ active.bytes > 0 THEN "drain" ELSE "status")
        /\ ws'.b = active.b
        /\ ws'.todo = (IF HasTerminal THEN << [b |-> active.b, n |-> Fin] >> ELSE << >>)
    BY <1>3, TakeReconnectFields
  <2>2. ws'.pc = "drain" \/ ws'.pc = "status"
    BY <2>1
  <2>3. Connected'
    BY <1>1, <2>1, <2>2 DEF Connected, TodoPcs, DrainPcs, LivePcs, DrainedPcs
  <2>4. SpoolOK'
    <3>1. ASSUME NEW b \in Builds \ overrun, active.b = b PROVE SpoolOf(b)'
      <4>1. SpoolOf(b) /\ Finished(b)' = Finished(b)
        BY <1>1 DEF OutputInv, SpoolOK, Finished
      <4>2. ~active'.exhausted /\ (spool'[b] # << >> => (active'.path
              /\ active'.bytes > 0) \/ Finished(b)')
        BY <1>1, <2>1, <3>1, <4>1, ZenonT(60) DEF SpoolOf
      <4>3. ws'.pc \in DrainedPcs /\ active'.path /\ active'.bytes > 0 => spool'[b] = << >>
        BY <2>1, ZenonT(60) DEF DrainedPcs, NewPcs, SdPcs
      <4>4. active'.pending =>
              /\ streamer'[b].pc = "done" /\ ~Finished(b)'
              /\ \A i \in DOMAIN chan' : chan'[i].b # b
              /\ \A i \in DOMAIN ws'.todo : ws'.todo[i] # [b |-> b, n |-> Fin]
        <5>1. DOMAIN << >> = {}
          OBVIOUS
        <5> QED
          BY <1>1, <2>1, <3>1, <4>1, <5>1, ZenonT(60) DEF SpoolOf
      <4> QED
        BY <4>2, <4>3, <4>4, ZenonT(60) DEF SpoolOf
    <3>2. ASSUME NEW b \in Builds \ overrun, active.b # b PROVE SpoolOf(b)'
      BY <2>1, <3>2 DEF SpoolOf
    <3> QED
      BY <1>1, <3>1, <3>2 DEF OutputInv, SpoolOK
  <2>5. StreamOK' /\ RetireOK'
    BY <1>1, <2>2, StreamFrame, RetireFrame DEF NewPcs
  <2>6. HandleInv'
    BY <1>1, <2>1, <2>2, HandleFrame DEF SdPcs, Running
  <2>7. InOrder'
    BY <1>1, <1>3, TakeReconnectOrder DEF InOrder
  <2> QED
    BY <2>3, <2>4, <2>5, <2>6, <2>7 DEF OutputInv
<1> QED
  BY <1>2, <1>3

LEMMA DrainFacts ==
    ASSUME WorkerInv, OutputInv, ws.pc \in DrainPcs
    PROVE  /\ ws.pc \in LivePcs /\ transport = "live"
           /\ active.b = ws.b \/ active.b = None
           /\ ws.pc \notin {"register", "attach_task"}
BY DEF OutputInv, Connected, DrainPcs, LivePcs, DrainedPcs

\* The messages of another build are none of b's.
LEMMA TodoForeign ==
    ASSUME WorkerInv, OutputInv, ws.pc = "drain", NEW b \in Builds, ws.b # b
    PROVE  /\ \A i \in DOMAIN ws.todo : ws.todo[i].b # b
           /\ \A i \in DOMAIN spool[ws.b] : spool[ws.b][i].b # b
           /\ spool[ws.b] \in Seq(Frames) /\ ws.todo \in Seq(Frames) /\ ws.b \in Builds
<1>1. ws.b \in Builds /\ spool[ws.b] \in Seq(Messages) /\ ws.todo \in Seq(Messages)
  BY DEF WorkerInv, DrainsBuild, TypeOK, WsRecords
<1>2. \A i \in DOMAIN spool[ws.b] : spool[ws.b][i].b # b
  BY <1>1 DEF OutputInv, SpoolOK
<1>3. \A i \in DOMAIN ws.todo : ws.todo[i].b # b
  BY DEF OutputInv, Connected
<1> QED
  BY <1>1, <1>2, <1>3, MessagesAreFrames

LEMMA DrainSpoolFields ==
    ASSUME WorkerInv, DrainSpool
    PROVE  /\ ws'.pc = "unlink" /\ ws'.b = ws.b
           /\ \/ ws'.todo = spool[ws.b] \o ws.todo /\ overrun' = overrun
              \/ ws'.todo = ws.todo /\ overrun' = overrun \union {ws.b}
BY ZenonT(60) DEF DrainSpool, WorkerInv, TypeOK, WsRecords

LEMMA DrainSpoolOrder ==
    ASSUME WorkerInv, WorkerInv', OutputInv, DrainSpool, NEW b \in Builds \ overrun'
    PROVE  OrderOf(b)'
<1>1. /\ ws'.pc = "unlink" /\ ws'.b = ws.b
      /\ \/ ws'.todo = spool[ws.b] \o ws.todo /\ overrun' = overrun
         \/ ws'.todo = ws.todo /\ overrun' = overrun \union {ws.b}
  BY DrainSpoolFields, ZenonT(60)
<1>2. ws.pc = "drain" /\ UNCHANGED << active, chan, spool, streamer, sent >>
  BY DEF DrainSpool, supervisor, build
<1>3. active.b = ws.b \/ active.b = None
  BY <1>2, DrainFacts DEF DrainPcs
<1>4. /\ Wire(b) \in Seq(Frames) /\ LiveSpool(b) \in Seq(Frames) /\ chan \in Seq(Frames)
      /\ ws.todo \in Seq(Frames)
      /\ InLine(Wire(b), LiveSpool(b), ws.todo, chan, b, Edge(b))
  BY <1>1, <1>2, StageType, ZenonT(60) DEF OutputInv, InOrder, OrderOf, Early, Late
<1>5. /\ Wire(b)' = Wire(b) /\ Edge(b)' = Edge(b) /\ Early(b)' = ws'.todo /\ Late(b)' = << >>
  BY <1>1, <1>2 DEF Wire, Edge, Early, Late, LiveSpool
<1>6. CASE ws.b = b
  <2>1. LiveSpool(b) = spool[b] /\ ws'.todo = spool[b] \o ws.todo
    BY <1>1, <1>2, <1>6, ZenonT(60) DEF LiveSpool
  <2> QED
    BY <1>2, <1>4, <1>5, <2>1, LineMerge DEF OrderOf
<1>7. CASE ws.b # b
  <2>1. /\ \A i \in DOMAIN ws.todo : ws.todo[i].b # b
        /\ \A i \in DOMAIN spool[ws.b] : spool[ws.b][i].b # b
        /\ spool[ws.b] \in Seq(Frames)
    BY <1>2, <1>7, TodoForeign
  <2>2. ws'.todo \in Seq(Frames) /\ \A i \in DOMAIN ws'.todo : ws'.todo[i].b # b
    <3>1. CASE ws'.todo = ws.todo
      BY <1>4, <2>1, <3>1
    <3>2. CASE ws'.todo = spool[ws.b] \o ws.todo
      <4> DEFINE t == spool[ws.b] \o ws.todo
      <4>1. /\ t \in Seq(Frames)
            /\ \A i \in DOMAIN t : (\E j \in DOMAIN spool[ws.b] : t[i] = spool[ws.b][j])
                                  \/ (\E j \in DOMAIN ws.todo : t[i] = ws.todo[j])
        BY <1>4, <2>1, JoinElements, ZenonT(60)
      <4>2. ws'.todo = t
        BY <3>2
      <4> HIDE DEF t
      <4> QED
        BY <2>1, <4>1, <4>2, ZenonT(60)
    <3> QED
      BY <1>1, <3>1, <3>2, ZenonT(60)
  <2>3. InLine(Wire(b), ws'.todo, << >>, chan, b, Edge(b))
    BY <1>4, <2>2, LineForeign, ZenonT(60)
  <2> QED
    BY <1>2, <1>5, <2>3 DEF OrderOf
<1> QED
  BY <1>6, <1>7

LEMMA DrainSpoolOutput ==
    ASSUME WorkerInv, WorkerInv', OutputInv, HandleInv, DrainSpool
    PROVE  OutputInv' /\ HandleInv'
<1>1. /\ ws'.pc = "unlink" /\ ws'.b = ws.b
      /\ \/ ws'.todo = spool[ws.b] \o ws.todo /\ overrun' = overrun
         \/ ws'.todo = ws.todo /\ overrun' = overrun \union {ws.b}
  BY DrainSpoolFields, ZenonT(60)
<1>2. /\ ws.pc = "drain"
      /\ UNCHANGED << active, transport, chan, spool, streamer, proc, retire, sent, stopping,
           woken >>
  BY DEF DrainSpool, supervisor, build
<1>3. transport = "live" /\ (active.b = ws.b \/ active.b = None)
  BY <1>2, DrainFacts DEF DrainPcs
<1>4. Connected'
  BY <1>1, <1>2, <1>3 DEF Connected, LivePcs, TodoPcs, DrainPcs
<1>5. ASSUME NEW b \in Builds \ overrun', active.b = b PROVE SpoolOf(b)'
  <2>1. SpoolOf(b) /\ Finished(b)' = Finished(b) /\ ws.b = b
    BY <1>1, <1>2, <1>3, <1>5, IdentityAssumption, ZenonT(60) DEF OutputInv, SpoolOK, Finished
  <2>2. ws'.todo = spool[b] \o ws.todo
    BY <1>1, <1>5, <2>1, ZenonT(60)
  <2>3. active.pending => \A i \in DOMAIN ws'.todo : ws'.todo[i] # [b |-> b, n |-> Fin]
    <3>1. \A i \in DOMAIN spool[b] : spool[b][i].n # Fin
      BY DEF OutputInv, SpoolOK
    <3>2. active.pending => \A i \in DOMAIN ws.todo : ws.todo[i] # [b |-> b, n |-> Fin]
      BY <1>5, <2>1, ZenonT(60) DEF SpoolOf
    <3>3. \A i \in DOMAIN (spool[b] \o ws.todo) :
            \/ \E j \in DOMAIN spool[b] : (spool[b] \o ws.todo)[i] = spool[b][j]
            \/ \E j \in DOMAIN ws.todo : (spool[b] \o ws.todo)[i] = ws.todo[j]
      <4>1. spool[b] \in Seq(Messages) /\ ws.todo \in Seq(Messages)
        BY DEF WorkerInv, TypeOK, WsRecords
      <4>2. spool[b] \in Seq(Frames) /\ ws.todo \in Seq(Frames)
        BY <4>1, MessagesAreFrames
      <4> QED
        BY <4>2, JoinElements, ZenonT(60)
    <3> DEFINE t == spool[b] \o ws.todo
    <3>4. \A i \in DOMAIN t : (\E j \in DOMAIN spool[b] : t[i] = spool[b][j])
                              \/ (\E j \in DOMAIN ws.todo : t[i] = ws.todo[j])
      BY <3>3, ZenonT(60)
    <3>5. ws'.todo = t
      BY <2>2
    <3> HIDE DEF t
    <3> QED
      BY <3>1, <3>2, <3>4, <3>5
  <2>4. ws'.pc \notin DrainedPcs /\ ws.pc \notin {"sd_join", "sd_clear"}
    BY <1>1, <1>2 DEF DrainedPcs, NewPcs, SdPcs
  <2> QED
    BY <1>2, <1>5, <2>1, <2>3, <2>4, ZenonT(60) DEF SpoolOf
<1>6. SpoolOK'
  <2>1. ASSUME NEW b \in Builds, active.b # b PROVE SpoolOf(b)'
    BY <1>2, <2>1 DEF SpoolOf
  <2> QED
    BY <1>2, <1>5, <2>1 DEF OutputInv, SpoolOK
<1>7. StreamOK' /\ RetireOK'
  BY <1>1, <1>2, StreamFrame, RetireFrame, ZenonT(60) DEF NewPcs
<1>8. HandleInv'
  BY <1>1, <1>2, HandleFrame, ZenonT(60) DEF Running, SdPcs
<1>9. InOrder'
  BY DrainSpoolOrder DEF InOrder
<1> QED
  BY <1>4, <1>6, <1>7, <1>8, <1>9 DEF OutputInv

LEMMA RemoveSpoolOutput ==
    ASSUME WorkerInv, WorkerInv', OutputInv, HandleInv, RemoveSpool
    PROVE  OutputInv' /\ HandleInv'
<1>1. /\ ws'.pc = "drained" /\ ws'.b = ws.b /\ ws'.todo = ws.todo
      /\ \/ spool' = [spool EXCEPT ![ws.b] = << >>] /\ overrun' = overrun
         \/ spool' = spool /\ overrun' = overrun \union {ws.b}
  BY ZenonT(60) DEF RemoveSpool, RemovedFile, WorkerInv, TypeOK, WsRecords
<1>2. /\ ws.pc = "unlink" /\ ws.b \in Builds
      /\ UNCHANGED << active, transport, chan, streamer, proc, retire, sent, stopping, woken >>
  BY DEF RemoveSpool, build, WorkerInv, DrainsBuild
<1>3. transport = "live" /\ (active.b = ws.b \/ active.b = None)
  BY <1>2, DrainFacts DEF DrainPcs
<1>4. Connected'
  BY <1>1, <1>2, <1>3 DEF Connected, LivePcs, DrainedPcs, TodoPcs, DrainPcs
<1>5. /\ \A b \in Builds : spool'[b] = spool[b] \/ spool'[b] = << >>
      /\ ws.b \in overrun' \/ spool'[ws.b] = << >>
      /\ overrun \subseteq overrun'
  BY <1>1, <1>2 DEF WorkerInv, TypeOK
<1>6. ASSUME NEW b \in Builds \ overrun', active.b = b PROVE SpoolOf(b)'
  <2>1. SpoolOf(b) /\ Finished(b)' = Finished(b) /\ ws.b = b /\ spool'[b] = << >>
    BY <1>2, <1>3, <1>5, <1>6, IdentityAssumption DEF OutputInv, SpoolOK, Finished
  <2> QED
    BY <1>1, <1>2, <1>6, <2>1, ZenonT(60) DEF SpoolOf
<1>7. SpoolOK'
  <2>1. ASSUME NEW b \in Builds, active.b # b PROVE SpoolOf(b)'
    BY <1>2, <2>1 DEF SpoolOf
  <2>2. \A b \in Builds : \A i \in DOMAIN spool'[b] : spool'[b][i].b = b /\ spool'[b][i].n # Fin
    BY <1>5 DEF OutputInv, SpoolOK
  <2> QED
    BY <1>2, <1>6, <2>1, <2>2 DEF SpoolOK
<1>8. StreamOK' /\ RetireOK'
  BY <1>1, <1>2, <1>5, StreamFrame, RetireFrame DEF NewPcs
<1>9. HandleInv'
  BY <1>1, <1>2, <1>5, HandleFrame DEF Running, SdPcs
<1>10. ASSUME NEW b \in Builds \ overrun' PROVE OrderOf(b)'
  <2>1. OrderOf(b)
    BY <1>5 DEF OutputInv, InOrder
  <2>2. Early(b)' = Early(b) /\ Late(b) = << >> /\ Edge(b)' = Edge(b) /\ Edge(b) \in Nat
    BY <1>1, <1>2, StageType DEF Early, Late, LiveSpool, Edge
  <2>3. Late(b)' = << >>
    <3>1. active.b = b => spool'[b] = << >>
      BY <1>3, <1>5, <1>10, IdentityAssumption
    <3> QED
      BY <1>1, <1>2, <3>1, ZenonT(60) DEF Late, LiveSpool
  <2> QED
    BY <1>2, <2>1, <2>2, <2>3, OrderKept
<1> QED
  BY <1>4, <1>7, <1>8, <1>9, <1>10 DEF OutputInv, InOrder

LEMMA SpoolDrainedOutput ==
    ASSUME WorkerInv, WorkerInv', OutputInv, HandleInv, SpoolDrained
    PROVE  OutputInv' /\ HandleInv'
<1>1. ws'.pc = "status" /\ ws'.b = ws.b /\ ws'.todo = ws.todo
  BY ZenonT(60) DEF SpoolDrained, WorkerInv, TypeOK, WsRecords
<1>2. /\ ws.pc = "drained"
      /\ UNCHANGED << transport, chan, spool, streamer, proc, retire, sent, overrun, stopping,
           woken >>
  BY DEF SpoolDrained, build
<1>3. transport = "live" /\ (active.b = ws.b \/ active.b = None)
  BY <1>2, DrainFacts DEF DrainPcs
<1>4. /\ active'.b = active.b /\ active'.exec = active.exec /\ active'.task = active.task
      /\ active'.exhausted = active.exhausted /\ active'.pending = active.pending
      /\ active.b = ws.b => ~active'.path
  BY ZenonT(60) DEF SpoolDrained, WorkerInv, TypeOK, ActiveRecords
<1>5. Connected'
  BY <1>1, <1>2, <1>3, ZenonT(60) DEF OutputInv, Connected, LivePcs, DrainedPcs, TodoPcs, DrainPcs
<1>6. ASSUME NEW b \in Builds \ overrun PROVE SpoolOf(b)'
  <2>1. CASE active.b # b
    BY <1>4, <2>1, ZenonT(60) DEF SpoolOf
  <2>2. CASE active.b = b
    <3>1. SpoolOf(b) /\ Finished(b)' = Finished(b) /\ ~active'.path
      BY <1>2, <1>3, <1>4, <1>6, <2>2, IdentityAssumption, ZenonT(60) DEF OutputInv, SpoolOK, Finished
    <3>2. ws.pc \in DrainedPcs /\ ws.pc \notin {"sd_join", "sd_clear"}
      BY <1>2 DEF DrainedPcs
    <3>3. spool[b] # << >> => Finished(b)
      BY <2>2, <3>1, <3>2, ZenonT(60) DEF SpoolOf
    <3> QED
      BY <1>1, <1>2, <1>4, <2>2, <3>1, <3>3, ZenonT(60) DEF SpoolOf
  <2> QED
    BY <2>1, <2>2
<1>7. SpoolOK'
  BY <1>2, <1>6 DEF OutputInv, SpoolOK
<1>8. StreamOK' /\ RetireOK'
  BY <1>1, <1>2, StreamFrame, RetireFrame DEF NewPcs
<1>9. HandleInv'
  BY <1>1, <1>2, <1>4, HandleFrame DEF Running, SdPcs
<1>10. ASSUME NEW b \in Builds \ overrun PROVE OrderOf(b)'
  <2>1. OrderOf(b)
    BY DEF OutputInv, InOrder
  <2>2. Early(b)' = Early(b) /\ Edge(b)' = Edge(b) /\ Edge(b) \in Nat
    BY <1>1, <1>2, StageType DEF Early, Edge
  <2>3. Late(b)' = << >>
    BY <1>1, <1>3, <1>4, IdentityAssumption, ZenonT(60) DEF Late, LiveSpool
  <2> QED
    BY <1>2, <2>1, <2>2, <2>3, OrderKept
<1> QED
  BY <1>2, <1>5, <1>7, <1>8, <1>9, <1>10 DEF OutputInv, InOrder

-----------------------------------------------------------------------------
(* A message on the wire *)

LEMMA FrameKinds ==
    ASSUME NEW m \in Frames
    PROVE  /\ m.b \in Builds => /\ m # Metrics /\ m \in Messages
                                /\ m = [b |-> m.b, n |-> m.n] /\ m.n \in 0 .. MaxOutput
           /\ m.b \notin Builds => m = Metrics
           /\ m.n = Fin => m.b \in Builds
BY IdentityAssumption, BoundsAssumption DEF Frames, Messages, Metrics, Fin

LEMMA WireAppend ==
    ASSUME WorkerInv, NEW m \in Messages, NEW b \in Builds, m.b = b,
           sent'[b] = Append(sent[b], m.n)
    PROVE  Wire(b)' = Append(Wire(b), m)
<1> DEFINE s == sent[b]
           n == Len(sent[b])
<1>1. s \in Seq(0 .. MaxOutput) /\ n \in Nat /\ DOMAIN s = 1 .. n /\ m = [b |-> b, n |-> m.n]
  <2>1. s \in Seq(0 .. MaxOutput)
    BY DEF WorkerInv, TypeOK
  <2> QED
    BY <2>1, SeqFacts DEF Messages
<1>2. Wire(b) \in Seq(Messages) /\ DOMAIN Wire(b) = 1 .. n /\ Len(Wire(b)) = n
  <2>1. Wire(b) \in Seq(Messages) /\ DOMAIN Wire(b) = 1 .. n
    BY <1>1, WireType
  <2> QED
    BY <1>1, <2>1, SeqFacts
<1> DEFINE a == Append(Wire(b), m)
           z == Append(s, m.n)
<1>3. DOMAIN a = 1 .. n + 1 /\ a[n + 1] = m /\ \A i \in 1 .. n : a[i] = Wire(b)[i]
  <2> DEFINE w == Wire(b)
  <2>1. w \in Seq(Messages) /\ Len(w) = n /\ n \in Nat /\ a = Append(w, m)
    BY <1>1, <1>2
  <2> HIDE DEF w, n, a
  <2>2. DOMAIN a = 1 .. n + 1 /\ a[n + 1] = m /\ \A i \in 1 .. n : a[i] = w[i]
    BY <2>1
  <2> QED
    BY <2>2 DEF w
<1>4. DOMAIN z = 1 .. n + 1 /\ z[n + 1] = m.n /\ \A i \in 1 .. n : z[i] = s[i]
  BY <1>1
<1>5. \A i \in 1 .. n : a[i] = [b |-> b, n |-> z[i]]
  BY <1>1, <1>3, <1>4 DEF Wire
<1>6. \A i \in 1 .. n + 1 : a[i] = [b |-> b, n |-> z[i]]
  BY <1>1, <1>3, <1>4, <1>5
<1>7. Wire(b)' = [i \in DOMAIN z |-> [b |-> b, n |-> z[i]]]
  BY DEF Wire
<1>8. a = [i \in DOMAIN a |-> a[i]]
  <2>1. a \in Seq(Messages)
    BY <1>2
  <2> QED
    BY <2>1, SeqFacts, ZenonT(60)
<1> HIDE DEF a, z, s, n
<1>9. [i \in DOMAIN z |-> [b |-> b, n |-> z[i]]] = [i \in DOMAIN a |-> a[i]]
  BY <1>3, <1>4, <1>6
<1> QED
  BY <1>7, <1>8, <1>9 DEF a

LEMMA OnWireEffect ==
    ASSUME WorkerInv, NEW m \in Frames, OnWire(m), NEW b \in Builds
    PROVE  /\ m.b = b => Wire(b)' = Append(Wire(b), m)
           /\ m.b # b => Wire(b)' = Wire(b)
           /\ Finished(b) => Finished(b)'
           /\ m.b = b /\ m.n = Fin => Finished(b)'
           /\ Finished(b)' => Finished(b) \/ (m.b = b /\ m.n = Fin)
<1>1. CASE m.b = b
  <2>1. m \in Messages /\ sent'[b] = Append(sent[b], m.n)
    BY <1>1, FrameKinds DEF OnWire, WorkerInv, TypeOK
  <2>2. sent[b] \in Seq(0 .. MaxOutput) /\ m.n \in 0 .. MaxOutput
    BY <1>1, FrameKinds DEF WorkerInv, TypeOK
  <2> DEFINE s == sent[b]
             z == Append(s, m.n)
  <2>3. /\ DOMAIN s = 1 .. Len(s) /\ Len(s) \in Nat
        /\ DOMAIN z = 1 .. Len(s) + 1 /\ z[Len(s) + 1] = m.n
        /\ \A i \in 1 .. Len(s) : z[i] = s[i]
    BY <2>2
  <2>4. Finished(b)' <=> \E i \in DOMAIN z : z[i] = Fin
    BY <2>1 DEF Finished
  <2>5. Finished(b) <=> \E i \in DOMAIN s : s[i] = Fin
    BY DEF Finished
  <2> HIDE DEF s, z
  <2>6. Finished(b)' <=> Finished(b) \/ m.n = Fin
    BY <2>3, <2>4, <2>5
  <2> QED
    BY <1>1, <2>1, <2>6, WireAppend
<1>2. CASE m.b # b
  <2>1. sent'[b] = sent[b]
    BY <1>2, FrameKinds DEF OnWire, WorkerInv, TypeOK
  <2> QED
    BY <1>2, <2>1 DEF Wire, Finished
<1> QED
  BY <1>1, <1>2

LEMMA SpawnRetireFields ==
    ASSUME WorkerInv, NEW m \in Frames, SpawnRetire(m)
    PROVE  \/ retire' = retire
           \/ \E k \in Retirers :
                /\ m.n = Fin /\ retire[k].pc = "idle"
                /\ retire'[k].pc = "take" /\ retire'[k].b = m.b
                /\ \A i \in Retirers : i # k => retire'[i] = retire[i]
<1>1. CASE m.n # Fin
  BY <1>1 DEF SpawnRetire
<1>2. CASE m.n = Fin
  <2>1. PICK k \in Retirers :
          /\ retire[k].pc = "idle"
          /\ retire' = [retire EXCEPT ![k] = [NoRetire EXCEPT !.pc = "take", !.b = m.b]]
    BY <1>2 DEF SpawnRetire
  <2>2. retire'[k].pc = "take" /\ retire'[k].b = m.b
    BY <2>1, ZenonT(60) DEF WorkerInv, TypeOK, NoRetire
  <2>3. \A i \in Retirers : i # k => retire'[i] = retire[i]
    BY <2>1, ZenonT(60) DEF WorkerInv, TypeOK
  <2> QED
    BY <1>2, <2>1, <2>2, <2>3
<1> QED
  BY <1>1, <1>2

LEMMA WiredRetire ==
    ASSUME WorkerInv, OutputInv, NEW m \in Frames, OnWire(m), SpawnRetire(m), overrun' = overrun,
           m.n = Fin /\ m.b \notin overrun => ~Finished(m.b)
    PROVE  RetireOK'
<1>1. /\ \A b \in Builds : Finished(b) => Finished(b)'
      /\ m.n = Fin => m.b \in Builds /\ Finished(m.b)'
  BY OnWireEffect, FrameKinds
<1>2. CASE retire' = retire
  BY <1>1, <1>2 DEF OutputInv, RetireOK
<1>3. CASE \E k \in Retirers :
             /\ m.n = Fin /\ retire[k].pc = "idle"
             /\ retire'[k].pc = "take" /\ retire'[k].b = m.b
             /\ \A i \in Retirers : i # k => retire'[i] = retire[i]
  <2>1. PICK k \in Retirers :
             /\ m.n = Fin /\ retire[k].pc = "idle"
             /\ retire'[k].pc = "take" /\ retire'[k].b = m.b
             /\ \A i \in Retirers : i # k => retire'[i] = retire[i]
    BY <1>3
  <2>2. ASSUME NEW i \in Retirers, retire'[i].pc # "idle"
        PROVE  \E b \in Builds : retire'[i].b = b /\ Finished(b)'
    <3>1. CASE i = k
      BY <1>1, <2>1, <3>1
    <3>2. CASE i # k
      <4>1. retire'[i] = retire[i] /\ retire[i].b \in Builds /\ Finished(retire[i].b)
        BY <2>1, <2>2, <3>2 DEF OutputInv, RetireOK
      <4> QED
        BY <1>1, <4>1
    <3> QED
      BY <3>1, <3>2
  <2>3. \A i \in Retirers : i # k /\ retire[i].pc # "idle" /\ m.b \notin overrun
          => retire[i].b # m.b
    BY <2>1 DEF OutputInv, RetireOK
  <2>4. ASSUME NEW i \in Retirers, NEW j \in Retirers, retire'[i].pc # "idle",
                 retire'[j].pc # "idle",
               retire'[i].b = retire'[j].b, retire'[i].b \notin overrun
        PROVE  i = j
    BY <2>1, <2>3, <2>4, ZenonT(60) DEF OutputInv, RetireOK
  <2> QED
    BY <2>2, <2>4 DEF RetireOK, Finished
<1> QED
  BY <1>2, <1>3, SpawnRetireFields

LEMMA WiredHandles ==
    ASSUME WorkerInv, HandleInv, NEW m \in Frames, OnWire(m), SpawnRetire(m),
           UNCHANGED << active, streamer, proc, stopping, overrun >>, woken' => woken,
           ws.pc \in {"flush", "loop"}, ws'.pc = ws.pc
    PROVE  HandleInv'
<1>1. woken' \/ ws'.pc \in SdPcs => stopping'
  BY DEF HandleInv, SdPcs
<1>2. ASSUME ~stopping, NEW b \in Builds \ overrun PROVE HandleOf(b)'
  <2>1. HandleOf(b) /\ Running(b)' = Running(b) /\ Reading(b)' = Reading(b)
    BY <1>2 DEF HandleInv, Running, Reading
  <2>2. /\ \A i \in Retirers : retire[i].pc \in {"join", "clear"} => retire'[i] = retire[i]
        /\ \A i \in Retirers : retire'[i].pc \in {"join", "clear"} => retire'[i] = retire[i]
    BY SpawnRetireFields, ZenonT(60)
  <2>4. (\E i \in Retirers : retire[i].pc = "join" /\ retire[i].b = b /\ retire[i].exec)
          => \E i \in Retirers : retire'[i].pc = "join" /\ retire'[i].b = b /\ retire'[i].exec
    BY <2>2, ZenonT(60)
  <2>5. (\E i \in Retirers : retire[i].pc = "join" /\ retire[i].b = b /\ retire[i].task)
          => \E i \in Retirers : retire'[i].pc = "join" /\ retire'[i].b = b /\ retire'[i].task
    BY <2>2, ZenonT(60)
  <2>6. \A i \in Retirers : retire'[i].b = b =>
         /\ retire'[i].pc \in {"join", "clear"} /\ active.b = b => ~active.exec /\ ~active.task
         /\ retire'[i].pc = "clear" => ~Running(b) /\ ~Reading(b)
    BY <2>1, <2>2, ZenonT(60) DEF HandleOf
  <2> QED
    BY <2>1, <2>4, <2>5, <2>6, ZenonT(60) DEF HandleOf
<1> QED
  BY <1>1, <1>2 DEF HandleInv

\* The end of b is not put on the wire twice.
LEMMA FinOnce ==
    ASSUME WorkerInv, NEW b \in Builds, NEW h \in Seq(Frames), h # << >>, NEW c \in Seq(Frames),
           InLine(Wire(b), h, << >>, c, b, Edge(b)), Head(h).b = b, Head(h).n = Fin
    PROVE  ~Finished(b)
<1>1. Wire(b) \in Seq(Frames)
  BY WireType
<1>2. Precedes(Wire(b), h, b)
  BY <1>1, LineParts, EmptyType, ZenonT(60)
<1>3. Below(Wire(b), b, MaxOutput + 1)
  BY <1>1, <1>2, TailParts, ZenonT(60) DEF Rank
<1>4. SUFFICES ASSUME NEW i \in DOMAIN sent[b], sent[b][i] = Fin PROVE FALSE
  BY DEF Finished
<1>5. i \in DOMAIN Wire(b) /\ Wire(b)[i].b = b /\ Wire(b)[i].n = Fin
  BY <1>4, WireType, ZenonT(60)
<1>6. Rank(Fin) < MaxOutput + 1 /\ Rank(Fin) = MaxOutput + 1
  BY <1>3, <1>5 DEF Below, Rank
<1> QED
  BY <1>6, BoundsAssumption

\* While a connection is past the drain, no spool waits to be drained.
LEMMA NothingSpooled ==
    ASSUME OutputInv, ws.pc \in DrainedPcs, NEW b \in Builds \ overrun
    PROVE  LiveSpool(b) = << >>
<1>1. SpoolOf(b) /\ ws.pc # "drain"
  BY DEF OutputInv, SpoolOK, DrainedPcs, NewPcs, SdPcs
<1> QED
  BY <1>1, ZenonT(60) DEF SpoolOf, LiveSpool

\* What both ways to the wire have in common: the stage h next to it loses its head.
LEMMA WiredLine ==
    ASSUME WorkerInv, NEW b \in Builds, NEW h \in Seq(Frames), h # << >>, NEW c \in Seq(Frames),
           InLine(Wire(b), h, << >>, c, b, Edge(b)), OnWire(Head(h)), streamer' = streamer
    PROVE  InLine(Wire(b)', Tail(h), << >>, c, b, Edge(b)')
<1>1. Wire(b) \in Seq(Frames) /\ Head(h) \in Frames
  BY WireType, TailParts, ZenonT(60)
<1>2. Edge(b)' = Edge(b)
  BY DEF Edge
<1>3. CASE Head(h).b = b
  BY <1>1, <1>2, <1>3, LineForward, OnWireEffect, ZenonT(60)
<1>4. CASE Head(h).b # b
  BY <1>1, <1>2, <1>4, LineForward, OnWireEffect
<1> QED
  BY <1>3, <1>4

LEMMA FlushOutput ==
    ASSUME WorkerInv, WorkerInv', OutputInv, HandleInv, Flush
    PROVE  OutputInv' /\ HandleInv'
<1>1. CASE Leave /\ UNCHANGED << sent, retire >>
  <2>1. Calm
    BY <1>1, LeaveCalm DEF Flush, Alone
  <2> QED
    BY <2>1, CalmStep
<1>2. CASE /\ ws' = [ws EXCEPT !.todo = Tail(@)]
           /\ OnWire(Head(ws.todo)) /\ SpawnRetire(Head(ws.todo))
           /\ UNCHANGED << chan, transport >>
  <2> DEFINE h == ws.todo
             m == Head(ws.todo)
  <2>1. /\ h \in Seq(Frames) /\ h # << >> /\ ws.pc = "flush"
        /\ ws'.pc = "flush" /\ ws'.b = ws.b /\ ws'.todo = Tail(h)
        /\ UNCHANGED << active, spool, streamer, proc, stopping, woken, overrun >>
    <3>1. h \in Seq(Messages) /\ h # << >> /\ ws.pc = "flush"
      BY DEF Flush, WorkerInv, TypeOK, WsRecords
    <3>2. ws'.pc = "flush" /\ ws'.b = ws.b /\ ws'.todo = Tail(h)
      BY <1>2, <3>1, ZenonT(60) DEF WorkerInv, TypeOK, WsRecords
    <3> QED
      BY <3>1, <3>2, MessagesAreFrames DEF Flush
  <2>2. /\ m \in Frames /\ Tail(h) \in Seq(Frames)
        /\ \A i \in DOMAIN Tail(h) : \E j \in DOMAIN h : Tail(h)[i] = h[j]
        /\ \E j \in DOMAIN h : m = h[j]
    BY <2>1
  <2>3. \A b \in Builds \ overrun : InLine(Wire(b), h, << >>, chan, b, Edge(b))
          /\ chan \in Seq(Frames)
    <3>1. TAKE b \in Builds \ overrun
    <3>2. LiveSpool(b) = << >>
      BY <2>1, NothingSpooled DEF DrainedPcs
    <3>3. OrderOf(b)
      BY DEF OutputInv, InOrder
    <3>4. Early(b) = h /\ Late(b) = << >>
      BY <2>1, <3>2 DEF Early, Late
    <3> QED
      BY <3>3, <3>4, StageType DEF OrderOf
  <2>4. m.n = Fin /\ m.b \notin overrun => ~Finished(m.b)
    BY <2>1, <2>2, <2>3, FrameKinds, FinOnce
  <2> HIDE DEF m
  <2>5. RetireOK' /\ HandleInv'
    BY <1>2, <2>1, <2>2, <2>4, WiredRetire, WiredHandles DEF m
  <2>6. Connected'
    BY <1>2, <2>1 DEF OutputInv, Connected, LivePcs, DrainedPcs, TodoPcs, DrainPcs
  <2>7. StreamOK'
    BY <2>1, StreamFrame DEF NewPcs
  <2>8. ASSUME NEW b \in Builds \ overrun, active.b = b PROVE SpoolOf(b)'
    <3>1. SpoolOf(b) /\ ws.pc \in DrainedPcs
      BY <2>1 DEF OutputInv, SpoolOK, DrainedPcs
    <3>2. /\ Finished(b) => Finished(b)'
          /\ Finished(b)' => Finished(b) \/ (m.b = b /\ m.n = Fin)
      BY <1>2, <2>2, OnWireEffect DEF m
    <3>3. m.b = b /\ m.n = Fin => m = [b |-> b, n |-> Fin]
      BY <2>2, FrameKinds
    <3>4. active.pending =>
            /\ ~Finished(b)'
            /\ \A i \in DOMAIN ws'.todo : ws'.todo[i] # [b |-> b, n |-> Fin]
      BY <2>1, <2>2, <2>8, <3>1, <3>2, <3>3, ZenonT(60) DEF SpoolOf
    <3> QED
      BY <1>2, <2>1, <2>8, <3>1, <3>2, <3>4, ZenonT(60) DEF SpoolOf
  <2>9. SpoolOK'
    <3>1. ASSUME NEW b \in Builds, active.b # b PROVE SpoolOf(b)'
      BY <2>1, <3>1 DEF SpoolOf
    <3> QED
      BY <2>1, <2>8, <3>1 DEF OutputInv, SpoolOK
  <2>10. ASSUME NEW b \in Builds \ overrun PROVE OrderOf(b)'
    <3>1. InLine(Wire(b)', Tail(h), << >>, chan, b, Edge(b)')
      BY <1>2, <2>1, <2>3, WiredLine
    <3>2. LiveSpool(b)' = LiveSpool(b) /\ LiveSpool(b) = << >>
      <4>1. LiveSpool(b) = << >>
        BY <2>1, NothingSpooled DEF DrainedPcs
      <4> QED
        BY <2>1, <4>1 DEF LiveSpool
    <3>3. Early(b)' = Tail(h) /\ Late(b)' = << >>
      BY <2>1, <3>2 DEF Early, Late
    <3> QED
      BY <1>2, <3>1, <3>3 DEF OrderOf
  <2> QED
    BY <2>1, <2>5, <2>6, <2>7, <2>9, <2>10 DEF OutputInv, InOrder
<1> QED
  BY <1>1, <1>2 DEF Flush

LEMMA ForwardOutputOutput ==
    ASSUME WorkerInv, WorkerInv', OutputInv, HandleInv, ForwardOutput
    PROVE  OutputInv' /\ HandleInv'
<1>1. CASE Leave /\ UNCHANGED << sent, retire >>
  <2>1. Calm
    BY <1>1, LeaveCalm DEF ForwardOutput, Alone
  <2> QED
    BY <2>1, CalmStep
<1>2. CASE /\ chan' = Tail(chan)
           /\ OnWire(Head(chan)) /\ SpawnRetire(Head(chan))
           /\ UNCHANGED << ws, transport >>
  <2> DEFINE m == Head(chan)
  <2>1. /\ chan \in Seq(Frames) /\ chan # << >> /\ ws.pc = "loop" /\ ~woken' /\ ws.todo = << >>
        /\ UNCHANGED << active, spool, streamer, proc, stopping, overrun >>
    BY LoopTodo DEF ForwardOutput, WorkerInv, TypeOK
  <2>2. /\ m \in Frames /\ Tail(chan) \in Seq(Frames)
        /\ \A i \in DOMAIN Tail(chan) : \E j \in DOMAIN chan : Tail(chan)[i] = chan[j]
        /\ \E j \in DOMAIN chan : m = chan[j]
    BY <2>1
  <2>3. \A b \in Builds \ overrun : InLine(Wire(b), chan, << >>, << >>, b, Edge(b))
    <3>1. TAKE b \in Builds \ overrun
    <3>2. LiveSpool(b) = << >>
      BY <2>1, NothingSpooled DEF DrainedPcs
    <3>3. OrderOf(b)
      BY DEF OutputInv, InOrder
    <3>4. Early(b) = << >> /\ Late(b) = << >>
      BY <2>1, <3>2 DEF Early, Late
    <3>5. InLine(Wire(b), << >>, << >>, chan, b, Edge(b))
      BY <3>3, <3>4 DEF OrderOf
    <3> QED
      BY <2>1, <3>5, LineShift, WireType
  <2>4. m.n = Fin /\ m.b \notin overrun => ~Finished(m.b)
    BY <2>1, <2>2, <2>3, FrameKinds, FinOnce, EmptyType, ZenonT(60)
  <2> HIDE DEF m
  <2>5. RetireOK' /\ HandleInv'
    BY <1>2, <2>1, <2>2, <2>4, WiredRetire, WiredHandles, ZenonT(60) DEF m
  <2>6. Connected'
    BY <1>2, <2>1 DEF OutputInv, Connected, LivePcs, DrainedPcs, TodoPcs, DrainPcs
  <2>7. StreamOK'
    BY <1>2, <2>1, StreamFrame DEF NewPcs
  <2>8. ASSUME NEW b \in Builds \ overrun, active.b = b PROVE SpoolOf(b)'
    <3>1. SpoolOf(b)
      BY <2>1 DEF OutputInv, SpoolOK
    <3>2. /\ Finished(b) => Finished(b)'
          /\ Finished(b)' => Finished(b) \/ (m.b = b /\ m.n = Fin)
      BY <1>2, <2>2, OnWireEffect DEF m
    <3>3. active.pending => ~Finished(b)' /\ \A i \in DOMAIN chan' : chan'[i].b # b
      BY <1>2, <2>1, <2>2, <2>8, <3>1, <3>2, ZenonT(60) DEF SpoolOf
    <3> QED
      BY <1>2, <2>1, <2>8, <3>1, <3>2, <3>3, ZenonT(60) DEF SpoolOf
  <2>9. SpoolOK'
    <3>1. ASSUME NEW b \in Builds, active.b # b PROVE SpoolOf(b)'
      BY <2>1, <3>1 DEF SpoolOf
    <3> QED
      BY <2>1, <2>8, <3>1 DEF OutputInv, SpoolOK
  <2>10. ASSUME NEW b \in Builds \ overrun PROVE OrderOf(b)'
    <3>1. InLine(Wire(b)', Tail(chan), << >>, << >>, b, Edge(b)')
      BY <1>2, <2>1, <2>3, WiredLine, EmptyType, ZenonT(60)
    <3>2. Wire(b)' \in Seq(Frames)
      <4>1. Wire(b)' = Append(Wire(b), m) \/ Wire(b)' = Wire(b)
        BY <1>2, <2>2, OnWireEffect DEF m
      <4> QED
        BY <2>2, <4>1, WireType, AppendParts
    <3>3. InLine(Wire(b)', << >>, << >>, Tail(chan), b, Edge(b)')
      BY <2>2, <3>1, <3>2, LineShift, ZenonT(60)
    <3>4. Early(b)' = << >> /\ Late(b)' = << >>
      <4>1. LiveSpool(b) = << >>
        BY <2>1, NothingSpooled DEF DrainedPcs
      <4> QED
        BY <1>2, <2>1, <4>1 DEF LiveSpool, Early, Late
    <3> QED
      BY <1>2, <3>3, <3>4 DEF OrderOf
  <2> QED
    BY <2>1, <2>5, <2>6, <2>7, <2>9, <2>10 DEF OutputInv, InOrder
<1> QED
  BY <1>1, <1>2 DEF ForwardOutput
=============================================================================
