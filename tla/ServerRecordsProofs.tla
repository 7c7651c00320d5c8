------------------------ MODULE ServerRecordsProofs -------------------------
(***************************************************************************)
(* Proofs about what the server keeps beside the queue: the channel the    *)
(* images of a build go to, for any number of channels, types, accounts    *)
(* and requests in progress; the credentials, for any number of them; and  *)
(* the log of a build, for any number of followers, lines, dispatches and  *)
(* faults.                                                                 *)
(***************************************************************************)
EXTENDS BuildLogs, Channels, Credentials, SequenceTheorems, TLAPS

(***************************************************************************)
(* The channel registry.                                                   *)
(*                                                                         *)
(* The inductive invariant adds one fact to the properties themselves: a   *)
(* request about to place its build carries names that the pair bore when  *)
(* it was resolved, and a request between its checks carries a step that   *)
(* is not the placing of a build.                                          *)
(***************************************************************************)

\* A request on one type remembers which of the three handlers it is in.
TypeSteps == {"update_type", "delete_type", "set_default_type"}

\* What the request in slot s may rely on when it reaches its next statement.
GoodRequest(r) ==
    /\ r \in Requests
    /\ r.pc = "check_type" => r.landed[1] \in TypeSteps
    /\ r.pc \in {"lookup_channel", "lookup_type", "resolve", "list_types", "set_home"}
         => r.user \in Users
    /\ r.pc \in {"place", "placed"} => r.landed = <<r.name, r.tname>>
    /\ r.pc = "placed" => /\ r.landed \in Covered
                          /\ r.user \in Robots /\ r.src # "scheduled" => ~r.username

\* The three tables.
Tables ==
    /\ chan \in [ChannelIds -> ChannelRow]
    /\ type \in [TypeIds -> TypeRow]
    /\ home \in [Users -> 0 .. MaxChannels]

GoodRequests == req \in [Slots -> Requests] /\ \A s \in Slots : GoodRequest(req[s])

ChannelsInv == Tables /\ DefaultTypeLive /\ GoodRequests

-----------------------------------------------------------------------------
(* A slot's request is replaced by a good one, or freed.                    *)

\* A free slot holds a good request.
LEMMA IdleGood == GoodRequest(Idle)
BY ChannelsAssumption DEF Idle, GoodRequest, Requests, Steps

\* Replacing one slot's request by a good one keeps all of them good.
LEMMA SlotReplaced ==
    ASSUME GoodRequests, NEW s \in Slots, NEW r, GoodRequest(r),
           req' = [req EXCEPT ![s] = r]
    PROVE  GoodRequests'
BY DEF GoodRequests, GoodRequest

\* Freeing a slot keeps the requests good.
LEMMA SlotFreed ==
    ASSUME GoodRequests, NEW s \in Slots, Free(s)
    PROVE  GoodRequests'
BY IdleGood, SlotReplaced, ZenonT(60) DEF Free

\* A handler that only moves its request leaves the tables as they were.
LEMMA TablesKept ==
    ASSUME Tables, DefaultTypeLive, UNCHANGED <<chan, type, home>>
    PROVE  Tables' /\ DefaultTypeLive'
BY DEF Tables, DefaultTypeLive, ActiveChannel, ActiveType

-----------------------------------------------------------------------------
(* The statements on the tables.                                            *)

\* POST /channels: the new channel has no default type.
LEMMA CreateChannelInv ==
    ASSUME ChannelsInv, NEW n \in Names, CreateChannel(n)
    PROVE  ChannelsInv'
<1>1. PICK c \in ChannelIds : InsertChannel(n, c)
  BY DEF CreateChannel
<1>2. Tables'
  BY <1>1, ChannelsAssumption DEF ChannelsInv, Tables, InsertChannel, CreateChannel, ChannelRow
<1>3. DefaultTypeLive'
  BY <1>1 DEF ChannelsInv, Tables, InsertChannel, CreateChannel, ChannelRow,
              DefaultTypeLive, ActiveChannel, ActiveType
<1>4. GoodRequests'
  BY DEF ChannelsInv, CreateChannel, GoodRequests
<1> QED BY <1>2, <1>3, <1>4 DEF ChannelsInv

\* DELETE /channels/{id}: the types that go are no other channel's default.
LEMMA DeleteChannelInv ==
    ASSUME ChannelsInv, NEW c \in ChannelIds, DeleteChannel(c)
    PROVE  ChannelsInv'
<1>1. Tables'
  BY ChannelsAssumption DEF ChannelsInv, Tables, DeleteChannel, SoftDeleteChannel, DeletedChannel,
         DeletedType, ChannelRow, TypeRow
<1>2. DefaultTypeLive'
  <2> SUFFICES ASSUME NEW d \in ChannelIds, ActiveChannel(d)', chan'[d].def # 0
               PROVE  (ActiveType(chan[d].def) /\ type[chan[d].def].ch = d)'
    BY DEF DefaultTypeLive
  <2>1. d # c /\ ActiveChannel(d) /\ chan'[d] = chan[d]
    BY DEF ChannelsInv, Tables, DeleteChannel, SoftDeleteChannel, DeletedChannel, ActiveChannel
  <2>2. ActiveType(chan[d].def) /\ type[chan[d].def].ch = d
    BY <2>1 DEF ChannelsInv, DefaultTypeLive
  <2>3. chan[d].def \in TypeIds /\ chan[d].def \notin TypesOf(c)
    BY <2>1, <2>2 DEF TypesOf, ActiveType
  <2>4. type'[chan[d].def] = type[chan[d].def]
    BY <2>3 DEF DeleteChannel, SoftDeleteChannel
  <2> QED BY <2>1, <2>2, <2>4 DEF ActiveType
<1>3. GoodRequests'
  BY DEF ChannelsInv, DeleteChannel, GoodRequests
<1> QED BY <1>1, <1>2, <1>3 DEF ChannelsInv

\* The clearing of a default channel touches neither channels nor types.
LEMMA ClearHomeInv ==
    ASSUME ChannelsInv, NEW u \in Users, ClearHome(u)
    PROVE  ChannelsInv'
BY ChannelsAssumption DEF ChannelsInv, ClearHome, SetDefaultChannel, Tables, DefaultTypeLive, ActiveChannel,
       ActiveType, GoodRequests

\* PUT /channels/{id}: a rename leaves the default type alone.
LEMMA UpdateChannelInv ==
    ASSUME ChannelsInv, NEW s \in Slots, UpdateChannel(s)
    PROVE  ChannelsInv'
<1>1. req[s].name \in Names \cup {None} /\ chan \in [ChannelIds -> ChannelRow]
  BY DEF ChannelsInv, Tables, GoodRequests, Requests
<1>2. \A c \in ChannelIds : /\ chan'[c] \in ChannelRow
                            /\ chan'[c].st = chan[c].st /\ chan'[c].def = chan[c].def
  BY <1>1 DEF UpdateChannel, RenameChannel, ChannelRow
<1>3. Tables'
  BY <1>1, <1>2, ZenonT(60) DEF ChannelsInv, Tables, UpdateChannel, RenameChannel
<1>4. DefaultTypeLive'
  BY <1>2 DEF ChannelsInv, UpdateChannel, DefaultTypeLive, ActiveChannel, ActiveType
<1> QED BY <1>3, <1>4, SlotFreed DEF ChannelsInv, UpdateChannel

\* POST /channels/{id}/types: the row that is inserted was no channel's default.
LEMMA CreateTypeInv ==
    ASSUME ChannelsInv, NEW s \in Slots, CreateType(s)
    PROVE  ChannelsInv'
<1>0. /\ req[s] \in Requests
      /\ chan' = chan /\ home' = home
  BY ZenonT(60) DEF ChannelsInv, GoodRequests, CreateType
<1>1. CASE type' = type /\ Free(s)
  BY <1>0, <1>1, TablesKept, SlotFreed DEF ChannelsInv
<1>2. ASSUME NEW t \in TypeIds,
             InsertType(req[s].ch, req[s].tname, req[s].username, t),
             \/ req' = [req EXCEPT ![s] = [Idle EXCEPT !.pc = "set_default_type",
                                                       !.ch = req[s].ch, !.ty = t]]
             \/ Free(s)
      PROVE  ChannelsInv'
  <2>1. Tables'
    BY <1>0, <1>2 DEF ChannelsInv, Tables, InsertType, TypeRow, Requests
  <2>2. DefaultTypeLive'
    BY <1>0, <1>2 DEF ChannelsInv, Tables, InsertType, NextId, DefaultTypeLive,
                      ActiveChannel, ActiveType
  <2>3. GoodRequests'
    <3> DEFINE r == [Idle EXCEPT !.pc = "set_default_type", !.ch = req[s].ch, !.ty = t]
    <3>0. r \in Requests
      <4>1. req[s].ch \in 0 .. MaxChannels /\ t \in 0 .. MaxTypes
        BY <1>0, <1>2, ChannelsAssumption DEF Requests, TypeIds
      <4>2. Idle \in Requests /\ "set_default_type" \in Steps
        BY IdleGood DEF GoodRequest, Steps
      <4> QED BY <4>1, <4>2, ZenonT(60) DEF Requests
    <3>1. GoodRequest(r)
      <4>1. r.pc = "set_default_type"
        BY DEF Idle
      <4> HIDE DEF r
      <4> QED BY <3>0, <4>1 DEF GoodRequest
    <3> HIDE DEF r
    <3>2. CASE req' = [req EXCEPT ![s] = r]
      BY <3>1, <3>2, SlotReplaced, ZenonT(60) DEF ChannelsInv
    <3> QED BY <1>2, <3>2, SlotFreed DEF ChannelsInv, r
  <2> QED BY <2>1, <2>2, <2>3 DEF ChannelsInv
<1> QED BY <1>1, <1>2, ZenonT(60) DEF CreateType

\* PUT /channels/{id}/types/{tid}: a template change keeps the type where it is.
LEMMA UpdateTypeInv ==
    ASSUME ChannelsInv, NEW s \in Slots, UpdateType(s)
    PROVE  ChannelsInv'
<1>1. req[s].username \in BOOLEAN /\ type \in [TypeIds -> TypeRow]
  BY DEF ChannelsInv, Tables, GoodRequests, Requests
<1> DEFINE b == req[s].username
<1>2. b \in BOOLEAN /\ SetTemplate(req[s].ty, b)
  BY <1>1 DEF UpdateType
<1> HIDE DEF b
<1>3. \A t \in TypeIds : /\ type'[t] \in TypeRow
                         /\ type'[t].st = type[t].st /\ type'[t].ch = type[t].ch
  BY <1>1, <1>2 DEF SetTemplate, TypeRow
<1>4. Tables'
  BY <1>1, <1>2, <1>3, ZenonT(60) DEF ChannelsInv, Tables, UpdateType, SetTemplate
<1>5. DefaultTypeLive'
  BY <1>3 DEF ChannelsInv, UpdateType, DefaultTypeLive, ActiveChannel, ActiveType
<1> QED BY <1>4, <1>5, SlotFreed DEF ChannelsInv, UpdateType

\* DELETE /channels/{id}/types/{tid}: whoever pointed at the type is cleared in
\* the same transaction.
LEMMA DeleteTypeInv ==
    ASSUME ChannelsInv, NEW s \in Slots, DeleteType(s)
    PROVE  ChannelsInv'
<1> DEFINE t == req[s].ty
<1>0. SoftDeleteType(t) /\ Free(s) /\ home' = home
  BY DEF DeleteType
<1> HIDE DEF t
<1>1. CASE ~ActiveType(t)
  BY <1>0, <1>1, TablesKept, SlotFreed DEF ChannelsInv, SoftDeleteType
<1>2. CASE ActiveType(t)
  <2>0. /\ type' = [type EXCEPT ![t] = DeletedType]
        /\ chan' = [c \in ChannelIds |-> IF chan[c].def = t THEN [chan[c] EXCEPT !.def = 0]
                                                            ELSE chan[c]]
    BY <1>0, <1>2 DEF SoftDeleteType
  <2>1. \A c \in ChannelIds : /\ chan'[c] \in ChannelRow
                              /\ chan'[c].st = chan[c].st
                              /\ chan'[c].def = IF chan[c].def = t THEN 0 ELSE chan[c].def
    BY <2>0, ChannelsAssumption DEF ChannelsInv, Tables, ChannelRow
  <2>2. Tables'
    <3>1. DeletedType \in TypeRow
      BY ChannelsAssumption DEF DeletedType, TypeRow
    <3> QED BY <1>0, <2>0, <2>1, <3>1, ZenonT(60) DEF ChannelsInv, Tables
  <2>3. DefaultTypeLive'
    BY <1>2, <2>0, <2>1 DEF ChannelsInv, Tables, DefaultTypeLive, ActiveChannel, ActiveType
  <2> QED BY <1>0, <2>2, <2>3, SlotFreed DEF ChannelsInv
<1> QED BY <1>1, <1>2

\* PUT /channels/{id}/default-type: the EXISTS of the statement.
LEMMA SetDefaultTypeInv ==
    ASSUME ChannelsInv, NEW s \in Slots, SetDefaultType(s)
    PROVE  ChannelsInv'
<1> DEFINE c == req[s].ch
           t == req[s].ty
<1>0. chan' = DefaultTypeSet(c, t) /\ Free(s) /\ type' = type /\ home' = home
  BY DEF SetDefaultType
<1> HIDE DEF c, t
<1>1. CASE ~(ActiveChannel(c) /\ t \in TypesOf(c))
  BY <1>0, <1>1, TablesKept, SlotFreed DEF ChannelsInv, DefaultTypeSet
<1>2. CASE ActiveChannel(c) /\ t \in TypesOf(c)
  <2>0. /\ chan' = [chan EXCEPT ![c].def = t]
        /\ c \in ChannelIds /\ ActiveType(t) /\ t \in TypeIds /\ type[t].ch = c
    BY <1>0, <1>2 DEF DefaultTypeSet, TypesOf, ActiveChannel
  <2>1. \A d \in ChannelIds : /\ chan'[d] \in ChannelRow
                              /\ chan'[d].st = chan[d].st
                              /\ chan'[d].def = IF d = c THEN t ELSE chan[d].def
    <3>1. t \in 0 .. MaxTypes /\ chan \in [ChannelIds -> ChannelRow]
      BY <2>0, ChannelsAssumption DEF ChannelsInv, Tables, TypeIds
    <3>2. [chan[c] EXCEPT !.def = t] \in ChannelRow
      BY <2>0, <3>1, ZenonT(60) DEF ChannelRow
    <3>3. [chan[c] EXCEPT !.def = t].st = chan[c].st /\ [chan[c] EXCEPT !.def = t].def = t
      BY <2>0, <3>1 DEF ChannelRow
    <3> QED BY <2>0, <3>1, <3>2, <3>3
  <2>2. Tables'
    BY <1>0, <2>0, <2>1 DEF ChannelsInv, Tables
  <2>3. DefaultTypeLive'
    BY <1>0, <2>0, <2>1 DEF ChannelsInv, DefaultTypeLive, ActiveChannel, ActiveType
  <2> QED BY <1>0, <2>2, <2>3, SlotFreed DEF ChannelsInv
<1> QED BY <1>1, <1>2

\* PUT /admin/entity/{email}/default-channel.
LEMMA SetHomeInv ==
    ASSUME ChannelsInv, NEW s \in Slots, SetHome(s)
    PROVE  ChannelsInv'
<1>1. req[s].ch \in 0 .. MaxChannels
  BY DEF ChannelsInv, GoodRequests, Requests
<1>2. Tables' /\ DefaultTypeLive'
  BY <1>1, ZenonT(60) DEF ChannelsInv, SetHome, SetDefaultChannel, Tables, DefaultTypeLive,
              ActiveChannel, ActiveType
<1> QED BY <1>2, SlotFreed DEF ChannelsInv, SetHome
-----------------------------------------------------------------------------
(* Handlers that only move their request.                                   *)

\* The request of slot s moves, the tables stay.
LEMMA Moved ==
    ASSUME ChannelsInv, NEW s \in Slots, NEW r, GoodRequest(r),
           req' = [req EXCEPT ![s] = r], UNCHANGED <<chan, type, home>>
    PROVE  ChannelsInv'
BY SlotReplaced, TablesKept, ZenonT(60) DEF ChannelsInv

\* The request of slot s is answered, the tables stay.
LEMMA Answered ==
    ASSUME ChannelsInv, NEW s \in Slots, Free(s), UNCHANGED <<chan, type, home>>
    PROVE  ChannelsInv'
BY SlotFreed, TablesKept DEF ChannelsInv

\* The first statement of the three requests that read a channel's row.
LEMMA ReadInv ==
    ASSUME ChannelsInv, NEW s \in Slots, NEW c \in ChannelIds,
           ReadChannel(s, c) \/ ReadForType(s, c)
    PROVE  ChannelsInv'
<1>0. /\ UNCHANGED <<chan, type, home>> /\ Idle \in Requests
      /\ c \in 0 .. MaxChannels
      /\ chan[c].name \in Names \cup {None} /\ chan[c].def \in 0 .. MaxTypes
  <2>1. UNCHANGED <<chan, type, home>>
    BY ZenonT(60) DEF ReadChannel, ReadForType
  <2>2. Idle \in Requests
    BY IdleGood DEF GoodRequest
  <2>3. chan[c] \in ChannelRow
    BY DEF ChannelsInv, Tables
  <2> QED BY <2>1, <2>2, <2>3, ChannelsAssumption DEF ChannelRow, ChannelIds
<1>1. ASSUME NEW n \in Names \cup {chan[c].name},
             Open(s, [Idle EXCEPT !.pc = "update_channel", !.ch = c, !.name = n])
      PROVE  ChannelsInv'
  <2> DEFINE r == [Idle EXCEPT !.pc = "update_channel", !.ch = c, !.name = n]
  <2>1. n \in Names \cup {None} /\ "update_channel" \in Steps
    BY <1>0 DEF Steps
  <2>2. r \in Requests
    BY <1>0, <2>1, ZenonT(60) DEF Requests
  <2>3. r.pc = "update_channel"
    BY DEF Idle
  <2>4. req' = [req EXCEPT ![s] = r]
    BY <1>1 DEF Open
  <2> HIDE DEF r
  <2>5. GoodRequest(r)
    BY <2>2, <2>3 DEF GoodRequest
  <2> QED BY <1>0, <2>4, <2>5, Moved, ZenonT(60)
<1>2. ASSUME NEW n \in TypeNames, NEW u \in BOOLEAN,
             Open(s, [Idle EXCEPT !.pc = "create_type", !.ch = c, !.ty = chan[c].def,
                                  !.tname = n, !.username = u])
      PROVE  ChannelsInv'
  <2> DEFINE r == [Idle EXCEPT !.pc = "create_type", !.ch = c, !.ty = chan[c].def,
                               !.tname = n, !.username = u]
  <2>1. n \in TypeNames \cup {None} /\ "create_type" \in Steps
    BY DEF Steps
  <2>2. r \in Requests
    BY <1>0, <2>1, ZenonT(60) DEF Requests
  <2>3. r.pc = "create_type"
    BY DEF Idle
  <2>4. req' = [req EXCEPT ![s] = r]
    BY <1>2 DEF Open
  <2> HIDE DEF r
  <2>5. GoodRequest(r)
    BY <2>2, <2>3 DEF GoodRequest
  <2> QED BY <1>0, <2>4, <2>5, Moved, ZenonT(60)
<1> QED BY <1>1, <1>2, ZenonT(60) DEF ReadChannel, ReadForType

\* The first statement of the handlers on one type.
LEMMA CheckChannelInv ==
    ASSUME ChannelsInv, NEW s \in Slots, NEW c \in ChannelIds, NEW t \in TypeIds,
           NEW op \in TypeSteps, NEW u \in BOOLEAN, CheckChannel(s, c, t, op, u)
    PROVE  ChannelsInv'
<1> DEFINE r == [Idle EXCEPT !.pc = "check_type", !.ch = c, !.ty = t,
                             !.username = u, !.landed = <<op, None>>]
<1>1. /\ c \in 0 .. MaxChannels /\ t \in 0 .. MaxTypes /\ "check_type" \in Steps
      /\ <<op, None>> \in (Names \cup Steps \cup {None}) \X (TypeNames \cup {None})
      /\ Idle \in Requests
  BY ChannelsAssumption, IdleGood DEF ChannelIds, TypeIds, TypeSteps, Steps, GoodRequest
<1>2. r \in Requests
  BY <1>1, ZenonT(60) DEF Requests
<1>3. r.pc = "check_type" /\ r.landed = <<op, None>>
  BY DEF Idle
<1>4. req' = [req EXCEPT ![s] = r] /\ UNCHANGED <<chan, type, home>>
  BY DEF CheckChannel, Open
<1> HIDE DEF r
<1>5. GoodRequest(r)
  BY <1>2, <1>3 DEF GoodRequest
<1> QED BY <1>4, <1>5, Moved, ZenonT(60)

\* The second statement of the handlers on one type.
LEMMA CheckTypeInv ==
    ASSUME ChannelsInv, NEW s \in Slots, CheckType(s)
    PROVE  ChannelsInv'
<1> DEFINE op == req[s].landed[1]
           r == [req[s] EXCEPT !.pc = op, !.landed = <<None, None>>]
<1>1. CASE Free(s)
  BY <1>1, Answered DEF CheckType
<1>2. CASE req' = [req EXCEPT ![s].pc = op, ![s].landed = <<None, None>>]
  <2>1. /\ req[s] \in Requests /\ op \in TypeSteps /\ op \in Steps
        /\ <<None, None>> \in (Names \cup Steps \cup {None}) \X (TypeNames \cup {None})
    BY DEF ChannelsInv, GoodRequests, GoodRequest, CheckType, TypeSteps, Steps
  <2>2. req' = [req EXCEPT ![s] = r] /\ UNCHANGED <<chan, type, home>>
    BY <1>2, ZenonT(60) DEF CheckType, ChannelsInv, GoodRequests
  <2> HIDE DEF op
  <2>3. r \in Requests
    BY <2>1, ZenonT(60) DEF Requests
  <2>4. r.pc = op
    BY <2>1 DEF Requests
  <2> HIDE DEF r
  <2>5. GoodRequest(r)
    BY <2>1, <2>3, <2>4 DEF GoodRequest, TypeSteps
  <2> QED BY <2>2, <2>5, Moved, ZenonT(60)
<1> QED BY <1>1, <1>2 DEF CheckType
\* PUT /admin/entity/{email}/default-channel: the channel is found.
LEMMA CheckHomeInv ==
    ASSUME ChannelsInv, NEW s \in Slots, NEW u \in Users, NEW c \in ChannelIds,
           CheckHome(s, u, c)
    PROVE  ChannelsInv'
<1> DEFINE pc == IF u \in Robots THEN "list_types" ELSE "set_home"
           r == [Idle EXCEPT !.pc = pc, !.user = u, !.ch = c]
<1>1. /\ c \in 0 .. MaxChannels /\ u \in Users \cup {None} /\ Idle \in Requests
      /\ pc \in {"list_types", "set_home"} /\ pc \in Steps
  BY ChannelsAssumption, IdleGood DEF ChannelIds, Steps, GoodRequest
<1>2. req' = [req EXCEPT ![s] = r] /\ UNCHANGED <<chan, type, home>>
  BY DEF CheckHome, Open
<1> HIDE DEF pc
<1>3. r \in Requests
  BY <1>1, ZenonT(60) DEF Requests
<1>4. r.pc = pc /\ r.user = u
  BY DEF Idle
<1> HIDE DEF r
<1>5. GoodRequest(r)
  BY <1>1, <1>3, <1>4 DEF GoodRequest
<1> QED BY <1>2, <1>5, Moved, ZenonT(60)

\* A step that only advances the program counter of a request.
LEMMA GotoInv ==
    ASSUME ChannelsInv, NEW s \in Slots, NEW pc \in {"set_home", "placed"}, Goto(s, pc),
           UNCHANGED <<chan, type, home>>,
           pc = "set_home" => req[s].pc = "list_types",
           pc = "placed" => /\ req[s].pc = "place"
                            /\ CheckChannelScope(req[s]) /\ ~RobotRefused(req[s])
    PROVE  ChannelsInv'
<1> DEFINE r == [req[s] EXCEPT !.pc = pc]
<1>1. GoodRequest(req[s]) /\ req[s] \in Requests /\ pc \in Steps
  BY DEF ChannelsInv, GoodRequests, Steps
<1>2. req' = [req EXCEPT ![s] = r]
  BY DEF Goto, ChannelsInv, GoodRequests
<1>3. r \in Requests
  BY <1>1, ZenonT(60) DEF Requests
<1>4. /\ r.pc = pc /\ r.user = req[s].user /\ r.src = req[s].src
      /\ r.username = req[s].username /\ r.landed = req[s].landed
      /\ r.name = req[s].name /\ r.tname = req[s].tname
  BY <1>1 DEF Requests
<1> HIDE DEF r
<1>5. CASE pc = "set_home"
  BY <1>1, <1>2, <1>3, <1>4, <1>5, Moved, ZenonT(60) DEF GoodRequest
<1>6. CASE pc = "placed"
  <2>1. r.landed = <<r.name, r.tname>> /\ r.landed \in Covered
    BY <1>1, <1>4, <1>6, ZenonT(60) DEF GoodRequest, CheckChannelScope
  <2>2. r.src \in {"api", "manual", "scheduled"}
    BY <1>3 DEF Requests
  <2>3. r.user \in Robots /\ r.src # "scheduled" => ~r.username
    BY <1>4, <1>6, <2>2 DEF RobotRefused
  <2>4. GoodRequest(r)
    BY <1>3, <1>4, <1>6, <2>1, <2>3 DEF GoodRequest
  <2> QED BY <1>2, <2>4, Moved, ZenonT(60)
<1> QED BY <1>5, <1>6

\* For a robot the types of the channel are listed.
LEMMA ListTypesInv ==
    ASSUME ChannelsInv, NEW s \in Slots, ListTypes(s)
    PROVE  ChannelsInv'
BY GotoInv, Answered DEF ListTypes

\* The scope check and the robot check stand before the INSERT of the build.
LEMMA PlaceInv ==
    ASSUME ChannelsInv, NEW s \in Slots, Place(s)
    PROVE  ChannelsInv'
<1>1. CASE CheckChannelScope(req[s]) /\ ~RobotRefused(req[s])
  BY <1>1, GotoInv DEF Place
<1>2. CASE ~(CheckChannelScope(req[s]) /\ ~RobotRefused(req[s]))
  BY <1>2, Answered DEF Place
<1> QED BY <1>1, <1>2

\* resolve_and_rewrite starts.
LEMMA ResolveInv ==
    ASSUME ChannelsInv, NEW s \in Slots, NEW u \in Users,
           NEW src \in {"api", "manual", "scheduled"}, NEW n \in Names \cup {None},
           NEW tn \in TypeNames \cup {None}, Resolve(s, u, src, n, tn)
    PROVE  ChannelsInv'
<1> DEFINE c == IF n = None THEN home[u] ELSE 0
           r == [Idle EXCEPT !.pc = "lookup_channel", !.user = u, !.src = src,
                             !.name = n, !.tname = tn, !.ch = c]
<1>1. /\ c \in 0 .. MaxChannels /\ u \in Users \cup {None} /\ Idle \in Requests
      /\ "lookup_channel" \in Steps
  BY ChannelsAssumption, IdleGood DEF ChannelsInv, Tables, Steps, GoodRequest
<1>2. req' = [req EXCEPT ![s] = r] /\ UNCHANGED <<chan, type, home>>
  BY DEF Resolve, Open
<1> HIDE DEF c
<1>3. r \in Requests
  BY <1>1, ZenonT(60) DEF Requests
<1>4. r.pc = "lookup_channel" /\ r.user = u
  BY DEF Idle
<1> HIDE DEF r
<1>5. GoodRequest(r)
  BY <1>3, <1>4 DEF GoodRequest
<1> QED BY <1>2, <1>5, Moved, ZenonT(60)

\* The channel is looked up, by name or by the account's default.
LEMMA LookupChannelInv ==
    ASSUME ChannelsInv, NEW s \in Slots, LookupChannel(s)
    PROVE  ChannelsInv'
<1>0. /\ GoodRequest(req[s]) /\ req[s] \in Requests /\ req[s].user \in Users
      /\ UNCHANGED <<chan, type, home>>
  BY ZenonT(60) DEF ChannelsInv, GoodRequests, GoodRequest, LookupChannel
<1>1. CASE Free(s)
  BY <1>0, <1>1, Answered
<1>2. ASSUME NEW c \in ChannelIds,
             req' = [req EXCEPT ![s].pc = "resolve", ![s].ch = c, ![s].name = chan[c].name]
      PROVE  ChannelsInv'
  <2> DEFINE r == [req[s] EXCEPT !.pc = "resolve", !.ch = c, !.name = chan[c].name]
  <2>1. chan[c] \in ChannelRow
    BY DEF ChannelsInv, Tables
  <2>2. /\ c \in 0 .. MaxChannels /\ chan[c].name \in Names \cup {None}
        /\ "resolve" \in Steps
    BY <2>1, ChannelsAssumption DEF ChannelIds, Steps, ChannelRow
  <2>3. r \in Requests
    BY <1>0, <2>2, ZenonT(60) DEF Requests
  <2>4. r.pc = "resolve" /\ r.user = req[s].user
    BY <1>0 DEF Requests
  <2>5. req' = [req EXCEPT ![s] = r]
    BY <1>2, ZenonT(60) DEF ChannelsInv, GoodRequests
  <2> HIDE DEF r
  <2>6. GoodRequest(r)
    BY <1>0, <2>3, <2>4 DEF GoodRequest
  <2> QED BY <1>0, <2>5, <2>6, Moved, ZenonT(60)
<1>3. ASSUME NEW c \in ChannelIds,
             req' = [req EXCEPT ![s].pc = "lookup_type", ![s].ch = c,
                                ![s].name = chan[c].name, ![s].ty = chan[c].def]
      PROVE  ChannelsInv'
  <2> DEFINE r == [req[s] EXCEPT !.pc = "lookup_type", !.ch = c, !.name = chan[c].name,
                                 !.ty = chan[c].def]
  <2>1. chan[c] \in ChannelRow
    BY DEF ChannelsInv, Tables
  <2>2. /\ c \in 0 .. MaxChannels /\ chan[c].name \in Names \cup {None}
        /\ chan[c].def \in 0 .. MaxTypes /\ "lookup_type" \in Steps
    BY <2>1, ChannelsAssumption DEF ChannelIds, Steps, ChannelRow
  <2>3. r \in Requests
    BY <1>0, <2>2, ZenonT(60) DEF Requests
  <2>4. r.pc = "lookup_type" /\ r.user = req[s].user
    BY <1>0 DEF Requests
  <2>5. req' = [req EXCEPT ![s] = r]
    BY <1>3, ZenonT(60) DEF ChannelsInv, GoodRequests
  <2> HIDE DEF r
  <2>6. GoodRequest(r)
    BY <1>0, <2>3, <2>4 DEF GoodRequest
  <2> QED BY <1>0, <2>5, <2>6, Moved, ZenonT(60)
<1> QED BY <1>1, <1>2, <1>3, ZenonT(60) DEF LookupChannel, ByName

\* The channel's default type is looked up.
LEMMA LookupTypeInv ==
    ASSUME ChannelsInv, NEW s \in Slots, LookupType(s)
    PROVE  ChannelsInv'
<1>0. /\ GoodRequest(req[s]) /\ req[s] \in Requests /\ req[s].user \in Users
      /\ UNCHANGED <<chan, type, home>>
  BY DEF ChannelsInv, GoodRequests, GoodRequest, LookupType
<1>1. CASE ~ActiveType(req[s].ty)
  BY <1>0, <1>1, Answered DEF LookupType
<1>2. CASE ActiveType(req[s].ty)
  <2> DEFINE n == type[req[s].ty].tname
             r == [req[s] EXCEPT !.pc = "resolve", !.tname = n]
  <2>1. type[req[s].ty] \in TypeRow
    BY <1>2 DEF ChannelsInv, Tables, ActiveType
  <2>2. n \in TypeNames \cup {None} /\ "resolve" \in Steps
    BY <2>1 DEF TypeRow, Steps
  <2>3. req' = [req EXCEPT ![s] = r]
    BY <1>2, ZenonT(60) DEF LookupType, ChannelsInv, GoodRequests
  <2> HIDE DEF n
  <2>4. r \in Requests
    BY <1>0, <2>2, ZenonT(60) DEF Requests
  <2>5. r.pc = "resolve" /\ r.user = req[s].user
    BY <1>0 DEF Requests
  <2> HIDE DEF r
  <2>6. GoodRequest(r)
    BY <1>0, <2>4, <2>5 DEF GoodRequest
  <2> QED BY <1>0, <2>3, <2>6, Moved, ZenonT(60)
<1> QED BY <1>1, <1>2
\* The join finds a type whose own name and whose channel's name are the ones
\* the request holds, so the build lands where it asked to.
LEMMA ResolveChannelTypeInv ==
    ASSUME ChannelsInv, NEW s \in Slots, ResolveChannelType(s)
    PROVE  ChannelsInv'
<1>0. /\ GoodRequest(req[s]) /\ req[s] \in Requests /\ req[s].user \in Users
      /\ UNCHANGED <<chan, type, home>>
  BY ZenonT(60) DEF ChannelsInv, GoodRequests, GoodRequest, ResolveChannelType
<1>1. CASE Free(s)
  BY <1>0, <1>1, Answered
<1>2. ASSUME NEW t \in Pair(req[s]),
             req' = [req EXCEPT ![s] =
                       [@ EXCEPT !.pc = "place", !.ch = type[t].ch, !.ty = t,
                                 !.username = type[t].username,
                                 !.landed = IF ActiveChannel(type[t].ch)
                                              THEN <<chan[type[t].ch].name, type[t].tname>>
                                              ELSE <<None, None>>]]
      PROVE  ChannelsInv'
  <2> DEFINE c == type[t].ch
             u == type[t].username
             l == IF ActiveChannel(type[t].ch)
                    THEN <<chan[type[t].ch].name, type[t].tname>>
                    ELSE <<None, None>>
             r == [req[s] EXCEPT !.pc = "place", !.ch = c, !.ty = t, !.username = u,
                                 !.landed = l]
  <2>1. /\ t \in TypeIds /\ type[t] \in TypeRow
        /\ l = <<req[s].name, req[s].tname>>
    BY DEF Pair, ChannelsInv, Tables
  <2>2. /\ c \in 0 .. MaxChannels /\ u \in BOOLEAN /\ t \in 0 .. MaxTypes
        /\ "place" \in Steps
    BY <2>1, ChannelsAssumption DEF TypeRow, TypeIds, Steps
  <2>3. l \in (Names \cup Steps \cup {None}) \X (TypeNames \cup {None})
    <3>1. req[s].name \in Names \cup {None} /\ req[s].tname \in TypeNames \cup {None}
      BY <1>0 DEF Requests
    <3> QED BY <2>1, <3>1
  <2>4. req' = [req EXCEPT ![s] = r]
    BY <1>2 DEF ChannelsInv, GoodRequests
  <2> HIDE DEF c, u, l
  <2>5. r \in Requests
    BY <1>0, <2>2, <2>3, ZenonT(60) DEF Requests
  <2>6. r.pc = "place" /\ r.landed = l /\ r.name = req[s].name /\ r.tname = req[s].tname
    BY <1>0 DEF Requests
  <2> HIDE DEF r
  <2>7. GoodRequest(r)
    BY <2>1, <2>5, <2>6 DEF GoodRequest
  <2> QED BY <1>0, <2>4, <2>7, Moved, ZenonT(60)
<1> QED BY <1>1, <1>2, ZenonT(60) DEF ResolveChannelType

-----------------------------------------------------------------------------
(* The theorems.                                                            *)

\* The first statement of every request.
LEMMA BeginInv ==
    ASSUME ChannelsInv, NEW s \in Slots, Begin(s)
    PROVE  ChannelsInv'
<1>1. CASE \E c \in ChannelIds : ReadChannel(s, c) \/ ReadForType(s, c)
  BY <1>1, ReadInv
<1>2. CASE \E c \in ChannelIds, t \in TypeIds :
             \/ \E u \in BOOLEAN : CheckForUpdate(s, c, t, u)
             \/ CheckForDelete(s, c, t)
             \/ CheckForDefault(s, c, t)
  <2>1. PICK c \in ChannelIds, t \in TypeIds, op \in TypeSteps, u \in BOOLEAN :
          CheckChannel(s, c, t, op, u)
    BY <1>2, ZenonT(60) DEF CheckForUpdate, CheckForDelete, CheckForDefault, TypeSteps
  <2> QED BY <2>1, CheckChannelInv
<1>3. CASE \E u \in Users, c \in ChannelIds : CheckHome(s, u, c)
  BY <1>3, CheckHomeInv
<1>4. CASE \E u \in Users, n \in Names \cup {None}, tn \in TypeNames \cup {None} :
             \/ SubmitBuild(s, u, n, tn)
             \/ TriggerTask(s, u, n, tn)
             \/ TriggerPeriodicBuild(s, u, n, tn)
  BY <1>4, ResolveInv DEF SubmitBuild, TriggerTask, TriggerPeriodicBuild
<1> QED BY <1>1, <1>2, <1>3, <1>4 DEF Begin

\* The registry starts empty.
LEMMA ChannelsInit == RegistryInit => ChannelsInv
<1> SUFFICES ASSUME RegistryInit PROVE ChannelsInv
  OBVIOUS
<1>1. Tables
  BY ChannelsAssumption DEF RegistryInit, Tables, ChannelRow, TypeRow
<1>2. DefaultTypeLive
  BY DEF RegistryInit, DefaultTypeLive, ActiveChannel
<1>3. GoodRequests
  BY IdleGood DEF RegistryInit, GoodRequests, GoodRequest
<1> QED BY <1>1, <1>2, <1>3 DEF ChannelsInv

\* Every step keeps the invariant, one case per action.
LEMMA ChannelsStep == ChannelsInv /\ [RegistryNext]_registry => ChannelsInv'
<1> SUFFICES ASSUME ChannelsInv, [RegistryNext]_registry PROVE ChannelsInv'
  OBVIOUS
<1>1. CASE UNCHANGED registry
  BY <1>1, TablesKept DEF registry, ChannelsInv, GoodRequests
<1>2. CASE \E n \in Names : CreateChannel(n)
  BY <1>2, CreateChannelInv
<1>3. CASE \E c \in ChannelIds : DeleteChannel(c)
  BY <1>3, DeleteChannelInv
<1>4. CASE \E u \in Users : ClearHome(u)
  BY <1>4, ClearHomeInv
<1>5. ASSUME NEW s \in Slots, Begin(s) PROVE ChannelsInv'
  BY <1>5, BeginInv
<1>6. ASSUME NEW s \in Slots, Continue(s) PROVE ChannelsInv'
  <2>1. CASE Respond(s)
    BY <2>1, Answered DEF Respond
  <2> QED BY <1>6, <2>1, UpdateChannelInv, CreateTypeInv, CheckTypeInv, UpdateTypeInv,
             DeleteTypeInv, SetDefaultTypeInv, ListTypesInv, SetHomeInv, LookupChannelInv,
             LookupTypeInv, ResolveChannelTypeInv, PlaceInv DEF Continue
<1> QED BY <1>1, <1>2, <1>3, <1>4, <1>5, <1>6 DEF RegistryNext

\* The invariant is inductive.
THEOREM ChannelsInvariance == RegistrySpec => []ChannelsInv
BY ChannelsInit, ChannelsStep, PTL DEF RegistrySpec

\* The three tables and the requests keep their types: no statement of
\* db/channels.rs leaves an id or a name outside its column.
THEOREM ChannelsTypeCorrect == RegistrySpec => []RegistryTypeOK
<1>1. ChannelsInv => RegistryTypeOK
  BY DEF ChannelsInv, Tables, GoodRequests, RegistryTypeOK
<1> QED BY <1>1, ChannelsInvariance, PTL

\* An active channel's default type is an active type of that channel, however
\* many channels, types and requests there are.
THEOREM DefaultTypeLiveTheorem == RegistrySpec => []DefaultTypeLive
<1>1. ChannelsInv => DefaultTypeLive
  BY DEF ChannelsInv
<1> QED BY <1>1, ChannelsInvariance, PTL

\* Every build that is placed landed on the pair of names its scope check was
\* made with, and the scopes cover them.
THEOREM PlacedAsAuthorisedTheorem == RegistrySpec => []PlacedAsAuthorised
<1>1. ChannelsInv => PlacedAsAuthorised
  BY DEF ChannelsInv, GoodRequests, GoodRequest, PlacedAsAuthorised
<1> QED BY <1>1, ChannelsInvariance, PTL

\* No build a robot submits through a handler carries a ${username} prefix.
THEOREM RobotPrefixRefusedTheorem == RegistrySpec => []RobotPrefixRefused
<1>1. ChannelsInv => RobotPrefixRefused
  BY DEF ChannelsInv, GoodRequests, GoodRequest, RobotPrefixRefused
<1> QED BY <1>1, ChannelsInvariance, PTL

(***************************************************************************)
(* The build logs: types, that an ended build's open log is always         *)
(* explained, and that a stream sends the lines written before the         *)
(* finished mark before it sends its done event.                           *)
(*                                                                         *)
(* Two facts are needed on top: the finished mark never counts more lines  *)
(* than the file has, and a build whose log row is still to be inserted    *)
(* has not ended, or was revoked meanwhile.                                *)
(***************************************************************************)

States == Terminal \cup {"none", "queued", "dispatched", "started", "revoking"}

BuildRows == [st : States, stamped : BOOLEAN]

Files == [there : BOOLEAN, lines : Seq(Int)]

Conns == [pc : {"idle", "append", "index", "notify", "fin_active", "fin_index", "fin_log",
                "fin_watch"},
          left : Int, entries : SUBSET (Int \X Nat)]

Closers == {"idle", "log", "active", "watch", "back_row", "back_lane", "revoke_row",
            "drain_log"}

SealedWritten == sealed <= Len(file.lines)

Submitting == queue = "submit" => Up /\ (build.st \notin Terminal \/ excuse # {})

LogsInv == TypeOK /\ SealedWritten /\ Submitting /\ OpenLogExplained

USE BoundsAssumption

-----------------------------------------------------------------------------
(* Types.                                                                   *)

\* Each statement on the build's row leaves a row.
LEMMA RowType ==
    ASSUME build \in BuildRows, NEW to \in States
    PROVE  /\ [build EXCEPT !.st = to] \in BuildRows /\ [build EXCEPT !.st = to].st = to
           /\ [build EXCEPT !.st = to, !.stamped = TRUE] \in BuildRows
           /\ [build EXCEPT !.st = to, !.stamped = FALSE] \in BuildRows
           /\ [build EXCEPT !.st = to, !.stamped = FALSE].st = to
<1>1. [build EXCEPT !.st = to] \in BuildRows
  BY ZenonT(60) DEF BuildRows
<1>2. /\ [build EXCEPT !.st = to, !.stamped = TRUE] \in BuildRows
      /\ [build EXCEPT !.st = to, !.stamped = FALSE] \in BuildRows
  <2>1. TRUE \in BOOLEAN /\ FALSE \in BOOLEAN
    OBVIOUS
  <2> QED BY <2>1, ZenonT(60) DEF BuildRows
<1>3. [build EXCEPT !.st = to].st = to
  BY DEF BuildRows
<1>4. [build EXCEPT !.st = to, !.stamped = FALSE].st = to
  BY DEF BuildRows
<1> QED BY <1>1, <1>2, <1>3, <1>4

\* The handler of the connection between two messages, and in the finishing steps.
LEMMA ConnType ==
    /\ IdleConn \in Conns /\ IdleConn.pc = "idle"
    /\ \A pc \in {"notify", "fin_active", "fin_index", "fin_log", "fin_watch"} :
         [IdleConn EXCEPT !.pc = pc] \in Conns /\ [IdleConn EXCEPT !.pc = pc].pc = pc
<1>1. IdleConn \in Conns /\ IdleConn.pc = "idle"
  BY DEF IdleConn, Conns
<1>2. ASSUME NEW pc \in {"notify", "fin_active", "fin_index", "fin_log", "fin_watch"}
      PROVE  [IdleConn EXCEPT !.pc = pc] \in Conns
  BY <1>1, ZenonT(60) DEF Conns
<1>3. ASSUME NEW pc \in {"notify", "fin_active", "fin_index", "fin_log", "fin_watch"}
      PROVE  [IdleConn EXCEPT !.pc = pc].pc = pc
  BY DEF IdleConn
<1> QED BY <1>1, <1>2, <1>3

\* TypeOK, by the names used here.
LEMMA TypeForm ==
    TypeOK <=> /\ build \in BuildRows
               /\ log \in {"none", "open", "finished", "deleted"}
               /\ file \in Files
               /\ index \subseteq Int \X Nat
               /\ conn \in Conns
               /\ queue \in {"none", "submit", "lane", "rollback", "active"}
               /\ closer \in Closers
               /\ server \in {"up", "down", "scan", "log", "ready"}
               /\ gc \in {"idle", "file", "row"}
               /\ stream \in [Followers -> Streams]
               /\ watch \in Int /\ next \in Int /\ attempts \in Int /\ faults \in Int
               /\ sealed \in Int
BY DEF TypeOK, BuildRows, States, Files, Conns, Closers

\* The same in the next state.
LEMMA TypeFormNext ==
    TypeOK' <=> /\ build' \in BuildRows
                /\ log' \in {"none", "open", "finished", "deleted"}
                /\ file' \in Files
                /\ index' \subseteq Int \X Nat
                /\ conn' \in Conns
                /\ queue' \in {"none", "submit", "lane", "rollback", "active"}
                /\ closer' \in Closers
                /\ server' \in {"up", "down", "scan", "log", "ready"}
                /\ gc' \in {"idle", "file", "row"}
                /\ stream' \in [Followers -> Streams]
                /\ watch' \in Int /\ next' \in Int /\ attempts' \in Int /\ faults' \in Int
                /\ sealed' \in Int
BY DEF TypeOK, BuildRows, States, Files, Conns, Closers

\* The lines of the file.
LEMMA FileLines ==
    ASSUME TypeOK
    PROVE  file.lines \in Seq(Int) /\ Len(file.lines) \in Nat /\ file.there \in BOOLEAN
BY LenProperties DEF TypeOK

\* set_build_log_finished.
LEMMA LogFinishedType ==
    ASSUME TypeOK, SetLogFinished
    PROVE  /\ log' \in {"none", "open", "finished", "deleted"}
           /\ sealed' \in Int /\ faults' \in Int
           /\ log' = "open" => excuse' # {}
           /\ excuse \subseteq excuse'
           /\ sealed' = sealed \/ sealed' = Len(file.lines)
<1>1. CASE /\ log' = IF log = "open" THEN "finished" ELSE log
           /\ sealed' = IF log = "open" THEN Len(file.lines) ELSE sealed
           /\ UNCHANGED << faults, excuse >>
  BY <1>1, FileLines, TypeForm
<1>2. CASE Fault /\ excuse' = excuse \cup {"sql_error"} /\ UNCHANGED << log, sealed >>
  BY <1>2, TypeForm DEF Fault
<1> QED BY <1>1, <1>2 DEF SetLogFinished

\* The statements on the build's row, by name.
LEMMA RowStatements ==
    ASSUME TypeOK
    PROVE  /\ InsertBuildRow => build' \in BuildRows /\ build'.st = "queued"
           /\ SetDispatched => build' \in BuildRows /\ build'.st = "dispatched"
           /\ SetStarted => build' \in BuildRows /\ build'.st = "started"
           /\ SetRevoking => build' \in BuildRows /\ build'.st = "revoking"
           /\ RollbackToQueued => build' \in BuildRows /\ build'.st = "queued"
           /\ UpdateState("revoked") => build' \in BuildRows
           /\ \A to \in Terminal : SetFinished(to) => build' \in BuildRows
<1>0. build \in BuildRows /\ Terminal \subseteq States
      /\ {"queued", "dispatched", "started", "revoking", "revoked"} \subseteq States
  BY TypeForm DEF States, Terminal
<1>1. InsertBuildRow => build' \in BuildRows /\ build'.st = "queued"
  BY <1>0, RowType, ZenonT(60) DEF InsertBuildRow
<1>2. SetDispatched => build' \in BuildRows /\ build'.st = "dispatched"
  BY <1>0, RowType, ZenonT(60) DEF SetDispatched
<1>3. SetStarted => build' \in BuildRows /\ build'.st = "started"
  BY <1>0, RowType, ZenonT(60) DEF SetStarted
<1>4. SetRevoking => build' \in BuildRows /\ build'.st = "revoking"
  BY <1>0, RowType, ZenonT(60) DEF SetRevoking
<1>5. RollbackToQueued => build' \in BuildRows /\ build'.st = "queued"
  BY <1>0, RowType, ZenonT(60) DEF RollbackToQueued
<1>6. UpdateState("revoked") => build' \in BuildRows
  BY <1>0, RowType, ZenonT(60) DEF UpdateState
<1>7. \A to \in Terminal : SetFinished(to) => build' \in BuildRows
  BY <1>0, RowType, ZenonT(60) DEF SetFinished
<1> QED BY <1>1, <1>2, <1>3, <1>4, <1>5, <1>6, <1>7

-----------------------------------------------------------------------------
(* Submission, dispatch and output.                                         *)

LEMMA SubmitInv ==
    ASSUME LogsInv, InsertBuild \/ InsertLogRow
    PROVE  LogsInv'
<1>0. TypeOK
  BY DEF LogsInv
<1>1. CASE InsertBuild
  <2>1. TypeOK' /\ build'.st = "queued"
    BY <1>0, <1>1, TypeForm, TypeFormNext, RowStatements DEF InsertBuild, tasks, counters
  <2>2. SealedWritten' /\ Submitting' /\ OpenLogExplained'
    BY <1>1, <2>1 DEF LogsInv, InsertBuild, SealedWritten, Submitting, OpenLogExplained, Up,
                      Terminal, tasks, counters
  <2> QED BY <2>1, <2>2 DEF LogsInv
<1>2. CASE InsertLogRow
  <2>1. TypeOK'
    BY <1>0, <1>2, TypeForm, TypeFormNext DEF InsertLogRow, InsertBuildLogRow, tasks, counters
  <2>2. SealedWritten' /\ Submitting'
    BY <1>2 DEF LogsInv, InsertLogRow, SealedWritten, Submitting, tasks, counters
  <2>3. OpenLogExplained'
    BY <1>2 DEF LogsInv, InsertLogRow, Submitting, OpenLogExplained, tasks, counters
  <2> QED BY <2>1, <2>2, <2>3 DEF LogsInv
<1> QED BY <1>1, <1>2

\* Steps of an active or revoked build before its end.
LEMMA ActiveInv ==
    ASSUME LogsInv, Dispatch \/ Started \/ Revoke \/ RollbackRow
    PROVE  LogsInv'
<1>0. TypeOK
  BY DEF LogsInv
<1>1. /\ build' \in BuildRows
      /\ build'.st \in {"queued", "dispatched", "started", "revoking"}
  BY <1>0, RowStatements DEF Dispatch, Started, Revoke, RollbackRow
<1>2. TypeOK'
  BY <1>0, <1>1, TypeForm, TypeFormNext
     DEF Dispatch, Started, Revoke, RollbackRow, memory, tasks, counters, Closers
<1>3. SealedWritten' /\ OpenLogExplained'
  BY <1>1 DEF LogsInv, SealedWritten, OpenLogExplained, Terminal,
              Dispatch, Started, Revoke, RollbackRow, counters
<1>4. Submitting'
  BY <1>1 DEF LogsInv, Submitting, Up, Terminal, Dispatch, Started, Revoke, RollbackRow,
              memory, tasks
<1> QED BY <1>2, <1>3, <1>4 DEF LogsInv

\* The writer appends, then extends the index.
LEMMA OutputInv ==
    ASSUME LogsInv, (\E n \in 1 .. 2 : Output(n)) \/ AppendLine \/ ExtendIndex
    PROVE  LogsInv'
<1>0. TypeOK /\ conn.entries \subseteq Int \X Nat /\ conn.left \in Int
  BY TypeForm DEF LogsInv, Conns
<1>1. CASE \E n \in 1 .. 2 : Output(n)
  <2>1. PICK n \in 1 .. 2 : Output(n)
    BY <1>1
  <2>2. TypeOK'
    BY <1>0, <2>1, TypeForm, TypeFormNext DEF Output, rows, memory, counters, Conns
  <2>3. SealedWritten' /\ Submitting' /\ OpenLogExplained'
    BY <2>1 DEF LogsInv, Output, SealedWritten, Submitting, OpenLogExplained, OwesLog, Up,
                rows, memory, counters
  <2> QED BY <2>2, <2>3 DEF LogsInv
<1>2. CASE AppendLine
  <2>0. /\ file' \in Files /\ file'.lines = file.lines \o << next >>
        /\ Len(file'.lines) = Len(file.lines) + 1
    BY <1>0, <1>2, FileLines, TypeForm DEF AppendLine, Files
  <2>1. conn' \in Conns
    BY <1>0, <1>2, FileLines, TypeForm DEF AppendLine, Conns
  <2>2. TypeOK'
    BY <1>0, <1>2, <2>0, <2>1, TypeForm, TypeFormNext DEF AppendLine, memory
  <2>3. SealedWritten'
    BY <1>0, <1>2, <2>0, FileLines, TypeForm DEF LogsInv, AppendLine, SealedWritten
  <2>4. Submitting' /\ OpenLogExplained'
    BY <1>2 DEF LogsInv, AppendLine, Submitting, OpenLogExplained, OwesLog, Up, memory
  <2> QED BY <2>2, <2>3, <2>4 DEF LogsInv
<1>3. CASE ExtendIndex
  <2>1. conn' \in Conns /\ conn'.pc = "notify"
    BY <1>3, ConnType DEF ExtendIndex
  <2>2. TypeOK'
    BY <1>0, <1>3, <2>1, TypeForm, TypeFormNext DEF ExtendIndex, rows, counters
  <2>3. SealedWritten' /\ Submitting' /\ OpenLogExplained'
    BY <1>3 DEF LogsInv, ExtendIndex, SealedWritten, Submitting, OpenLogExplained, OwesLog,
                Up, rows, counters
  <2> QED BY <2>2, <2>3 DEF LogsInv
<1> QED BY <1>1, <1>2, <1>3

-----------------------------------------------------------------------------
(* The end of a build.                                                      *)

\* handle_build_finished and finish_build_log.
LEMMA FinishInv ==
    ASSUME LogsInv, Report \/ FinActive \/ FinIndex \/ FinLog \/ FinWatch
    PROVE  LogsInv'
<1>0. TypeOK /\ "success" \in Terminal
  BY DEF LogsInv, Terminal
<1>1. CASE Report
  <2>1. conn' \in Conns /\ conn'.pc = "fin_active"
    BY <1>1, ConnType DEF Report
  <2>2. TypeOK'
    BY <1>0, <1>1, <2>1, TypeForm, TypeFormNext, RowStatements DEF Report, memory, counters
  <2>3. SealedWritten' /\ Submitting' /\ OpenLogExplained'
    BY <1>1, <2>1 DEF LogsInv, Report, SealedWritten, Submitting, OpenLogExplained, OwesLog,
                      memory, counters
  <2> QED BY <2>2, <2>3 DEF LogsInv
<1>2. CASE FinActive
  <2>1. conn' \in Conns /\ conn'.pc = "fin_index"
    BY <1>2, ConnType DEF FinActive
  <2>2. TypeOK'
    BY <1>0, <1>2, <2>1, TypeForm, TypeFormNext DEF FinActive, rows, counters
  <2>3. SealedWritten' /\ Submitting' /\ OpenLogExplained'
    BY <1>2, <2>1 DEF LogsInv, FinActive, SealedWritten, Submitting, OpenLogExplained, OwesLog,
                      Up, rows, counters
  <2> QED BY <2>2, <2>3 DEF LogsInv
<1>3. CASE FinIndex
  <2>1. conn' \in Conns /\ conn'.pc = "fin_log"
    BY <1>3, ConnType DEF FinIndex
  <2>2. TypeOK'
    BY <1>0, <1>3, <2>1, TypeForm, TypeFormNext DEF FinIndex, rows, counters
  <2>3. SealedWritten' /\ Submitting' /\ OpenLogExplained'
    BY <1>3, <2>1 DEF LogsInv, FinIndex, SealedWritten, Submitting, OpenLogExplained, OwesLog,
                      Up, rows, counters
  <2> QED BY <2>2, <2>3 DEF LogsInv
<1>4. CASE FinLog
  <2>1. conn' \in Conns /\ conn'.pc = "fin_watch"
    BY <1>4, ConnType DEF FinLog
  <2>2. /\ log' = "open" => excuse' # {}
        /\ excuse \subseteq excuse' /\ (sealed' = sealed \/ sealed' = Len(file.lines))
    BY <1>0, <1>4, LogFinishedType DEF FinLog
  <2>3. TypeOK'
    BY <1>0, <1>4, <2>1, TypeForm, TypeFormNext, LogFinishedType DEF FinLog, memory
  <2>4. SealedWritten'
    BY <1>0, <1>4, <2>2, FileLines DEF LogsInv, FinLog, SealedWritten
  <2>5. Submitting' /\ OpenLogExplained'
    BY <1>4, <2>2 DEF LogsInv, FinLog, Submitting, OpenLogExplained, Up, memory
  <2> QED BY <2>3, <2>4, <2>5 DEF LogsInv
<1>5. CASE FinWatch
  <2>1. TypeOK'
    BY <1>0, <1>5, ConnType, TypeForm, TypeFormNext DEF FinWatch, rows, counters
  <2>2. SealedWritten' /\ Submitting' /\ OpenLogExplained'
    BY <1>5 DEF LogsInv, FinWatch, SealedWritten, Submitting, OpenLogExplained, OwesLog, Up,
                rows, counters
  <2> QED BY <2>1, <2>2 DEF LogsInv
<1> QED BY <1>1, <1>2, <1>3, <1>4, <1>5
\* The select of the connection drops its handler.
LEMMA DropInv ==
    ASSUME LogsInv, DropHandler
    PROVE  LogsInv'
<1>0. TypeOK /\ conn.left \in Int
  BY TypeForm DEF LogsInv, Conns
<1>1. TypeOK'
  BY <1>0, ConnType, TypeForm, TypeFormNext DEF DropHandler, Fault, rows, memory
<1>2. excuse' # {}
  BY DEF DropHandler
<1>3. SealedWritten' /\ Submitting' /\ OpenLogExplained'
  BY <1>2 DEF LogsInv, DropHandler, SealedWritten, Submitting, OpenLogExplained, Up,
              rows, memory
<1> QED BY <1>1, <1>3 DEF LogsInv

-----------------------------------------------------------------------------
(* Tasks that take the build from its connection.                           *)

\* cleanup_terminal_state and the end of a drain: row, then log, then the rest.
LEMMA CleanupInv ==
    ASSUME LogsInv, Cleanup \/ DrainRow \/ CleanupLog \/ CleanupActive \/ DropSender
    PROVE  LogsInv'
<1>0. TypeOK /\ "failure" \in Terminal
  BY DEF LogsInv, Terminal
<1>1. CASE Cleanup \/ DrainRow
  <2>1. closer' \in {"log", "drain_log"} /\ queue' = "active" /\ faults' \in Int
    BY <1>0, <1>1, TypeForm DEF Cleanup, DrainRow, Fault, memory, counters
  <2>2. TypeOK'
    BY <1>0, <1>1, <2>1, TypeForm, TypeFormNext, RowStatements
       DEF Cleanup, DrainRow, Closers, memory, counters
  <2>3. SealedWritten' /\ Submitting' /\ OpenLogExplained'
    BY <1>1, <2>1 DEF LogsInv, Cleanup, DrainRow, SealedWritten, Submitting, OpenLogExplained,
                      OwesLog, counters
  <2> QED BY <2>2, <2>3 DEF LogsInv
<1>2. CASE CleanupLog
  <2>1. /\ log' = "open" => excuse' # {}
        /\ excuse \subseteq excuse' /\ (sealed' = sealed \/ sealed' = Len(file.lines))
    BY <1>0, <1>2, LogFinishedType DEF CleanupLog
  <2>2. TypeOK'
    BY <1>0, <1>2, TypeForm, TypeFormNext, LogFinishedType DEF CleanupLog, Closers, memory
  <2>3. SealedWritten'
    BY <1>0, <1>2, <2>1, FileLines DEF LogsInv, CleanupLog, SealedWritten
  <2>4. Submitting' /\ OpenLogExplained'
    BY <1>2, <2>1 DEF LogsInv, CleanupLog, Submitting, OpenLogExplained, Up, memory
  <2> QED BY <2>2, <2>3, <2>4 DEF LogsInv
<1>3. CASE CleanupActive \/ DropSender
  <2>1. TypeOK'
    BY <1>0, <1>3, TypeForm, TypeFormNext DEF CleanupActive, DropSender, Closers, rows, counters
  <2>2. SealedWritten' /\ Submitting' /\ OpenLogExplained'
    BY <1>3 DEF LogsInv, CleanupActive, DropSender, SealedWritten, Submitting, OpenLogExplained,
                OwesLog, Up, rows, counters
  <2> QED BY <2>1, <2>2 DEF LogsInv
<1> QED BY <1>1, <1>2, <1>3

\* rollback_active_to_queued around its row, and the revocation of a queued build.
LEMMA RequeueInv ==
    ASSUME LogsInv, Rollback \/ RollbackLane \/ RevokeQueued \/ RevokeRow
    PROVE  LogsInv'
<1>0. TypeOK
  BY DEF LogsInv
<1>1. CASE Rollback \/ RollbackLane \/ RevokeQueued
  <2>1. TypeOK'
    BY <1>0, <1>1, TypeForm, TypeFormNext
       DEF Rollback, RollbackLane, RevokeQueued, Closers, rows, counters
  <2>2. SealedWritten' /\ Submitting' /\ OpenLogExplained'
    BY <1>1 DEF LogsInv, Rollback, RollbackLane, RevokeQueued, SealedWritten, Submitting,
                OpenLogExplained, OwesLog, Terminal, Up, rows, counters
  <2> QED BY <2>1, <2>2 DEF LogsInv
<1>2. CASE RevokeRow
  <2>1. TypeOK'
    BY <1>0, <1>2, TypeForm, TypeFormNext, RowStatements DEF RevokeRow, Closers, memory
  <2>2. excuse' # {}
    BY <1>2 DEF RevokeRow
  <2>3. SealedWritten' /\ Submitting' /\ OpenLogExplained'
    BY <1>2, <2>2 DEF LogsInv, RevokeRow, SealedWritten, Submitting, OpenLogExplained, Up,
                      memory
  <2> QED BY <2>1, <2>3 DEF LogsInv
<1> QED BY <1>1, <1>2

-----------------------------------------------------------------------------
(* The collector.                                                           *)

LEMMA CollectorInv ==
    ASSUME LogsInv, Collector
    PROVE  LogsInv'
<1>0. TypeOK /\ file \in Files
  BY TypeForm DEF LogsInv
<1>1. CASE GcSelect
  <2>1. TypeOK'
    BY <1>0, <1>1, TypeForm, TypeFormNext DEF GcSelect, rows, memory, counters
  <2>2. SealedWritten' /\ Submitting' /\ OpenLogExplained'
    BY <1>1 DEF LogsInv, GcSelect, SealedWritten, Submitting, OpenLogExplained, OwesLog, Up,
                rows, memory, counters
  <2> QED BY <2>1, <2>2 DEF LogsInv
<1>2. CASE GcFile
  <2>1. [file EXCEPT !.there = FALSE] \in Files
    <3>1. FALSE \in BOOLEAN
      OBVIOUS
    <3> QED BY <1>0, <3>1, ZenonT(60) DEF Files
  <2>2. file' \in Files /\ file'.lines = file.lines
    BY <1>0, <1>2, <2>1, ZenonT(60) DEF GcFile, Files
  <2>3. TypeOK'
    BY <1>0, <1>2, <2>2, TypeForm, TypeFormNext DEF GcFile, Fault, memory
  <2>4. SealedWritten' /\ Submitting' /\ OpenLogExplained'
    BY <1>2, <2>2 DEF LogsInv, GcFile, SealedWritten, Submitting, OpenLogExplained, OwesLog, Up,
                      memory
  <2> QED BY <2>3, <2>4 DEF LogsInv
<1>3. CASE GcRow
  <2>1. TypeOK'
    BY <1>0, <1>3, TypeForm, TypeFormNext DEF GcRow, Fault, memory
  <2>2. SealedWritten' /\ Submitting' /\ OpenLogExplained'
    BY <1>3 DEF LogsInv, GcRow, SealedWritten, Submitting, OpenLogExplained, OwesLog, Up, memory
  <2> QED BY <2>1, <2>2 DEF LogsInv
<1> QED BY <1>1, <1>2, <1>3 DEF Collector
-----------------------------------------------------------------------------
(* Stops and startup recovery.                                              *)

\* A stream that is cut off.
LEMMA LostType ==
    ASSUME NEW s \in Streams
    PROVE  [s EXCEPT !.pc = "lost", !.rx = 0, !.fresh = FALSE] \in Streams
<1>1. FALSE \in BOOLEAN /\ 0 \in Int
  OBVIOUS
<1> QED BY <1>1, ZenonT(60) DEF Streams

\* What the end of the process leaves.
LEMMA HaltType ==
    ASSUME TypeOK, Halt
    PROVE  /\ index' \subseteq Int \X Nat /\ watch' \in Int /\ queue' = "none"
           /\ conn' \in Conns /\ closer' \in Closers /\ gc' = "idle" /\ server' = "down"
           /\ next' \in Int
           /\ stream' \in [Followers -> Streams]
<1>1. conn.left \in Int /\ next \in Int /\ stream \in [Followers -> Streams]
  BY TypeForm DEF Conns
<1>2. stream' \in [Followers -> Streams]
  BY <1>1, LostType, ZenonT(60) DEF Halt
<1>3. index' \subseteq Int \X Nat /\ watch' \in Int /\ next' \in Int
  <2>1. index' = {} /\ watch' = 0 /\ next' = next + conn.left
    BY Zenon DEF Halt
  <2> QED BY <1>1, <2>1
<1>4. /\ queue' = "none" /\ gc' = "idle" /\ server' = "down"
      /\ conn' \in Conns /\ closer' \in Closers
  BY ConnType, ZenonT(60) DEF Halt, Closers
<1> QED BY <1>2, <1>3, <1>4

LEMMA StopInv ==
    ASSUME LogsInv, Stop \/ DrainLog
    PROVE  LogsInv'
<1>0. TypeOK /\ Halt
  BY DEF LogsInv, Stop, DrainLog
<1>1. CASE Stop
  <2>1. TypeOK'
    BY <1>0, <1>1, HaltType, TypeForm, TypeFormNext DEF Stop, Fault, rows
  <2>2. SealedWritten' /\ Submitting'
    BY <1>0, <1>1, HaltType DEF LogsInv, Stop, SealedWritten, Submitting, rows
  <2>3. OpenLogExplained'
    BY <1>1 DEF LogsInv, Stop, OpenLogExplained, rows
  <2> QED BY <2>1, <2>2, <2>3 DEF LogsInv
<1>2. CASE DrainLog
  <2>1. TypeOK'
    BY <1>0, <1>2, HaltType, FileLines, TypeForm, TypeFormNext DEF DrainLog
  <2>2. SealedWritten' /\ Submitting'
    BY <1>0, <1>2, HaltType, FileLines DEF LogsInv, DrainLog, SealedWritten, Submitting
  <2>3. OpenLogExplained'
    BY <1>2 DEF DrainLog, OpenLogExplained
  <2> QED BY <2>1, <2>2, <2>3 DEF LogsInv
<1> QED BY <1>1, <1>2

LEMMA RecoverInv ==
    ASSUME LogsInv, Recover
    PROVE  LogsInv'
<1>0. TypeOK /\ {"failure", "revoked"} \subseteq Terminal
  BY DEF LogsInv, Terminal
<1>1. CASE Boot \/ Serve
  <2>1. TypeOK'
    BY <1>0, <1>1, TypeForm, TypeFormNext DEF Boot, Serve, rows, memory, counters
  <2>2. SealedWritten' /\ Submitting' /\ OpenLogExplained'
    BY <1>1 DEF LogsInv, Boot, Serve, SealedWritten, Submitting, OpenLogExplained, OwesLog, Up,
                rows, memory, counters
  <2> QED BY <2>1, <2>2 DEF LogsInv
<1>2. CASE RecoverRow
  <2>1. build' \in BuildRows /\ server' \in {"log", "ready"} /\ faults' \in Int
        /\ (queue' = queue \/ queue' = "lane")
    BY <1>0, <1>2, TypeForm, RowStatements DEF RecoverRow, Fault
  <2>2. TypeOK'
    BY <1>0, <1>2, <2>1, TypeForm, TypeFormNext DEF RecoverRow
  <2>3. queue # "submit" /\ queue' # "submit"
    BY <1>2, <2>1 DEF LogsInv, RecoverRow, Submitting, Up
  <2>4. \/ server' = "log" \/ excuse' # {}
        \/ (build' = build /\ excuse' = excuse)
    BY <1>2 DEF RecoverRow
  <2>5. SealedWritten' /\ Submitting'
    BY <1>2, <2>3 DEF LogsInv, RecoverRow, SealedWritten, Submitting
  <2>6. OpenLogExplained'
    BY <1>2, <2>4 DEF LogsInv, RecoverRow, OpenLogExplained, OwesLog
  <2> QED BY <2>2, <2>5, <2>6 DEF LogsInv
<1>3. CASE RecoverLog
  <2>1. TypeOK'
    BY <1>0, <1>3, FileLines, TypeForm, TypeFormNext DEF RecoverLog, memory
  <2>2. SealedWritten'
    BY <1>0, <1>3, FileLines DEF LogsInv, RecoverLog, SealedWritten
  <2>3. Submitting' /\ OpenLogExplained'
    BY <1>3 DEF LogsInv, RecoverLog, Submitting, OpenLogExplained, Up, memory
  <2> QED BY <2>1, <2>2, <2>3 DEF LogsInv
<1> QED BY <1>1, <1>2, <1>3 DEF Recover

-----------------------------------------------------------------------------
(* Followers.                                                               *)

\* A step of one stream disturbs nothing but that stream.
LEMMA SetInv ==
    ASSUME LogsInv, NEW f \in Followers, NEW s \in Streams, Set(f, s)
    PROVE  LogsInv'
<1>0. TypeOK
  BY DEF LogsInv
<1>1. stream' \in [Followers -> Streams]
  BY <1>0, TypeForm DEF Set
<1>2. TypeOK'
  BY <1>0, <1>1, TypeForm, TypeFormNext DEF Set, rows, memory, tasks, counters
<1>3. SealedWritten' /\ Submitting' /\ OpenLogExplained'
  BY DEF LogsInv, Set, SealedWritten, Submitting, OpenLogExplained, OwesLog, Up,
         rows, memory, tasks, counters
<1> QED BY <1>2, <1>3 DEF LogsInv

\* The fields of a stream.
LEMMA StreamFields ==
    ASSUME NEW s \in Streams
    PROVE  /\ s.start \in Int /\ s.off \in Nat /\ s.pos \in Nat /\ s.rx \in Int
           /\ s.errs \in Int /\ s.got \in Seq(Int)
BY DEF Streams

\* read_available_lines leaves a stream, and reads an open file to its end.
LEMMA ReadType ==
    ASSUME TypeOK, NEW s \in Streams
    PROVE  /\ Read(s) \in Streams
           /\ \A pc \in {"check", "done"} :
                /\ [Read(s) EXCEPT !.pc = pc] \in Streams
                /\ [Read(s) EXCEPT !.pc = pc].fd = s.fd
                /\ s.fd => [Read(s) EXCEPT !.pc = pc].pos = Len(file.lines)
<1>1. file.lines \in Seq(Int) /\ Len(file.lines) \in Nat
  BY FileLines
<1>2. s.got \o SubSeq(file.lines, s.pos + 1, Len(file.lines)) \in Seq(Int)
  <2>1. SubSeq(file.lines, s.pos + 1, Len(file.lines)) \in Seq(Int)
    BY <1>1, StreamFields, SubSeqProperties
  <2> QED BY <2>1, StreamFields
<1>3. [s EXCEPT !.pos = Len(file.lines),
                !.got = s.got \o SubSeq(file.lines, s.pos + 1, Len(file.lines))] \in Streams
  BY <1>1, <1>2, ZenonT(60) DEF Streams
<1>4. Read(s) \in Streams
  BY <1>3 DEF Read
<1>5. Read(s).fd = s.fd /\ (s.fd => Read(s).pos = Len(file.lines))
  BY DEF Read, Streams
<1> DEFINE r == Read(s)
<1> HIDE DEF r
<1>6. ASSUME NEW pc \in {"check", "done"}
      PROVE  [r EXCEPT !.pc = pc] \in Streams
  BY <1>4, ZenonT(60) DEF Streams, r
<1>7. ASSUME NEW pc \in {"check", "done"}
      PROVE  [r EXCEPT !.pc = pc].fd = r.fd /\ [r EXCEPT !.pc = pc].pos = r.pos
  BY <1>4 DEF Streams, r
<1> QED BY <1>4, <1>5, <1>6, <1>7 DEF r
\* The answer to a request.
LEMMA FollowType ==
    ASSUME TypeOK, NEW s \in Streams
    PROVE  /\ LogsFollow(s) \in Streams
           /\ [s EXCEPT !.pc = "end"] \in Streams
           /\ [s EXCEPT !.errs = @ + 1, !.pc = "lost"] \in Streams
<1>1. [s EXCEPT !.pc = "end"] \in Streams
  BY ZenonT(60) DEF Streams
<1>2. [s EXCEPT !.errs = @ + 1, !.pc = "lost"] \in Streams
  <2>1. s.errs + 1 \in Int
    BY StreamFields
  <2> QED BY <2>1, ZenonT(60) DEF Streams
<1>3. [NoStream EXCEPT !.pc = "open", !.fin = (log = "finished"),
                       !.start = Resume(s), !.got = s.got] \in Streams
  <2>1. NoStream \in Streams
    BY DEF NoStream, Streams
  <2>2. Resume(s) \in Int /\ s.got \in Seq(Int)
    BY StreamFields DEF Resume
  <2>3. (log = "finished") \in BOOLEAN
    BY Zenon
  <2> HIDE DEF NoStream
  <2> QED BY <2>1, <2>2, <2>3, ZenonT(60) DEF Streams
<1> QED BY <1>1, <1>3, <1>2 DEF LogsFollow

\* Every step of a follower sets its stream, and a done event follows a read.
LEMMA FollowerSets ==
    ASSUME TypeOK, NEW f \in Followers, FollowerStep(f)
    PROVE  \E s \in Streams :
             /\ Set(f, s)
             /\ s.pc = "done" /\ s.fd /\ stream[f].pc # "done" => s.pos = Len(file.lines)
<1> DEFINE s == stream[f]
<1>0. s \in Streams
  BY TypeForm
<1> HIDE DEF s
<1>1. CASE Follow(f)
  <2>1. PICK r \in {LogsFollow(s), [s EXCEPT !.pc = "end"],
                    [s EXCEPT !.errs = @ + 1, !.pc = "lost"]} : Set(f, r)
    BY <1>1 DEF Follow, s
  <2>2. r \in Streams
    BY <1>0, <2>1, FollowType, ZenonT(60)
  <2>3. r.pc # "done"
    BY <1>0, <2>1, ZenonT(60) DEF LogsFollow, NoStream, Streams
  <2> QED BY <2>1, <2>2, <2>3
<1>2. CASE OpenFile(f)
  <2>1. [s EXCEPT !.pc = "seek", !.fd = file.there] \in Streams
    BY <1>0, FileLines, ZenonT(60) DEF Streams
  <2>2. [s EXCEPT !.pc = "seek", !.fd = file.there].pc # "done"
    BY <1>0 DEF Streams
  <2> QED BY <1>2, <2>1, <2>2, ZenonT(60) DEF OpenFile, s
<1>3. CASE Seek(f)
  <2>1. PICK at \in Nat : Set(f, [s EXCEPT !.pc = "subscribe", !.off = at, !.pos = at])
    <3>1. index \subseteq Int \X Nat
      BY TypeForm
    <3>2. SeqOffset(s.start) \in Nat
      BY <3>1 DEF SeqOffset
    <3> QED BY <1>3, <3>2, ZenonT(60) DEF Seek, s
  <2>2. [s EXCEPT !.pc = "subscribe", !.off = at, !.pos = at] \in Streams
    BY <1>0, ZenonT(60) DEF Streams
  <2>3. [s EXCEPT !.pc = "subscribe", !.off = at, !.pos = at].pc # "done"
    BY <1>0 DEF Streams
  <2> QED BY <2>1, <2>2, <2>3, ZenonT(60)
<1>4. CASE Subscribe(f) \/ TrySubscribe(f)
  <2>1. PICK pc \in {"rest", "read"} : Set(f, [s EXCEPT !.rx = watch, !.pc = pc])
    BY <1>4, ZenonT(60) DEF Subscribe, TrySubscribe, s
  <2>2. watch \in Int
    BY TypeForm
  <2>3. [s EXCEPT !.rx = watch, !.pc = pc] \in Streams
    BY <1>0, <2>2, ZenonT(60) DEF Streams
  <2>4. [s EXCEPT !.rx = watch, !.pc = pc].pc # "done"
    BY <1>0 DEF Streams
  <2> QED BY <2>1, <2>3, <2>4, ZenonT(60)
<1>5. CASE ReadLoop(f)
  <2> DEFINE t == [s EXCEPT !.fd = @ \/ file.there]
  <2>1. t \in Streams
    <3>1. (s.fd \/ file.there) \in BOOLEAN
      BY Zenon
    <3> QED BY <1>0, <3>1, ZenonT(60) DEF Streams
  <2>2. Set(f, [Read(t) EXCEPT !.pc = "check"])
    BY <1>5 DEF ReadLoop, s
  <2> HIDE DEF t
  <2>3. Read(t) \in Streams /\ [Read(t) EXCEPT !.pc = "check"] \in Streams
    BY <2>1, ReadType, ZenonT(60)
  <2>4. [Read(t) EXCEPT !.pc = "check"].pc # "done"
    BY <2>3 DEF Streams
  <2> QED BY <2>2, <2>3, <2>4, ZenonT(60)
<1>6. CASE Check(f)
  <2>1. PICK pc \in {"rest", "wait"} : Set(f, [s EXCEPT !.pc = pc])
    BY <1>6 DEF Check, s
  <2>2. [s EXCEPT !.pc = pc] \in Streams
    BY <1>0, ZenonT(60) DEF Streams
  <2>3. [s EXCEPT !.pc = pc].pc # "done"
    BY <1>0 DEF Streams
  <2> QED BY <2>1, <2>2, <2>3, ZenonT(60)
<1>7. ASSUME Set(f, [Read(s) EXCEPT !.pc = "done"])
      PROVE  \E r \in Streams :
               /\ Set(f, r)
               /\ r.pc = "done" /\ r.fd /\ stream[f].pc # "done" => r.pos = Len(file.lines)
  <2> DEFINE r == [Read(s) EXCEPT !.pc = "done"]
  <2>1. r \in Streams /\ r.fd = s.fd /\ (s.fd => r.pos = Len(file.lines))
    BY <1>0, ReadType, ZenonT(60)
  <2>2. Set(f, r)
    BY <1>7
  <2> HIDE DEF r
  <2> QED BY <2>1, <2>2
<1>8. CASE Rest(f)
  BY <1>7, <1>8 DEF Rest, s
<1>9. CASE Wait(f)
  <2>1. CASE Set(f, [s EXCEPT !.fresh = FALSE, !.pc = "read"])
    <3>1. FALSE \in BOOLEAN
      OBVIOUS
    <3>2. [s EXCEPT !.fresh = FALSE, !.pc = "read"] \in Streams
      BY <1>0, <3>1, ZenonT(60) DEF Streams
    <3>3. [s EXCEPT !.fresh = FALSE, !.pc = "read"].pc # "done"
      BY <1>0, ZenonT(60) DEF Streams
    <3> QED BY <2>1, <3>2, <3>3, ZenonT(60)
  <2>2. CASE Set(f, [Read(s) EXCEPT !.pc = "done"])
    BY <1>7, <2>2
  <2>3. CASE Set(f, [s EXCEPT !.pc = IF index # {} THEN "retry" ELSE "read"])
    <3>1. PICK pc \in {"retry", "read"} : Set(f, [s EXCEPT !.pc = pc])
      BY <2>3
    <3>2. [s EXCEPT !.pc = pc] \in Streams
      BY <1>0, ZenonT(60) DEF Streams
    <3>3. [s EXCEPT !.pc = pc].pc # "done"
      BY <1>0 DEF Streams
    <3> QED BY <3>1, <3>2, <3>3, ZenonT(60)
  <2> QED BY <1>9, <2>1, <2>2, <2>3 DEF Wait, s
<1> QED BY <1>1, <1>2, <1>3, <1>4, <1>5, <1>6, <1>8, <1>9, ZenonT(60) DEF FollowerStep
\* A stream breaks, or a send of the writer reaches it.
LEMMA StreamsInv ==
    ASSUME LogsInv, Notify \/ \E f \in Followers : Break(f)
    PROVE  LogsInv'
<1>0. TypeOK /\ stream \in [Followers -> Streams]
  BY TypeForm DEF LogsInv
<1>1. CASE Notify
  <2>1. ASSUME NEW f \in Followers
        PROVE  [stream[f] EXCEPT !.fresh = @ \/ (watch # 0 /\ stream[f].rx = watch)] \in Streams
    <3>1. (stream[f].fresh \/ (watch # 0 /\ stream[f].rx = watch)) \in BOOLEAN
      BY Zenon
    <3> QED BY <1>0, <3>1, ZenonT(60) DEF Streams
  <2>2. stream' \in [Followers -> Streams]
    BY <1>1, <2>1 DEF Notify
  <2>3. TypeOK'
    BY <1>0, <1>1, <2>2, ConnType, TypeForm, TypeFormNext DEF Notify, rows, memory, counters
  <2>4. SealedWritten' /\ Submitting' /\ OpenLogExplained'
    BY <1>1 DEF LogsInv, Notify, SealedWritten, Submitting, OpenLogExplained, OwesLog, Up,
                rows, memory, counters
  <2> QED BY <2>3, <2>4 DEF LogsInv
<1>2. CASE \E f \in Followers : Break(f)
  <2>1. PICK f \in Followers : Break(f)
    BY <1>2
  <2>2. stream' \in [Followers -> Streams]
    BY <1>0, <2>1, LostType, ZenonT(60) DEF Break
  <2>3. TypeOK'
    <3>1. faults' = faults + 1 /\ UNCHANGED << rows, memory, tasks, next, attempts, sealed >>
      BY <2>1, Zenon DEF Break, Fault
    <3> QED BY <1>0, <2>2, <3>1, TypeForm, TypeFormNext DEF rows, memory, tasks
  <2>4. SealedWritten' /\ Submitting' /\ OpenLogExplained'
    BY <2>1, ZenonT(60) DEF LogsInv, Break, SealedWritten, Submitting, OpenLogExplained, OwesLog, Up,
                rows, memory, tasks
  <2> QED BY <2>3, <2>4 DEF LogsInv
<1> QED BY <1>1, <1>2

-----------------------------------------------------------------------------
(* The invariant and what follows from it.                                  *)

LEMMA InitInv == Init => LogsInv
<1> SUFFICES ASSUME Init PROVE LogsInv
  OBVIOUS
<1>1. build \in BuildRows /\ file \in Files
  BY DEF Init, BuildRows, States, Files
<1>2. stream \in [Followers -> Streams]
  <2>1. NoStream \in Streams
    BY DEF NoStream, Streams
  <2> QED BY <2>1 DEF Init
<1>3. index = {} /\ index \subseteq Int \X Nat
  BY DEF Init
<1>4. TypeOK
  BY <1>1, <1>2, <1>3, ConnType, TypeForm DEF Init, Closers
<1>5. Len(file.lines) = 0
  BY DEF Init
<1>6. SealedWritten /\ Submitting /\ OpenLogExplained
  BY <1>5 DEF Init, SealedWritten, Submitting, OpenLogExplained
<1> QED BY <1>4, <1>6 DEF LogsInv

LEMMA NextInv == LogsInv /\ [Next]_vars => LogsInv'
<1> SUFFICES ASSUME LogsInv, [Next]_vars PROVE LogsInv'
  OBVIOUS
<1>1. CASE \E f \in Followers : FollowerStep(f)
  <2>1. PICK f \in Followers : FollowerStep(f)
    BY <1>1
  <2>2. PICK s \in Streams : Set(f, s)
    BY <2>1, FollowerSets DEF LogsInv
  <2> QED BY <2>2, SetInv
<1>2. CASE \/ InsertBuild \/ InsertLogRow \/ Dispatch \/ Started \/ Revoke \/ RollbackRow
           \/ \E n \in 1 .. 2 : Output(n)
           \/ AppendLine \/ ExtendIndex
  BY <1>2, SubmitInv, ActiveInv, OutputInv
<1>3. CASE \/ Report \/ FinActive \/ FinIndex \/ FinLog \/ FinWatch \/ DropHandler
           \/ Cleanup \/ DrainRow \/ CleanupLog \/ CleanupActive \/ DropSender
           \/ Rollback \/ RollbackLane \/ RevokeQueued \/ RevokeRow
  BY <1>3, FinishInv, DropInv, CleanupInv, RequeueInv
<1>4. CASE \/ Stop \/ DrainLog \/ Recover \/ Collector
           \/ Notify \/ \E f \in Followers : Break(f)
  BY <1>4, StopInv, RecoverInv, CollectorInv, StreamsInv
<1>5. CASE UNCHANGED vars
  BY <1>5, TypeForm, TypeFormNext
     DEF vars, LogsInv, SealedWritten, Submitting, OpenLogExplained, OwesLog, Up
<1> QED BY <1>1, <1>2, <1>3, <1>4, <1>5 DEF Next, ConnStep, Ending, CloserStep

\* LogsInv holds in every state of every behaviour.
THEOREM LogsInvariance == Spec => []LogsInv
<1>1. Init => LogsInv
  BY InitInv
<1>2. LogsInv /\ [Next]_vars => LogsInv'
  BY NextInv
<1> QED BY <1>1, <1>2, PTL DEF Spec

\* Rows, file, index, tasks and streams always have their types.
THEOREM BuildLogsTypeCorrect == Spec => []TypeOK
<1>1. LogsInv => TypeOK
  BY DEF LogsInv
<1> QED BY <1>1, LogsInvariance, PTL

\* An ended build's log row is open only while a finisher still has to close it, or for
\* a recorded reason, in whatever order report, cleanup, rollback, revocation, drain,
\* stop and recovery come (set_build_log_finished and its callers).
THEOREM OpenLogExplainedTheorem == Spec => []OpenLogExplained
<1>1. LogsInv => OpenLogExplained
  BY DEF LogsInv
<1> QED BY <1>1, LogsInvariance, PTL

\* A stream with the file open sends every line written before the finished mark before
\* its done event (sse_follow).
THEOREM DoneAfterLastLineTheorem == Spec => DoneAfterLastLine
<1> DEFINE Sent ==
      \A f \in Followers :
         (stream[f].pc # "done" /\ stream'[f].pc = "done" /\ stream'[f].fd
            /\ stream'[f].off = 0)
         => stream'[f].pos >= sealed
<1>1. LogsInv /\ [Next]_vars => [Sent]_vars
  <2> SUFFICES ASSUME LogsInv, [Next]_vars, NEW f \in Followers,
                      stream[f].pc # "done", stream'[f].pc = "done", stream'[f].fd
               PROVE  stream'[f].pos >= sealed
    BY DEF Sent
  <2>0. TypeOK /\ stream \in [Followers -> Streams]
    BY TypeForm DEF LogsInv
  <2>1. ASSUME NEW g \in Followers, FollowerStep(g)
        PROVE  stream'[f].pos >= sealed
    <3>1. PICK s \in Streams :
            /\ Set(g, s)
            /\ s.pc = "done" /\ s.fd /\ stream[g].pc # "done" => s.pos = Len(file.lines)
      BY <2>0, <2>1, FollowerSets
    <3>2. stream' = [stream EXCEPT ![g] = s]
      BY <3>1 DEF Set
    <3>3. f = g /\ stream'[f] = s
      BY <2>0, <3>2
    <3>4. s.pos = Len(file.lines)
      BY <3>1, <3>3
    <3> QED BY <2>0, <3>3, <3>4, FileLines, TypeForm DEF LogsInv, SealedWritten
  <2>2. CASE \E g \in Followers : Break(g)
    <3>1. PICK g \in Followers : Break(g)
      BY <2>2
    <3>2. [stream[g] EXCEPT !.pc = "lost", !.rx = 0, !.fresh = FALSE].pc = "lost"
      BY <2>0 DEF Streams
    <3> QED BY <2>0, <3>1, <3>2 DEF Break
  <2>3. CASE Notify
    <3>1. stream'[f] = [stream[f] EXCEPT !.fresh = @ \/ (watch # 0 /\ stream[f].rx = watch)]
      BY <2>3 DEF Notify
    <3>2. stream'[f].pc = stream[f].pc
      BY <2>0, <3>1 DEF Streams
    <3> QED BY <3>2
  <2>4. CASE Stop \/ DrainLog
    <3>1. \/ stream'[f] = stream[f]
          \/ stream'[f] = [stream[f] EXCEPT !.pc = "lost", !.rx = 0, !.fresh = FALSE]
      BY <2>4, ZenonT(60) DEF Stop, DrainLog, Halt
    <3>2. [stream[f] EXCEPT !.pc = "lost", !.rx = 0, !.fresh = FALSE].pc = "lost"
      BY <2>0 DEF Streams
    <3> QED BY <3>1, <3>2, ZenonT(60)
  <2>5. CASE stream' = stream
    BY <2>5
  <2>6. \/ stream' = stream \/ Stop \/ DrainLog \/ Notify
        \/ \E g \in Followers : FollowerStep(g) \/ Break(g)
    <3>1. CASE \/ InsertBuild \/ InsertLogRow \/ Dispatch \/ Started
               \/ (\E n \in 1 .. 2 : Output(n)) \/ DropHandler
               \/ Rollback \/ RevokeQueued \/ Revoke \/ DrainRow
      BY <3>1 DEF InsertBuild, InsertLogRow, Dispatch, Started, Output, DropHandler, Rollback,
                  RevokeQueued, Revoke, DrainRow
    <3>2. CASE ConnStep \/ Ending
      BY <3>2 DEF ConnStep, AppendLine, ExtendIndex, FinActive, FinIndex, FinLog, FinWatch,
                  Ending, Report, Cleanup
    <3>3. CASE CloserStep
      BY <3>3, ZenonT(60) DEF CloserStep, CleanupLog, CleanupActive, DropSender, RollbackRow, RollbackLane,
                  RevokeRow
    <3>4. CASE Recover \/ Collector
      BY <3>4 DEF Recover, Boot, RecoverRow, RecoverLog, Serve, Collector, GcSelect, GcFile,
                  GcRow
    <3>5. CASE UNCHANGED vars
      BY <3>5, ZenonT(60) DEF vars
    <3> QED BY <3>1, <3>2, <3>3, <3>4, <3>5 DEF Next
  <2> QED BY <2>1, <2>2, <2>3, <2>4, <2>5, <2>6
<1>2. Spec => [][Sent]_vars
  BY <1>1, LogsInvariance, PTL DEF Spec
<1> QED BY <1>2 DEF DoneAfterLastLine

(***************************************************************************)
(* Credentials.                                                            *)
(*                                                                         *)
(* A robot has at most one live token, and a deactivation that was not     *)
(* interrupted leaves no credential of the account alive.  None of this    *)
(* depends on the cache, whose contents stay with TLC (Insert is built     *)
(* from SelectSeq, and what that computes is an induction on the           *)
(* sequence).                                                              *)
(***************************************************************************)
CallRecords == [pc : Pcs, k : Ids \cup {0}, e : Entities]

\* The places of a human's deactivation after its transaction.
Deactivating == {"purge_human", "logins", "keys"}

\* What is left to revoke has a request that will do it.  A login token that is
\* left needs one that has not yet passed the revocation of login tokens, which is
\* what makes the invariant inductive.
OldRevoked ==
    /\ old \subseteq Logins \cup Keys
    /\ old # {} => \E s \in Calls : call[s].pc \in Deactivating
    /\ old \cap Logins # {} => \E s \in Calls : call[s].pc \in {"purge_human", "logins"}

\* The rows as the statements leave them: a robot that was never created has no
\* token, so that the creation of one inserts its only token.
Rows ==
    /\ acct \in [Entities -> {"none", "active", "inactive"}]
    /\ cred \in [Ids -> {"none", "live", "revoked"}]
    /\ wkr \in Keys \cup {0}
    /\ OneRobotToken
    /\ acct[Robot] = "none" => \A k \in Tokens : cred[k] # "live"

CredentialsInv == Rows /\ call \in [Calls -> CallRecords] /\ OldRevoked

-----------------------------------------------------------------------------
(* The credential rows. *)

\* No step deletes the robot's account, and a registration refers to a key.
Kept ==
    /\ acct' \in [Entities -> {"none", "active", "inactive"}]
    /\ acct'[Robot] = "none" => acct[Robot] = "none"
    /\ wkr' \in Keys \cup {0}

\* A revocation makes no row live.
LEMMA RevokeRows ==
    ASSUME Rows, NEW K, RevokeCredentials(K), Kept
    PROVE  /\ Rows'
           /\ \A k \in Ids : cred'[k] = "live" => cred[k] = "live" /\ k \notin K
BY DEF Rows, RevokeCredentials, OneRobotToken, Ids, Kept

\* Login tokens and API keys have no say in how many robot tokens there are.
LEMMA StoreRows ==
    ASSUME Rows, NEW k \in Logins \cup Keys, Store(k), Kept
    PROVE  Rows'
BY CredentialsAssumption DEF Rows, Store, OneRobotToken, Ids, Kept

\* A rotation or a revival takes the old tokens away in the statement that
\* precedes the new row, in one transaction.
LEMMA ReplaceRows ==
    ASSUME Rows, NEW new \in Tokens, Kept, acct'[Robot] # "none",
           cred' = [k \in Ids |-> IF k = new THEN "live"
                                  ELSE IF k \in Tokens /\ cred[k] = "live" THEN "revoked"
                                  ELSE cred[k]]
    PROVE  Rows'
BY DEF Rows, OneRobotToken, Ids, Kept

\* Rows that do not change.
LEMMA SameRows == ASSUME Rows, cred' = cred, Kept PROVE Rows'
BY DEF Rows, OneRobotToken, Kept

\* An account that does not change, or that is switched on or off.
LEMMA AcctKept ==
    ASSUME Rows, wkr' = wkr \/ wkr' \in Keys \cup {0},
           \/ UNCHANGED acct
           \/ \E e \in Entities, v \in {"active", "inactive"} : acct' = [acct EXCEPT ![e] = v]
    PROVE  Kept
BY DEF Rows, Kept, Entities

-----------------------------------------------------------------------------
(* What is left of a deactivation. *)

\* The history variable only shrinks.
LEMMA OldShrinks ==
    ASSUME NEW L, NEW O, Remember(L, O)
    PROVE  old' \subseteq O /\ \A k \in old' : cred'[k] = "live"
BY DEF Remember

\* One request moves.  It may stop being the one that will revoke what is left
\* only when nothing is left for it.
LEMMA OneMoves ==
    ASSUME CredentialsInv, NEW s \in Calls, NEW r \in CallRecords, call' = [call EXCEPT ![s] = r],
           old' \subseteq old,
           call[s].pc \in Deactivating => r.pc \in Deactivating \/ old' \subseteq Logins,
           call[s].pc \in {"purge_human", "logins"} =>
               r.pc \in {"purge_human", "logins"} \/ old' \cap Logins = {}
    PROVE  call' \in [Calls -> CallRecords] /\ OldRevoked'
<1>1. call' \in [Calls -> CallRecords]
  BY DEF CredentialsInv
<1>2. call'[s] = r /\ \A t \in Calls \ {s} : call'[t] = call[t]
  BY DEF CredentialsInv
<1>3. old' \cap Logins # {} => \E t \in Calls : call'[t].pc \in {"purge_human", "logins"}
  BY <1>2 DEF CredentialsInv, OldRevoked
<1>4. old' # {} => \E t \in Calls : call'[t].pc \in Deactivating
  BY <1>2, <1>3 DEF CredentialsInv, OldRevoked, Deactivating
<1> QED BY <1>1, <1>3, <1>4 DEF CredentialsInv, OldRevoked

\* A free slot.
LEMMA FreeRequest == Vacant \in CallRecords /\ Vacant.pc = "free"
BY DEF Vacant, CallRecords, Pcs, Entities

\* A request that is no deactivation goes on, or is answered.
LEMMA GotoMoves ==
    ASSUME CredentialsInv, NEW s \in Calls, call[s].pc \notin Deactivating,
           NEW pc \in Pcs, NEW k \in Ids \cup {0}, NEW e \in Entities, Proceed(s, pc, k, e),
           old' \subseteq old
    PROVE  call' \in [Calls -> CallRecords] /\ OldRevoked'
<1> DEFINE r == [pc |-> pc, k |-> k, e |-> e]
<1>1. r \in CallRecords /\ call' = [call EXCEPT ![s] = r]
  BY DEF CallRecords, Proceed
<1> HIDE DEF r
<1> QED BY <1>1, OneMoves, ZenonT(60) DEF Deactivating

\* Such a request is answered.
LEMMA DoneMoves ==
    ASSUME CredentialsInv, NEW s \in Calls, call[s].pc \notin Deactivating, Done(s),
           old' \subseteq old
    PROVE  call' \in [Calls -> CallRecords] /\ OldRevoked'
BY FreeRequest, OneMoves, ZenonT(60) DEF Done, Deactivating
-----------------------------------------------------------------------------
(* The handlers. *)

\* A handler that is no deactivation, once its effect on the rows is known.
LEMMA Handler ==
    ASSUME CredentialsInv, NEW s \in Calls, call[s].pc \notin Deactivating,
           old' \subseteq old, Rows',
           \/ Done(s)
           \/ \E pc \in Pcs, k \in Ids \cup {0}, e \in Entities : Proceed(s, pc, k, e)
    PROVE  CredentialsInv'
BY GotoMoves, DoneMoves DEF CredentialsInv

\* A handler that changes no row.
LEMMA Reader ==
    ASSUME CredentialsInv, NEW s \in Calls, call[s].pc \notin Deactivating,
           old' \subseteq old, UNCHANGED <<acct, cred, wkr>>,
           \/ Done(s)
           \/ \E pc \in Pcs, k \in Ids \cup {0}, e \in Entities : Proceed(s, pc, k, e)
    PROVE  CredentialsInv'
BY Handler, SameRows, AcctKept DEF CredentialsInv

\* What a request remembers.
LEMMA RequestType ==
    ASSUME CredentialsInv, NEW s \in Calls
    PROVE  call[s].pc \in Pcs /\ call[s].k \in Ids \cup {0} /\ call[s].e \in Entities
BY DEF CredentialsInv, CallRecords

\* Authentication reads rows.
LEMMA AuthenticateInv ==
    ASSUME CredentialsInv, NEW s \in Calls,
           \/ FetchCandidates(s) \/ Verified(s) \/ LoadUser(s) \/ WsUpgrade(s)
           \/ PresentCookie(s) \/ \E k \in Ids : PresentBearer(s, k)
    PROVE  CredentialsInv'
<1> USE RequestType
<1>0. {"fetch", "hash", "user", "in"} \subseteq Pcs \ Deactivating /\ "free" \notin Deactivating
  BY DEF Pcs, Deactivating
<1>1. CASE FetchCandidates(s)
  BY <1>0, <1>1, Reader, ZenonT(60) DEF FetchCandidates, At
<1>2. CASE Verified(s)
  BY <1>0, <1>2, OldShrinks, Reader DEF Verified, At
<1>3. CASE LoadUser(s)
  BY <1>0, <1>3, Reader DEF LoadUser, At
<1>4. CASE WsUpgrade(s)
  BY <1>0, <1>4, Reader DEF WsUpgrade, At
<1>5. CASE PresentCookie(s)
  <2>1. sess \in Ids /\ Owner(sess) \in Entities
    BY <1>5 DEF PresentCookie, ValidatePaseto, TokenDecode, Ids, Owner, Entities
  <2> QED BY <1>0, <1>5, <2>1, OldShrinks, Reader DEF PresentCookie, At, ValidatePaseto
<1>6. ASSUME NEW k \in Ids, PresentBearer(s, k) PROVE CredentialsInv'
  <2>1. Owner(k) \in Entities
    BY DEF Owner, Entities
  <2>2. Proceed(s, "user", k, Owner(k)) \/ Proceed(s, "fetch", k, Owner(k))
    BY <1>6 DEF PresentBearer, VerifyApiKey, VerifyRobotToken, VerifyHashedToken,
                ValidatePaseto
  <2> QED BY <1>0, <1>6, <2>1, <2>2, OldShrinks, Reader DEF PresentBearer, At
<1> QED BY <1>1, <1>2, <1>3, <1>4, <1>5, <1>6

\* A login inserts a login token, and reads no row before.
LEMMA LoginInv ==
    ASSUME CredentialsInv, NEW s \in Calls, Callback(s) \/ Exchanged(s) \/ Reply(s)
    PROVE  CredentialsInv'
<1>0. /\ {"exchange", "respond"} \subseteq Pcs \ Deactivating /\ "free" \notin Deactivating
      /\ Human \in Entities
  BY DEF Pcs, Deactivating, Entities
<1>1. CASE Callback(s)
  BY <1>0, <1>1, Reader DEF Callback, At
<1>2. CASE Exchanged(s)
  <2>1. CASE Done(s) /\ UNCHANGED cred
    BY <1>0, <1>2, <2>1, Reader DEF Exchanged, At
  <2>2. ASSUME NEW k \in Logins, Store(k), Proceed(s, "respond", k, Human)
        PROVE  CredentialsInv'
    <3>1. Rows'
      BY <1>2, <2>2, StoreRows, AcctKept DEF Exchanged, CredentialsInv
    <3>2. k \in Ids \cup {0} /\ old' \subseteq old /\ call[s].pc \notin Deactivating
      BY <1>0, <1>2 DEF Ids, Exchanged, At
    <3> QED BY <1>0, <2>2, <3>1, <3>2, Handler
  <2> QED BY <1>2, <2>1, <2>2 DEF Exchanged, InsertToken
<1>3. CASE Reply(s)
  BY <1>0, <1>3, Reader DEF Reply, At
<1> QED BY <1>1, <1>2, <1>3

\* The requests an account makes about its own credentials.
LEMMA OwnInv ==
    ASSUME CredentialsInv, NEW s \in Calls,
           \/ CreateApiKey(s) \/ RevokeApiKey(s) \/ RevokeToken(s) \/ RevokeAllTokens(s)
           \/ RegisterWorker(s)
    PROVE  CredentialsInv'
<1>0. "in" \notin Deactivating /\ "purge_prefix" \in Pcs /\ call[s].pc = "in"
  BY DEF Pcs, Deactivating, CreateApiKey, RevokeApiKey, RevokeToken, RevokeAllTokens,
         RegisterWorker, At
<1>1. CASE CreateApiKey(s) \/ RegisterWorker(s)
  <2>1. PICK k \in Keys : Store(k) /\ (wkr' = wkr \/ wkr' = k)
    BY <1>1 DEF CreateApiKey, CreateKey, InsertApiKey, RegisterWorker, InsertApiKeyInTx,
                InsertWorker
  <2>2. Rows'
    BY <1>1, <2>1, StoreRows, AcctKept DEF CreateApiKey, RegisterWorker, CredentialsInv
  <2> QED BY <1>0, <1>1, <2>2, Handler DEF CreateApiKey, RegisterWorker
<1>2. CASE RevokeApiKey(s)
  <2>1. PICK k \in Keys : RevokeCredentials({k}) /\ Proceed(s, "purge_prefix", k, Owner(k))
    BY <1>2 DEF RevokeApiKey, RevokeApiKeyByPrefix
  <2>2. Rows'
    BY <1>2, <2>1, RevokeRows, AcctKept DEF RevokeApiKey, CredentialsInv
  <2>3. k \in Ids \cup {0} /\ Owner(k) \in Entities /\ old' \subseteq old
    BY <1>2, OldShrinks DEF Ids, Owner, Entities, RevokeApiKey
  <2> QED BY <1>0, <2>1, <2>2, <2>3, Handler
<1>3. CASE RevokeToken(s) \/ RevokeAllTokens(s)
  <2>1. PICK K : RevokeCredentials(K)
    BY <1>3 DEF RevokeToken, RevokeTokenRow, RevokeAllTokens, RevokeAllForUser
  <2>2. Rows'
    BY <1>3, <2>1, RevokeRows, AcctKept DEF RevokeToken, RevokeAllTokens, CredentialsInv
  <2>3. Done(s) /\ old' \subseteq old
    BY <1>3, OldShrinks DEF RevokeToken, RevokeAllTokens
  <2> QED BY <1>0, <2>2, <2>3, Handler
<1> QED BY <1>1, <1>2, <1>3
\* Deactivation: its transaction makes the request responsible for what is live.
LEMMA DeactivateInv ==
    ASSUME CredentialsInv, NEW s \in Calls, Deactivate(s)
    PROVE  CredentialsInv'
<1> DEFINE e == call[s].e
           pc == IF e = Human THEN "purge_human" ELSE "purge_owner"
           r == [pc |-> pc, k |-> 0, e |-> e]
<1>1. e \in Entities /\ pc \in Pcs /\ (e = Human => pc = "purge_human")
  BY RequestType DEF Pcs
<1>2. Rows'
  BY <1>1, SameRows, AcctKept, ZenonT(60) DEF Deactivate, CredentialsInv
<1>3. call' = [call EXCEPT ![s] = r] /\ call[s].pc = "deactivate"
  BY DEF Deactivate, Proceed, At
<1>4. old' \subseteq old \cup (IF e = Human THEN Logins \cup Keys ELSE {})
  BY OldShrinks DEF Deactivate
<1> HIDE DEF e, pc
<1>5. r \in CallRecords /\ r.pc = pc
  BY <1>1 DEF CallRecords
<1> HIDE DEF r
<1>6. CASE e # Human
  <2>1. old' \subseteq old
    BY <1>4, <1>6
  <2> QED BY <1>2, <1>3, <1>5, <2>1, OneMoves, ZenonT(60) DEF Deactivating, CredentialsInv
<1>7. CASE e = Human
  <2>1. call' \in [Calls -> CallRecords] /\ call'[s].pc = "purge_human"
    BY <1>1, <1>3, <1>5, <1>7 DEF CredentialsInv
  <2>2. old' \subseteq Logins \cup Keys
    BY <1>4, <1>7 DEF CredentialsInv, OldRevoked
  <2>3. OldRevoked'
    BY <2>1, <2>2 DEF OldRevoked, Deactivating
  <2> QED BY <1>2, <2>1, <2>3 DEF CredentialsInv
<1> QED BY <1>6, <1>7

\* The three steps that follow, in their order.
LEMMA RevokingInv ==
    ASSUME CredentialsInv, NEW s \in Calls, PurgeHuman(s) \/ RevokeLogins(s) \/ RevokeKeys(s)
    PROVE  CredentialsInv'
<1>1. CASE PurgeHuman(s)
  <2> DEFINE r == [pc |-> "logins", k |-> 0, e |-> call[s].e]
  <2>1. r \in CallRecords /\ r.pc = "logins"
    BY RequestType DEF CallRecords, Pcs
  <2>2. call' = [call EXCEPT ![s] = r] /\ old' \subseteq old
    BY <1>1, OldShrinks DEF PurgeHuman, Proceed
  <2>3. Rows'
    BY <1>1, SameRows, AcctKept DEF PurgeHuman, CredentialsInv
  <2> HIDE DEF r
  <2> QED BY <2>1, <2>2, <2>3, OneMoves, ZenonT(60) DEF Deactivating, CredentialsInv
<1>2. CASE RevokeLogins(s)
  <2> DEFINE r == [pc |-> "keys", k |-> 0, e |-> call[s].e]
  <2>1. r \in CallRecords /\ r.pc = "keys"
    BY RequestType DEF CallRecords, Pcs
  <2>2. call' = [call EXCEPT ![s] = r] /\ old' \subseteq old /\ RevokeCredentials(Logins)
        /\ \A k \in old' : cred'[k] = "live"
    BY <1>2, OldShrinks DEF RevokeLogins, Proceed, RevokeAllForUser
  <2>3. Rows' /\ \A k \in Ids : cred'[k] = "live" => k \notin Logins
    BY <1>2, <2>2, RevokeRows, AcctKept DEF RevokeLogins, CredentialsInv
  <2>4. old' \cap Logins = {}
    BY <2>2, <2>3 DEF Ids
  <2> HIDE DEF r
  <2> QED BY <2>1, <2>2, <2>3, <2>4, OneMoves, ZenonT(60) DEF Deactivating, CredentialsInv
<1>3. CASE RevokeKeys(s)
  <2>2. /\ call' = [call EXCEPT ![s] = Vacant] /\ RevokeCredentials(Keys) /\ call[s].pc = "keys"
        /\ old' \subseteq old /\ \A k \in old' : cred'[k] = "live"
    BY <1>3, OldShrinks DEF RevokeKeys, Done, RevokeAllApiKeys, At
  <2>3. Rows' /\ \A k \in Ids : cred'[k] = "live" => k \notin Keys
    BY <1>3, <2>2, RevokeRows, AcctKept DEF RevokeKeys, CredentialsInv
  <2>4. old' \subseteq Logins
    BY <2>2, <2>3 DEF Ids, CredentialsInv, OldRevoked
  <2> QED BY <2>2, <2>3, <2>4, FreeRequest, OneMoves, ZenonT(60) DEF Deactivating, CredentialsInv
<1> QED BY <1>1, <1>2, <1>3

\* Activation, and the last purge of the other handlers.
LEMMA ActivateInv ==
    ASSUME CredentialsInv, NEW s \in Calls,
           \/ FindActive(s) \/ FindToActivate(s) \/ Activate(s)
           \/ PurgeOwner(s) \/ PurgePrefix(s)
    PROVE  CredentialsInv'
<1>0. /\ {"deactivate", "activate", "purge_owner", "purge_prefix"} \subseteq Pcs \ Deactivating
      /\ "free" \notin Deactivating
  BY DEF Pcs, Deactivating
<1>1. CASE FindActive(s)
  BY <1>0, <1>1, Reader DEF FindActive, At
<1>2. CASE FindToActivate(s)
  BY <1>0, <1>2, Reader, ZenonT(60) DEF FindToActivate, At
<1>3. CASE Activate(s)
  <2>1. call[s].e \in Entities
    BY RequestType
  <2>2. Rows'
    BY <1>3, <2>1, SameRows, AcctKept, ZenonT(60) DEF Activate, CredentialsInv
  <2> QED BY <1>0, <1>3, <2>1, <2>2, Handler DEF Activate, At
<1>4. CASE PurgeOwner(s)
  BY <1>0, <1>4, OldShrinks, Reader DEF PurgeOwner, At
<1>5. CASE PurgePrefix(s)
  BY <1>0, <1>5, OldShrinks, Reader DEF PurgePrefix, At
<1> QED BY <1>1, <1>2, <1>3, <1>4, <1>5
\* The robot's handlers: each replaces the live token, or takes it away.
LEMMA RobotInv ==
    ASSUME CredentialsInv, NEW s \in Calls,
           CreateOrRevive(s) \/ TombstoneRobot(s) \/ RotateToken(s) \/ RevokeRobotToken(s)
    PROVE  CredentialsInv'
<1>0. /\ "purge_owner" \in Pcs /\ "free" \notin Deactivating /\ Robot \in Entities
      /\ call[s].pc = "free" /\ wkr' = wkr
  BY DEF Pcs, Deactivating, Entities, CreateOrRevive, TombstoneRobot, RotateToken,
         RevokeRobotToken, At
<1>1. old' \subseteq old
  BY OldShrinks DEF CreateOrRevive, TombstoneRobot, RotateToken, RevokeRobotToken
<1>2. CASE CreateOrRevive(s)
  <2>1. PICK new \in Tokens :
          \/ acct[Robot] = "none" /\ CreateRobot(new) /\ UNCHANGED call
          \/ ReviveRobot(new) /\ Proceed(s, "purge_owner", 0, Robot)
    BY <1>2 DEF CreateOrRevive, GenerateRobotTokenMaterial, Fresh
  <2>2. acct' = [acct EXCEPT ![Robot] = "active"]
    BY <2>1 DEF CreateRobot, ReviveRobot
  <2>3. Kept /\ acct'[Robot] # "none"
    BY <1>0, <2>2, AcctKept, ZenonT(60) DEF CredentialsInv, Rows
  <2>4. CASE acct[Robot] = "none" /\ CreateRobot(new) /\ UNCHANGED call
    <3>1. Rows'
      BY <2>3, <2>4 DEF CredentialsInv, Rows, Kept, CreateRobot, Store, OneRobotToken, Ids
    <3>2. OldRevoked'
      BY <1>1, <2>4 DEF CredentialsInv, OldRevoked
    <3> QED BY <2>4, <3>1, <3>2 DEF CredentialsInv
  <2>5. CASE ReviveRobot(new) /\ Proceed(s, "purge_owner", 0, Robot)
    <3>1. Rows'
      BY <2>3, <2>5, ReplaceRows DEF CredentialsInv, ReviveRobot
    <3> QED BY <1>0, <1>1, <2>5, <3>1, Handler
  <2> QED BY <2>1, <2>4, <2>5
<1>3. CASE TombstoneRobot(s) \/ RevokeRobotToken(s)
  <2>1. RevokeCredentials(Tokens) /\ Proceed(s, "purge_owner", 0, Robot)
    BY <1>3 DEF TombstoneRobot, TombstoneRow, RevokeRobotToken, RevokeAllActiveTokens
  <2>2. UNCHANGED acct \/ acct' = [acct EXCEPT ![Robot] = "inactive"]
    BY <1>3 DEF TombstoneRobot, TombstoneRow, RevokeRobotToken
  <2>3. Rows'
    BY <1>0, <2>1, <2>2, AcctKept, RevokeRows DEF CredentialsInv
  <2> QED BY <1>0, <1>1, <2>1, <2>3, Handler
<1>4. CASE RotateToken(s)
  <2>1. PICK new \in Tokens, renew \in BOOLEAN : RotateRow(new, renew)
    BY <1>4 DEF RotateToken, GenerateRobotTokenMaterial, Fresh
  <2>2. Kept /\ acct'[Robot] # "none"
    BY <1>0, <1>4, <2>1, AcctKept DEF RotateToken, RotateRow, CredentialsInv
  <2>3. Rows'
    BY <2>1, <2>2, ReplaceRows DEF CredentialsInv, RotateRow
  <2> QED BY <1>0, <1>1, <1>4, <2>3, Handler DEF RotateToken
<1> QED BY <1>2, <1>3, <1>4

\* The worker registrations.
LEMMA WorkerInv ==
    ASSUME CredentialsInv, NEW s \in Calls,
           \/ FindToDeregister(s) \/ DeregisterWorker(s)
           \/ FindToRegenerate(s) \/ RegenerateToken(s)
    PROVE  CredentialsInv'
<1>0. /\ {"deregister", "regenerate", "purge_prefix"} \subseteq Pcs \ Deactivating
      /\ "in" \notin Deactivating /\ Human \in Entities
      /\ wkr \in Ids \cup {0} /\ call[s].k \in Ids \cup {0}
  BY RequestType DEF Pcs, Deactivating, Entities, CredentialsInv, Rows, Ids
<1>1. CASE FindToDeregister(s)
  BY <1>0, <1>1, Reader DEF FindToDeregister, At, GetWorker
<1>2. CASE FindToRegenerate(s)
  BY <1>0, <1>2, Reader DEF FindToRegenerate, At, GetWorker
<1>3. CASE DeregisterWorker(s)
  <2>1. Rows'
    BY <1>3, AcctKept, RevokeRows DEF DeregisterWorker, CredentialsInv
  <2>2. old' \subseteq old
    BY <1>3, OldShrinks DEF DeregisterWorker
  <2> QED BY <1>0, <1>3, <2>1, <2>2, Handler DEF DeregisterWorker, At
<1>4. CASE RegenerateToken(s)
  <2>1. PICK new \in Keys :
          /\ cred' = [k \in Ids |-> IF k = new THEN "live"
                                    ELSE IF k = call[s].k THEN "revoked" ELSE cred[k]]
          /\ UpdateApiKeyId(new)
    BY <1>4 DEF RegenerateToken, GenerateApiKeyMaterial, Fresh
  <2>2. Kept
    BY <1>4, <2>1, AcctKept DEF RegenerateToken, UpdateApiKeyId, CredentialsInv
  <2>3. Rows'
    BY <2>1, <2>2, CredentialsAssumption
       DEF CredentialsInv, Rows, Kept, OneRobotToken, Ids
  <2>4. old' \subseteq old
    BY <1>4, OldShrinks DEF RegenerateToken
  <2> QED BY <1>0, <1>4, <2>3, <2>4, Handler DEF RegenerateToken, At
<1> QED BY <1>1, <1>2, <1>3, <1>4

\* A handler that is dropped: what a deactivation leaves is written off.
LEMMA LeaveInv ==
    ASSUME CredentialsInv, NEW s \in Calls, Leave(s)
    PROVE  CredentialsInv'
<1>1. Rows'
  BY SameRows, AcctKept DEF Leave, CredentialsInv
<1>2. /\ call' = [call EXCEPT ![s] = Vacant] /\ old' \subseteq old
      /\ call[s].pc \in Deactivating => old' = {}
  BY OldShrinks DEF Leave, Done, Deactivating
<1> QED BY <1>1, <1>2, FreeRequest, OneMoves, ZenonT(60) DEF Deactivating, CredentialsInv

\* Logout leaves the requests alone.
LEMMA LogoutInv ==
    ASSUME CredentialsInv, Logout
    PROVE  CredentialsInv'
<1>1. Rows'
  BY AcctKept, RevokeRows DEF Logout, RevokeTokenRow, CredentialsInv
<1>2. old' \subseteq old /\ call' = call
  BY OldShrinks DEF Logout
<1> QED BY <1>1, <1>2 DEF CredentialsInv, OldRevoked

\* A restart takes every request, and with them the deactivations.
LEMMA RestartInv ==
    ASSUME CredentialsInv, Restart
    PROVE  CredentialsInv'
<1>1. Rows'
  BY SameRows, AcctKept DEF Restart, CredentialsInv
<1>2. call' \in [Calls -> CallRecords]
  BY FreeRequest DEF Restart
<1>3. old' = {}
  BY OldShrinks DEF Restart, CredentialsInv, OldRevoked, Deactivating
<1> QED BY <1>1, <1>2, <1>3 DEF CredentialsInv, OldRevoked

-----------------------------------------------------------------------------
(* The theorems. *)

\* At the start there is no robot, and at most the seeded worker's key.
LEMMA CredentialsStart == CredentialsInit => CredentialsInv
<1> SUFFICES ASSUME CredentialsInit PROVE CredentialsInv
  OBVIOUS
<1>1. wkr \in Keys \cup {0}
  BY CredentialsAssumption DEF CredentialsInit, SeedWorkers
<1>2. Rows
  BY <1>1, CredentialsAssumption DEF CredentialsInit, Rows, OneRobotToken, Ids, Entities
<1> QED BY <1>2, FreeRequest DEF CredentialsInit, CredentialsInv, OldRevoked

\* Every step keeps the invariant, one case per group of handlers.
LEMMA CredentialsStep == CredentialsInv /\ [CredentialsNext]_credentials => CredentialsInv'
<1> SUFFICES ASSUME CredentialsInv, [CredentialsNext]_credentials PROVE CredentialsInv'
  OBVIOUS
<1>1. CASE UNCHANGED credentials
  BY <1>1 DEF credentials, CredentialsInv, Rows, OneRobotToken, OldRevoked
<1>2. ASSUME NEW s \in Calls, Step(s) PROVE CredentialsInv'
  BY <1>2, AuthenticateInv, LoginInv, OwnInv, DeactivateInv, RevokingInv, ActivateInv,
     RobotInv, WorkerInv, LeaveInv DEF Step
<1>3. ASSUME NEW s \in Calls, NEW k \in Ids, PresentBearer(s, k) PROVE CredentialsInv'
  BY <1>3, AuthenticateInv
<1> QED BY <1>1, <1>2, <1>3, LogoutInv, RestartInv DEF CredentialsNext

\* The invariant is inductive.
THEOREM CredentialsInvariance == CredentialsSpec => []CredentialsInv
BY CredentialsStart, CredentialsStep, PTL DEF CredentialsSpec

\* A robot never has two live tokens: the creations, revivals and rotations of
\* db/robots.rs keep the partial unique index without ever meeting it.
THEOREM OneRobotTokenTheorem == CredentialsSpec => []OneRobotToken
<1>1. CredentialsInv => OneRobotToken
  BY DEF CredentialsInv, Rows
<1> QED BY <1>1, CredentialsInvariance, PTL

\* What was live when an account was deactivated is dead once no deactivation is
\* under way, whatever the other requests do between the statements of
\* deactivate_entity.
THEOREM DeactivationRevokesTheorem == CredentialsSpec => []DeactivationRevokes
<1>1. CredentialsInv => DeactivationRevokes
  BY DEF CredentialsInv, OldRevoked, DeactivationRevokes, Deactivating
<1> QED BY <1>1, CredentialsInvariance, PTL
=============================================================================
